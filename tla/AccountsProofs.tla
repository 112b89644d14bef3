--------------------------- MODULE AccountsProofs ---------------------------
(***************************************************************************)
(* One-time codes are used once and sign-ups are announced once: for any   *)
(* users, keys, codes, requests and failures.                              *)
(*                                                                         *)
(* A code belongs to one key, is stored or over but never both (Codes-     *)
(* Inv), and what a request holds of it is known at each of its stages     *)
(* (Given, Made).  Only for a key with one request at a time does it know  *)
(* that nobody else has accepted or replaced the code.                     *)
(***************************************************************************)
EXTENDS Accounts, TLAPS

USE DEF Elsewhere, form

CodesInv ==
    /\ \A k, l \in Keys : codes[k] = codes[l] /\ codes[k] # NoCode => k = l
    /\ \A k, l \in Keys : \A c \in emailed[k] : c \in emailed[l] \/ c = codes[l] => k = l
    /\ \A k \in Keys : codes[k] \notin over
    /\ accepted \subseteq over

\* A verification.
Given(r) ==
    /\ pc[r] \in {"get", "delete", "accept"} => code[r] \in emailed[key[r]]
    /\ pc[r] = "accept" => code[r] \in over
    /\ pc[r] \in {"delete", "accept"} /\ key[r] \notin mixed => code[r] \notin accepted
    /\ pc[r] = "delete" /\ key[r] \notin mixed => codes[key[r]] \in {code[r], NoCode}

\* A code that is stored and not yet published.
Made(r) ==
    pc[r] = "publish" =>
        /\ code[r] \in Codes /\ code[r] \notin accepted
        /\ \A k \in Keys : code[r] \notin emailed[k] /\ (codes[k] = code[r] => k = key[r])
        /\ \A q \in Requests \ {r} : pc[q] = "publish" => code[q] # code[r]
        /\ key[r] \notin mixed => codes[key[r]] = code[r] \/ code[r] \in over

Late(r) == r \in late => pc[r] = "get" /\ code[r] \in over

Alone(r) ==
    \A q \in Requests \ {r} :
        pc[q] \in Stages /\ pc[r] \in Stages /\ key[q] = key[r] => key[r] \in mixed

RequestInv(r) == Given(r) /\ Made(r) /\ Late(r) /\ Alone(r)

CodeInv ==
    /\ CodesTypeOK
    /\ pc \in [Requests -> Stages \union Elsewhere]
    /\ CodesInv
    /\ AcceptedOnce
    /\ EmailedCodeWorks
    /\ \A r \in Requests : RequestInv(r)

\* What the one who made a user knows before the event.
AnnounceInv ==
    /\ \A r \in Requests :
          pc[r] = "announce" => user[email[r]] = "email" /\ email[r] \notin unannounced
    /\ \A e \in unannounced : user[e] = "email"

UserInv == TypeOK /\ AnnouncedOnce /\ AnnounceInv

IInv == CodeInv /\ UserInv

-----------------------------------------------------------------------------
LEMMA NewCodeIsNew ==
    ASSUME Codes \ InUse # {}
    PROVE  NewCode \in Codes \ InUse
BY DEF NewCode

LEMMA InitCodeInv == Init => CodeInv
<1> SUFFICES ASSUME Init PROVE CodeInv
  OBVIOUS
<1>1. AnyKey \in Keys
  BY CodesAssumption DEF AnyKey
<1>2. CodesTypeOK /\ \A r \in Requests : pc[r] = "idle"
  BY <1>1, CodesAssumption DEF Init, CodesInit, CodesTypeOK
<1>3. CodesInv /\ AcceptedOnce /\ EmailedCodeWorks
  BY DEF Init, CodesInit, CodesInv, AcceptedOnce, EmailedCodeWorks
<1>4. \A r \in Requests : RequestInv(r)
  BY <1>2 DEF Init, CodesInit, RequestInv, Given, Made, Late, Alone, Stages
<1> QED
  BY <1>2, <1>3, <1>4 DEF CodeInv, Init, CodesInit

-----------------------------------------------------------------------------
\* A request of one's own comes or goes, and no code changes.
LEMMA BeginKeepsCodeInv ==
    ASSUME CodeInv, NEW r \in Requests, NEW k \in Keys, NEW l \in {"store", "get"},
           NEW c \in Codes \union {NoCode},
           l = "store" => c = NoCode, l = "get" => c \in emailed[k],
           Begin(r, k, l, c)
    PROVE  CodeInv'
<1> USE DEF Begin, history
<1>1. CodesTypeOK' /\ pc' \in [Requests -> Stages \union Elsewhere]
  BY DEF CodeInv, CodesTypeOK, Stages
<1>2. CodesInv'
  BY DEF CodeInv, CodesInv
<1>3. AcceptedOnce' /\ EmailedCodeWorks'
  BY DEF CodeInv, AcceptedOnce, EmailedCodeWorks
<1>4. ASSUME NEW q \in Requests PROVE RequestInv(q)'
  <2>1. Given(q)'
    BY DEF CodeInv, CodesTypeOK, RequestInv, Given
  <2>2. Made(q)'
    BY DEF CodeInv, CodesTypeOK, RequestInv, Made
  <2>3. Late(q)'
    <3>1. c \in over => l = "get"
      BY CodesAssumption DEF CodeInv, CodesTypeOK
    <3> QED
      BY <3>1 DEF CodeInv, CodesTypeOK, RequestInv, Late
  <2>4. Alone(q)'
    BY DEF CodeInv, CodesTypeOK, RequestInv, Alone, Stages
  <2> QED
    BY <2>1, <2>2, <2>3, <2>4 DEF RequestInv
<1> QED
  BY <1>1, <1>2, <1>3, <1>4 DEF CodeInv

\* A request ends, or goes on outside the codes.
LEMMA LeaveKeepsCodeInv ==
    ASSUME CodeInv, NEW r \in Requests, UNCHANGED <<codes, emailed, history, mixed>>,
           faults' \in 0..MaxFaults,
           \/ End(r)
           \/ /\ pc[r] \notin Stages
              /\ \E l \in Elsewhere : Goto(r, l)
    PROVE  CodeInv'
<1> USE DEF history
<1>1. PICK l \in Elsewhere :
         pc' = [pc EXCEPT ![r] = l]
  BY DEF End, Goto
<1>2. l \notin Stages
  BY DEF Stages
<1>3. /\ key' \in [Requests -> Keys] /\ code' \in [Requests -> Codes \union {NoCode}]
      /\ late' \subseteq late
      /\ \A q \in Requests \ {r} : key'[q] = key[q] /\ code'[q] = code[q]
  BY CodesAssumption DEF CodeInv, CodesTypeOK, End, Goto, request, AnyKey
<1>4. r \notin late'
  BY DEF CodeInv, RequestInv, Late, End, Goto, request, Stages
<1>5. CodesTypeOK' /\ pc' \in [Requests -> Stages \union Elsewhere]
  BY <1>1, <1>3 DEF CodeInv, CodesTypeOK
<1>6. CodesInv' /\ AcceptedOnce' /\ EmailedCodeWorks'
  BY DEF CodeInv, CodesInv, AcceptedOnce, EmailedCodeWorks
<1>7. \A q \in Requests : pc'[q] \in Stages =>
         q # r /\ pc'[q] = pc[q] /\ key'[q] = key[q] /\ code'[q] = code[q]
  BY <1>1, <1>2, <1>3 DEF CodeInv
<1>8. ASSUME NEW q \in Requests PROVE RequestInv(q)'
  <2>1. RequestInv(q)
    BY DEF CodeInv
  <2>2. Given(q)'
    BY <1>7, <2>1 DEF RequestInv, Given, Stages
  <2>3. Made(q)'
    BY <1>7, <2>1 DEF RequestInv, Made, Stages
  <2>4. Late(q)'
    BY <1>1, <1>3, <1>4, <2>1 DEF CodeInv, RequestInv, Late
  <2>5. Alone(q)'
    BY <1>7, <2>1 DEF RequestInv, Alone
  <2> QED
    BY <2>2, <2>3, <2>4, <2>5 DEF RequestInv
<1> QED
  BY <1>5, <1>6, <1>8 DEF CodeInv

LEMMA StoreKeepsCodeInv ==
    ASSUME CodeInv, NEW r \in Requests, Store(r) PROVE CodeInv'
<1> USE DEF Store
<1> DEFINE k == key[r]
           n == NewCode
<1>1. n \in Codes /\ n # NoCode /\ n \notin InUse
  BY NewCodeIsNew, CodesAssumption
<1>2. /\ k \in Keys /\ pc[r] = "store" /\ codes[k] \in Codes \union {NoCode}
      /\ \A l \in Keys : codes[l] # n /\ \A q \in Requests : code[q] # n
  BY <1>1 DEF CodeInv, CodesTypeOK, InUse
<1>3. /\ codes'[k] = n /\ \A l \in Keys \ {k} : codes'[l] = codes[l]
      /\ \A l \in Keys : emailed'[l] = emailed[l] \ {n}
      /\ code'[r] = n /\ pc'[r] = "publish"
      /\ \A q \in Requests \ {r} : code'[q] = code[q] /\ pc'[q] = pc[q]
  BY DEF CodeInv, CodesTypeOK
<1>4. CodesTypeOK' /\ pc' \in [Requests -> Stages \union Elsewhere]
  BY <1>1, <1>2 DEF CodeInv, CodesTypeOK, Stages
<1>5. CodesInv'
  <2>1. \A l \in Keys : codes'[l] # n => l # k /\ codes'[l] = codes[l]
    BY <1>3
  <2>2. \A l, m \in Keys : codes'[l] = codes'[m] /\ codes'[l] # NoCode => l = m
    BY <1>2, <1>3, <2>1 DEF CodeInv, CodesInv
  <2>3. \A l, m \in Keys : \A c \in emailed'[l] : c \in emailed'[m] \/ c = codes'[m] => l = m
    <3> SUFFICES ASSUME NEW l \in Keys, NEW m \in Keys, NEW c \in emailed'[l],
                        c \in emailed'[m] \/ c = codes'[m]
                 PROVE  l = m
      OBVIOUS
    <3>1. c \in emailed[l] /\ c # n
      BY <1>3
    <3>2. c \in emailed[m] \/ c = codes[m]
      BY <1>3, <2>1, <3>1
    <3> QED
      BY <3>1, <3>2 DEF CodeInv, CodesInv
  <2>4. ASSUME NEW l \in Keys PROVE codes'[l] \notin over'
    <3>1. CASE l = k
      BY <1>3, <3>1
    <3>2. CASE l # k
      BY <1>2, <1>3, <3>2 DEF CodeInv, CodesInv
    <3> QED
      BY <3>1, <3>2
  <2>5. accepted' \subseteq over'
    BY CodesAssumption DEF CodeInv, CodesInv, CodesTypeOK
  <2> QED
    BY <2>2, <2>3, <2>4, <2>5 DEF CodesInv
<1>6. AcceptedOnce'
  BY <1>3 DEF CodeInv, AcceptedOnce
<1>7. EmailedCodeWorks'
  <2> SUFFICES ASSUME NEW l \in Keys \ mixed, NEW c \in emailed'[l] \ over'
               PROVE  codes'[l] = c
    BY DEF EmailedCodeWorks
  <2>1. c \in emailed[l] /\ c # n /\ c \in Codes
    BY <1>3 DEF CodeInv, CodesTypeOK
  <2>4. c \notin over /\ c # codes[k]
    BY <2>1, CodesAssumption
  <2>2. codes[l] = c
    BY <2>1, <2>4 DEF CodeInv, EmailedCodeWorks
  <2>3. l # k
    BY <2>2, <2>4
  <2> QED
    BY <1>3, <2>2, <2>3
<1>8. ASSUME NEW q \in Requests PROVE RequestInv(q)'
  <2>1. RequestInv(q) /\ RequestInv(r)
    BY DEF CodeInv
  <2>2. Given(q)'
    <3>1. CASE q = r
      BY <1>3, <3>1 DEF Given
    <3>2. CASE q # r
      <4>1. pc'[q] = pc[q] /\ code'[q] = code[q] /\ key'[q] = key[q] /\ code[q] # n
        BY <1>2, <1>3, <3>2
      <4>2. pc[q] = "delete" /\ key[q] \notin mixed => key[q] # k
        BY <1>2, <2>1, <3>2 DEF RequestInv, Alone, Stages
      <4>3. key[q] \in Keys
        BY DEF CodeInv, CodesTypeOK
      <4>4. pc[q] \in {"get", "delete", "accept"} => code[q] \in emailed'[key[q]]
        BY <1>3, <2>1, <4>1, <4>3 DEF RequestInv, Given
      <4>5. pc[q] = "accept" => code[q] \in over'
        BY <2>1, <4>1, <4>3, <4>4, CodesAssumption DEF CodeInv, CodesTypeOK, RequestInv, Given
      <4> QED
        BY <1>3, <2>1, <4>1, <4>2, <4>3, <4>4, <4>5 DEF RequestInv, Given
    <3> QED
      BY <3>1, <3>2
  <2>3. Made(q)'
    <3>1. CASE q = r
      BY <1>1, <1>2, <1>3, <3>1 DEF Made
    <3>2. CASE q # r
      <4> SUFFICES ASSUME pc[q] = "publish" PROVE Made(q)'
        BY <1>3, <3>2 DEF Made
      <4>1. code'[q] = code[q] /\ key'[q] = key[q] /\ code[q] # n /\ key[q] \in Keys
        BY <1>2, <1>3, <3>2 DEF CodeInv, CodesTypeOK
      <4>2. key[q] \notin mixed => key[q] # k
        BY <1>2, <2>1, <3>2 DEF RequestInv, Alone, Stages
      <4>3. code[q] \in Codes /\ code[q] \notin accepted
        BY <2>1 DEF RequestInv, Made
      <4>4. key[q] \notin mixed => codes'[key[q]] = code[q] \/ code[q] \in over'
        BY <1>3, <2>1, <4>1, <4>2, <4>3, CodesAssumption DEF RequestInv, Made
      <4>5. \A l \in Keys : code[q] \notin emailed'[l] /\ (codes'[l] = code[q] => l = key[q])
        BY <1>2, <1>3, <2>1, <4>1 DEF RequestInv, Made
      <4>6. \A p \in Requests \ {q} : pc'[p] = "publish" => code'[p] # code[q]
        BY <1>2, <1>3, <2>1 DEF RequestInv, Made
      <4> QED
        BY <4>1, <4>3, <4>4, <4>5, <4>6 DEF Made
    <3> QED
      BY <3>1, <3>2
  <2>4. Late(q)'
    <3> SUFFICES ASSUME q \in late PROVE Late(q)'
      BY DEF Late
    <3>1. q # r /\ pc[q] = "get" /\ code[q] \in over
      BY <1>2, <2>1 DEF RequestInv, Late
    <3>2. code[q] \in Codes /\ code[q] # n
      BY <1>2, <3>1 DEF CodeInv, CodesTypeOK
    <3> QED
      BY <1>3, <3>1, <3>2, CodesAssumption DEF Late
  <2>5. Alone(q)'
    BY <1>2, <1>3, <2>1 DEF CodeInv, RequestInv, Alone, Stages
  <2> QED
    BY <2>2, <2>3, <2>4, <2>5 DEF RequestInv
<1> QED
  BY <1>4, <1>5, <1>6, <1>7, <1>8 DEF CodeInv

LEMMA PublishKeepsCodeInv ==
    ASSUME CodeInv, NEW r \in Requests, Publish(r) PROVE CodeInv'
<1> USE DEF Publish, history
<1> DEFINE k == key[r]
           c == code[r]
<1>1. /\ pc[r] = "publish" /\ k \in Keys /\ c \in Codes /\ c \notin accepted
      /\ \A l \in Keys : c \notin emailed[l] /\ (codes[l] = c => l = k)
      /\ \A q \in Requests \ {r} : pc[q] = "publish" => code[q] # c
      /\ k \notin mixed => codes[k] = c \/ c \in over
  BY DEF CodeInv, CodesTypeOK, RequestInv, Made
<1>2. /\ emailed'[k] = emailed[k] \union {c}
      /\ \A l \in Keys \ {k} : emailed'[l] = emailed[l]
      /\ pc'[r] = "idle" /\ r \notin late'
      /\ \A q \in Requests \ {r} :
            pc'[q] = pc[q] /\ key'[q] = key[q] /\ code'[q] = code[q] /\ (q \in late' <=> q \in late)
  BY <1>1 DEF CodeInv, CodesTypeOK, End
<1>3. CodesTypeOK' /\ pc' \in [Requests -> Stages \union Elsewhere]
  BY <1>1, CodesAssumption DEF CodeInv, CodesTypeOK, End, AnyKey
<1>4. CodesInv'
  <2> SUFFICES ASSUME NEW l \in Keys, NEW m \in Keys, NEW d \in emailed'[l],
                      d \in emailed'[m] \/ d = codes[m]
               PROVE  l = m
    BY DEF CodeInv, CodesInv
  <2>1. CASE d = c
    BY <1>1, <1>2, <2>1
  <2>2. CASE d # c
    <3>1. d \in emailed[l] /\ (d \in emailed[m] \/ d = codes[m])
      BY <1>2, <2>2
    <3> QED
      BY <3>1 DEF CodeInv, CodesInv
  <2> QED
    BY <2>1, <2>2
<1>5. AcceptedOnce'
  <2>1. c \notin twice
    BY <1>1 DEF CodeInv, CodesTypeOK
  <2> QED
    BY <1>2, <2>1 DEF CodeInv, AcceptedOnce
<1>6. EmailedCodeWorks'
  BY <1>1, <1>2 DEF CodeInv, EmailedCodeWorks
<1>7. ASSUME NEW q \in Requests PROVE RequestInv(q)'
  <2>1. RequestInv(q)
    BY DEF CodeInv
  <2>2. \A l \in Keys : emailed[l] \subseteq emailed'[l]
    BY <1>2
  <2>3. CASE q = r
    BY <1>2, <2>3 DEF RequestInv, Given, Made, Late, Alone, Stages
  <2>4. CASE q # r
    <3>1. Given(q)' /\ Late(q)'
      BY <1>2, <2>1, <2>2, <2>4 DEF CodeInv, CodesTypeOK, RequestInv, Given, Late
    <3>2. Made(q)'
      BY <1>1, <1>2, <2>1, <2>4 DEF CodeInv, CodesTypeOK, RequestInv, Made
    <3>3. Alone(q)'
      BY <1>2, <2>1, <2>4 DEF RequestInv, Alone, Stages
    <3> QED
      BY <3>1, <3>2, <3>3 DEF RequestInv
  <2> QED
    BY <2>3, <2>4
<1> QED
  BY <1>3, <1>4, <1>5, <1>6, <1>7 DEF CodeInv

LEMMA CompareKeepsCodeInv ==
    ASSUME CodeInv, NEW r \in Requests, Compare(r) PROVE CodeInv'
<1> USE DEF Compare
<1>1. CASE End(r)
  BY <1>1, LeaveKeepsCodeInv DEF CodeInv, CodesTypeOK
<1>2. CASE codes[key[r]] = code[r] /\ Goto(r, "delete")
  <2> USE <1>2 DEF Goto, request, history
  <2>1. CodesTypeOK' /\ pc' \in [Requests -> Stages \union Elsewhere]
    BY DEF CodeInv, CodesTypeOK, Stages
  <2>2. CodesInv' /\ AcceptedOnce' /\ EmailedCodeWorks'
    BY DEF CodeInv, CodesInv, AcceptedOnce, EmailedCodeWorks
  <2>3. code[r] \notin over /\ code[r] \notin accepted /\ r \notin late
    BY DEF CodeInv, CodesTypeOK, CodesInv, RequestInv, Late
  <2>4. ASSUME NEW q \in Requests PROVE RequestInv(q)'
    <3>1. RequestInv(q) /\ RequestInv(r)
      BY DEF CodeInv
    <3>2. Given(q)' /\ Late(q)'
      BY <2>3, <3>1 DEF CodeInv, RequestInv, Given, Late
    <3>3. Made(q)' /\ Alone(q)'
      BY <3>1 DEF CodeInv, RequestInv, Made, Alone, Stages
    <3> QED
      BY <3>2, <3>3 DEF RequestInv
  <2> QED
    BY <2>1, <2>2, <2>4 DEF CodeInv
<1> QED
  BY <1>1, <1>2

LEMMA DeleteKeepsCodeInv ==
    ASSUME CodeInv, NEW r \in Requests, Delete(r) PROVE CodeInv'
<1> USE DEF Delete, Goto, request
<1> DEFINE k == key[r]
           c == code[r]
<1>1. /\ pc[r] = "delete" /\ k \in Keys /\ c \in emailed[k] /\ c \in Codes
      /\ k \notin mixed => codes[k] \in {c, NoCode} /\ c \notin accepted
  BY DEF CodeInv, CodesTypeOK, RequestInv, Given
<1>2. /\ codes'[k] = NoCode /\ \A l \in Keys \ {k} : codes'[l] = codes[l]
      /\ pc'[r] = "accept" /\ \A q \in Requests \ {r} : pc'[q] = pc[q]
  BY <1>1 DEF CodeInv, CodesTypeOK
<1>3. CodesTypeOK' /\ pc' \in [Requests -> Stages \union Elsewhere]
  BY <1>1 DEF CodeInv, CodesTypeOK, Stages
<1>4. CodesInv'
  <2>1. \A l \in Keys : codes'[l] # NoCode => l # k /\ codes'[l] = codes[l]
    BY <1>2
  <2>2. \A l \in Keys : codes'[l] \notin over'
    BY <1>1, <1>2, CodesAssumption DEF CodeInv, CodesInv, CodesTypeOK
  <2>3. \A l \in Keys : \A d \in emailed[l] : d # NoCode
    BY CodesAssumption DEF CodeInv, CodesTypeOK
  <2> QED
    BY <2>1, <2>2, <2>3 DEF CodeInv, CodesInv
<1>5. AcceptedOnce'
  BY DEF CodeInv, AcceptedOnce
<1>6. EmailedCodeWorks'
  <2> SUFFICES ASSUME NEW l \in Keys \ mixed, NEW d \in emailed[l] \ over' PROVE codes'[l] = d
    BY DEF EmailedCodeWorks
  <2>1. codes[l] = d /\ d # c
    BY DEF CodeInv, EmailedCodeWorks
  <2>2. l # k
    BY <1>1, <2>1, CodesAssumption DEF CodeInv, CodesTypeOK
  <2> QED
    BY <1>2, <2>1, <2>2
<1>7. ASSUME NEW q \in Requests PROVE RequestInv(q)'
  <2>1. RequestInv(q) /\ RequestInv(r) /\ key[q] \in Keys
    BY DEF CodeInv, CodesTypeOK
  <2>2. Given(q)'
    BY <1>1, <1>2, <2>1 DEF RequestInv, Given
  <2>3. Late(q)'
    BY <1>1, <1>2, <2>1 DEF RequestInv, Late
  <2>4. Made(q)'
    <3> SUFFICES ASSUME pc'[q] = "publish" PROVE Made(q)'
      BY DEF Made
    <3>1. q # r /\ pc[q] = "publish"
      BY <1>2
    <3>2. key[q] \notin mixed => key[q] # k
      BY <1>1, <2>1, <3>1 DEF RequestInv, Alone, Stages
    <3>3. code[q] # NoCode /\ \A l \in Keys : codes'[l] = code[q] => codes[l] = code[q]
      BY <1>2, <2>1, <3>1, CodesAssumption DEF RequestInv, Made
    <3> QED
      BY <1>2, <2>1, <3>1, <3>2, <3>3 DEF RequestInv, Made
  <2>5. Alone(q)'
    BY <1>1, <1>2, <2>1 DEF RequestInv, Alone, Stages
  <2> QED
    BY <2>2, <2>3, <2>4, <2>5 DEF RequestInv
<1> QED
  BY <1>3, <1>4, <1>5, <1>6, <1>7 DEF CodeInv

LEMMA AcceptKeepsCodeInv ==
    ASSUME CodeInv, NEW r \in Requests, Accept(r) PROVE CodeInv'
<1> USE DEF Accept, End
<1> DEFINE k == key[r]
           c == code[r]
<1>1. /\ pc[r] = "accept" /\ k \in Keys /\ c \in emailed[k] /\ c \in Codes /\ c \in over
      /\ k \notin mixed => c \notin accepted
  BY DEF CodeInv, CodesTypeOK, RequestInv, Given
<1>2. /\ pc'[r] = "idle" /\ r \notin late'
      /\ \A q \in Requests \ {r} :
            pc'[q] = pc[q] /\ key'[q] = key[q] /\ code'[q] = code[q] /\ (q \in late' <=> q \in late)
  BY DEF CodeInv, CodesTypeOK
<1>3. CodesTypeOK' /\ pc' \in [Requests -> Stages \union Elsewhere]
  BY <1>1, CodesAssumption DEF CodeInv, CodesTypeOK, AnyKey
<1>4. CodesInv' /\ EmailedCodeWorks'
  BY <1>1 DEF CodeInv, CodesInv, EmailedCodeWorks
<1>5. AcceptedOnce'
  <2> SUFFICES ASSUME NEW l \in Keys \ mixed, c \in emailed[l], c \in accepted PROVE FALSE
    BY DEF CodeInv, AcceptedOnce
  <2> QED
    BY <1>1 DEF CodeInv, CodesInv
<1>6. ASSUME NEW q \in Requests PROVE RequestInv(q)'
  <2>1. RequestInv(q) /\ RequestInv(r)
    BY DEF CodeInv
  <2>2. CASE q = r
    BY <1>2, <2>2 DEF RequestInv, Given, Made, Late, Alone, Stages
  <2>3. CASE q # r
    <3>1. Given(q)'
      <4>1. pc[q] \in {"delete", "accept"} /\ key[q] \notin mixed => code[q] # c
        BY <1>1, <2>1, <2>3
        DEF CodeInv, CodesInv, CodesTypeOK, RequestInv, Given, Alone, Stages
      <4> QED
        BY <1>2, <2>1, <2>3, <4>1 DEF RequestInv, Given
    <3>2. Made(q)'
      BY <1>1, <1>2, <2>1, <2>3 DEF RequestInv, Made
    <3>3. Late(q)' /\ Alone(q)'
      BY <1>2, <2>1, <2>3 DEF RequestInv, Late, Alone, Stages
    <3> QED
      BY <3>1, <3>2, <3>3 DEF RequestInv
  <2> QED
    BY <2>2, <2>3
<1> QED
  BY <1>3, <1>4, <1>5, <1>6 DEF CodeInv

LEMMA ExpireKeepsCodeInv ==
    ASSUME CodeInv, NEW k \in Keys, Expire(k) PROVE CodeInv'
<1> USE DEF Expire, request
<1>1. /\ codes[k] \in Codes /\ codes'[k] = NoCode
      /\ \A l \in Keys \ {k} : codes'[l] = codes[l]
  BY DEF CodeInv, CodesTypeOK
<1>2. CodesTypeOK' /\ pc' \in [Requests -> Stages \union Elsewhere]
  BY <1>1 DEF CodeInv, CodesTypeOK
<1>3. CodesInv'
  <2>1. \A l \in Keys : codes'[l] # NoCode => l # k /\ codes'[l] = codes[l]
    BY <1>1
  <2>2. \A l \in Keys : codes'[l] \notin over'
    BY <1>1, CodesAssumption DEF CodeInv, CodesInv, CodesTypeOK
  <2>3. \A l \in Keys : \A d \in emailed[l] : d # NoCode
    BY CodesAssumption DEF CodeInv, CodesTypeOK
  <2> QED
    BY <2>1, <2>2, <2>3 DEF CodeInv, CodesInv
<1>4. AcceptedOnce' /\ EmailedCodeWorks'
  BY <1>1 DEF CodeInv, AcceptedOnce, EmailedCodeWorks
<1>5. ASSUME NEW q \in Requests PROVE RequestInv(q)'
  <2>1. RequestInv(q) /\ key[q] \in Keys
    BY DEF CodeInv, CodesTypeOK
  <2>2. Given(q)' /\ Late(q)' /\ Alone(q)'
    BY <1>1, <2>1 DEF RequestInv, Given, Late, Alone
  <2>3. Made(q)'
    <3> SUFFICES ASSUME pc[q] = "publish" PROVE Made(q)'
      BY DEF Made
    <3>1. code[q] # NoCode /\ \A l \in Keys : codes'[l] = code[q] => codes[l] = code[q]
      BY <1>1, <2>1, CodesAssumption DEF RequestInv, Made
    <3>2. key[q] \notin mixed => codes'[key[q]] = code[q] \/ code[q] \in over'
      BY <1>1, <2>1 DEF RequestInv, Made
    <3> QED
      BY <2>1, <3>1, <3>2 DEF RequestInv, Made
  <2> QED
    BY <2>2, <2>3 DEF RequestInv
<1> QED
  BY <1>2, <1>3, <1>4, <1>5 DEF CodeInv

-----------------------------------------------------------------------------
(* Users. *)

LEMMA InitUserInv == Init => UserInv
<1> SUFFICES ASSUME Init PROVE UserInv
  OBVIOUS
<1>1. TypeOK
  BY InitCodeInv, AccountsAssumption DEF CodeInv, Init, CodesInit, TypeOK
<1>2. AnnouncedOnce /\ AnnounceInv
  BY DEF Init, CodesInit, AnnouncedOnce, AnnounceInv, Announcing
<1> QED
  BY <1>1, <1>2 DEF UserInv

\* Nobody begins or ends announcing, and the users stay as they are.
LEMMA SameUsersKeepUserInv ==
    ASSUME UserInv, CodesTypeOK', UNCHANGED <<user, announced, unannounced>>,
           pc' \in [Requests -> Stages \union Elsewhere],
           email' \in [Requests -> Emails], badZone' \subseteq Requests, sent' \subseteq Emails, signedIn' \subseteq Emails,
           \A r \in Requests : pc'[r] = "announce" <=> pc[r] = "announce",
           \A r \in Requests : pc[r] = "announce" => email'[r] = email[r]
    PROVE  UserInv'
<1>1. TypeOK'
  BY DEF UserInv, TypeOK
<1>2. \A e \in Emails : Announcing(e)' = Announcing(e)
  BY DEF Announcing
<1>3. AnnouncedOnce'
  BY <1>2 DEF UserInv, AnnouncedOnce
<1>4. AnnounceInv'
  BY DEF UserInv, AnnounceInv
<1> QED
  BY <1>1, <1>3, <1>4 DEF UserInv

LEMMA CreateUserKeepsUserInv ==
    ASSUME UserInv, NEW r \in Requests, CreateUser(r), ~HasUser(email[r]), CodesTypeOK'
    PROVE  UserInv'
<1> USE DEF CreateUser, Goto, request, HasUser
<1> DEFINE e == email[r]
<1>1. e \in Emails /\ user[e] = "none" /\ Announcing(e) = {}
  BY DEF UserInv, TypeOK, AnnounceInv, Announcing
<1>2. TypeOK'
  BY DEF UserInv, TypeOK
<1>3. Announcing(e)' = {r} /\ \A f \in Emails \ {e} : Announcing(f)' = Announcing(f)
  BY <1>1 DEF UserInv, TypeOK, Announcing
<1>4. user'[e] = "email" /\ \A f \in Emails \ {e} : user'[f] = user[f]
  BY <1>1 DEF UserInv, TypeOK
<1>5. announced[e] = 0
  BY <1>1 DEF UserInv, AnnouncedOnce
<1>6. AnnouncedOnce'
  BY <1>3, <1>4, <1>5 DEF UserInv, AnnouncedOnce
<1>7. e \notin unannounced
  BY <1>1 DEF UserInv, AnnounceInv
<1> QED
  BY <1>2, <1>4, <1>6, <1>7 DEF UserInv, TypeOK, AnnounceInv

LEMMA AnnounceKeepsUserInv ==
    ASSUME UserInv, NEW r \in Requests, Announce(r), CodesTypeOK'
    PROVE  UserInv'
<1> USE DEF Announce, Goto, request
<1> DEFINE e == email[r]
<1>1. /\ e \in Emails /\ user[e] = "email" /\ e \notin unannounced /\ pc[r] = "announce"
      /\ Announcing(e) = {r} /\ announced[e] = 0
  BY DEF UserInv, TypeOK, AnnounceInv, AnnouncedOnce, Announcing
<1>2. announced'[e] = 1 /\ \A f \in Emails \ {e} : announced'[f] = announced[f]
  BY <1>1 DEF UserInv, TypeOK
<1>3. TypeOK'
  BY <1>1 DEF UserInv, TypeOK
<1>4. Announcing(e)' = {} /\ \A f \in Emails \ {e} : Announcing(f)' = Announcing(f)
  BY <1>1 DEF UserInv, TypeOK, Announcing
<1>5. AnnouncedOnce'
  BY <1>1, <1>2, <1>4 DEF UserInv, AnnouncedOnce
<1>6. AnnounceInv'
  BY DEF UserInv, TypeOK, AnnounceInv
<1> QED
  BY <1>3, <1>5, <1>6 DEF UserInv

LEMMA CreateUserFromOAuthKeepsUserInv ==
    ASSUME UserInv, NEW r \in Requests, CreateUserFromOAuth(r), ~HasUser(email[r]), CodesTypeOK'
    PROVE  UserInv'
<1> USE DEF CreateUserFromOAuth, End, HasUser
<1> DEFINE e == email[r]
<1>1. /\ e \in Emails /\ user[e] = "none" /\ e \notin unannounced /\ Announcing(e) = {}
      /\ announced[e] = 0
  BY DEF UserInv, TypeOK, AnnounceInv, AnnouncedOnce, Announcing
<1>2. user'[e] = "google" /\ \A f \in Emails \ {e} : user'[f] = user[f]
  BY <1>1 DEF UserInv, TypeOK
<1>3. TypeOK'
  BY <1>1 DEF UserInv, TypeOK
<1>4. \A f \in Emails : Announcing(f)' = Announcing(f)
  BY DEF UserInv, TypeOK, Announcing
<1>5. AnnouncedOnce'
  BY <1>1, <1>2, <1>4 DEF UserInv, AnnouncedOnce
<1>6. \A q \in Requests : pc'[q] = "announce" => pc[q] = "announce" /\ email[q] # e
  BY <1>1 DEF UserInv, TypeOK, AnnounceInv
<1>7. AnnounceInv'
  BY <1>1, <1>2, <1>6 DEF UserInv, TypeOK, AnnounceInv
<1> QED
  BY <1>3, <1>5, <1>7 DEF UserInv

\* A request that ends changes no user, unless it was about to announce one.
LEMMA EndKeepsUserInv ==
    ASSUME UserInv, NEW r \in Requests, End(r), CodesTypeOK',
           UNCHANGED <<email, user, announced>>, badZone' \subseteq Requests,
           unannounced' = IF pc[r] = "announce" THEN unannounced \union {email[r]} ELSE unannounced,
           sent' \subseteq Emails, signedIn' \subseteq Emails
    PROVE  UserInv'
<1> USE DEF End
<1>0. pc' \in [Requests -> Stages \union Elsewhere]
  BY DEF UserInv, TypeOK
<1>1. CASE pc[r] # "announce"
  BY <1>0, <1>1, SameUsersKeepUserInv DEF UserInv, TypeOK
<1>2. CASE pc[r] = "announce"
  <2> DEFINE e == email[r]
  <2>1. /\ e \in Emails /\ user[e] = "email" /\ e \notin unannounced
        /\ Announcing(e) = {r} /\ announced[e] = 0
    BY <1>2 DEF UserInv, TypeOK, AnnounceInv, AnnouncedOnce, Announcing
  <2>2. TypeOK'
    BY <1>0, <2>1 DEF UserInv, TypeOK
  <2>3. Announcing(e)' = {} /\ \A f \in Emails \ {e} : Announcing(f)' = Announcing(f)
    BY <2>1 DEF UserInv, TypeOK, Announcing
  <2>4. AnnouncedOnce'
    BY <1>2, <2>1, <2>3 DEF UserInv, AnnouncedOnce
  <2>5. \A q \in Requests : pc'[q] = "announce" => pc[q] = "announce" /\ email[q] # e
    BY <2>3 DEF UserInv, TypeOK, Announcing
  <2>6. AnnounceInv'
    BY <1>2, <2>1, <2>5 DEF UserInv, AnnounceInv
  <2> QED
    BY <2>2, <2>4, <2>6 DEF UserInv
<1> QED
  BY <1>1, <1>2

-----------------------------------------------------------------------------
LEMMA InitIInv == Init => IInv
  BY InitCodeInv, InitUserInv DEF IInv

LEMMA NextKeepsCodeInv ==
    ASSUME IInv, Next PROVE CodeInv'
<1> USE DEF IInv
<1>1. CASE \E r \in Requests, e \in Emails : SignIn(r, e)
  <2>1. PICK r \in Requests, e \in Emails, l \in {"createUser", "storeCode"} : Enter(r, e, l)
    BY <1>1 DEF SignIn
  <2>2. faults' \in 0..MaxFaults /\ pc[r] \notin Stages /\ Goto(r, l)
    BY <2>1 DEF Enter, Goto, Stages, CodeInv, CodesTypeOK
  <2> QED
    BY <2>1, <2>2, LeaveKeepsCodeInv DEF Enter
<1>2. CASE \E r \in Requests, k \in Keys : AskCode(r, k)
  <2>1. PICK r \in Requests, k \in Keys : AskCode(r, k)
    BY <1>2
  <2>2. CASE AskSend(r, k)
    BY <2>2, BeginKeepsCodeInv DEF AskSend
  <2>3. CASE \E c \in Codes : AskVerify(r, k, c)
    BY <2>3, BeginKeepsCodeInv DEF AskVerify
  <2> QED
    BY <2>1, <2>2, <2>3 DEF AskCode
<1>3. CASE \E r \in Requests : \/ CreateUser(r) \/ Announce(r)
                                \/ StoreSignInOtp(r) \/ SendSignInOtp(r)
                                \/ OauthSignin(r) \/ Authenticate(r) \/ FindOauthUser(r)
                                \/ CreateUserFromOAuth(r)
  <2>1. PICK r \in Requests : \/ CreateUser(r) \/ Announce(r)
                             \/ StoreSignInOtp(r) \/ SendSignInOtp(r)
                             \/ OauthSignin(r) \/ Authenticate(r) \/ FindOauthUser(r)
                             \/ CreateUserFromOAuth(r)
    BY <1>3
  <2>2. /\ faults' \in 0..MaxFaults /\ pc[r] \notin Stages
        /\ UNCHANGED <<codes, emailed, history, mixed>>
        /\ End(r) \/ \E l \in Elsewhere : Goto(r, l)
    BY <2>1 DEF CreateUser, Announce, StoreSignInOtp, SendSignInOtp, Leave, OauthSignin, Authenticate, FindOauthUser,
                ValidateExistingAuth, CreateUserFromOAuth, Stages, CodeInv, CodesTypeOK
  <2> QED
    BY <2>2, LeaveKeepsCodeInv
<1>4. CASE \E r \in Requests : HandleCode(r)
  BY <1>4, StoreKeepsCodeInv, PublishKeepsCodeInv, CompareKeepsCodeInv, DeleteKeepsCodeInv,
     AcceptKeepsCodeInv DEF HandleCode
<1>5. CASE \E r \in Requests : FailRequest(r)
  <2>1. PICK r \in Requests : Fail(r)
    BY <1>5 DEF FailRequest
  <2>2. faults' \in 0..MaxFaults
    BY <2>1, CodesAssumption DEF Fail, CodeInv, CodesTypeOK
  <2> QED
    BY <2>1, <2>2, LeaveKeepsCodeInv DEF Fail
<1>6. CASE \E e \in Emails : CompleteSignIn(e)
  BY <1>6 DEF CompleteSignIn, codeVars, history, request, CodeInv, CodesTypeOK, CodesInv,
     AcceptedOnce, EmailedCodeWorks, RequestInv, Given, Made, Late, Alone
<1>7. CASE \E k \in Keys : Expire(k)
  BY <1>7, ExpireKeepsCodeInv
<1> QED
  BY <1>1, <1>2, <1>3, <1>4, <1>5, <1>6, <1>7 DEF Next, Handle

LEMMA NextKeepsUserInv ==
    ASSUME IInv, Next, CodeInv' PROVE UserInv'
<1> USE DEF IInv
<1>0. CodesTypeOK' /\ pc' \in [Requests -> Stages \union Elsewhere]
  BY DEF CodeInv
<1>1. CASE \E r \in Requests, e \in Emails : SignIn(r, e)
  <2>1. PICK r \in Requests, e \in Emails, l \in {"createUser", "storeCode"} : Enter(r, e, l)
    BY <1>1 DEF SignIn
  <2> QED
    BY <1>0, <2>1, SameUsersKeepUserInv DEF Enter, UserInv, TypeOK
<1>2. CASE \E r \in Requests, k \in Keys : AskCode(r, k)
  BY <1>0, <1>2, SameUsersKeepUserInv
  DEF AskCode, AskSend, AskVerify, Begin, users, UserInv, TypeOK
<1>3. ASSUME NEW r \in Requests,
             SendSignInOtp(r) \/ ((CreateUser(r) \/ CreateUserFromOAuth(r)) /\ HasUser(email[r]))
      PROVE  UserInv'
  <2>1. /\ End(r) /\ pc[r] # "announce" /\ UNCHANGED <<email, user, announced, unannounced>>
        /\ badZone' \subseteq Requests /\ sent' \subseteq Emails /\ signedIn' \subseteq Emails
    BY <1>3 DEF CreateUser, SendSignInOtp, Leave, CreateUserFromOAuth, UserInv, TypeOK
  <2> QED
    BY <1>0, <2>1, EndKeepsUserInv
<1>4. ASSUME NEW r \in Requests, CreateUser(r) \/ CreateUserFromOAuth(r), ~HasUser(email[r])
      PROVE  UserInv'
  BY <1>0, <1>4, CreateUserKeepsUserInv, CreateUserFromOAuthKeepsUserInv
<1>5. CASE \E r \in Requests : HandleCode(r) /\ UNCHANGED users
  <2>1. PICK r \in Requests : HandleCode(r) /\ UNCHANGED users
    BY <1>5
  <2>2. \A q \in Requests : pc'[q] = "announce" <=> pc[q] = "announce"
    BY <2>1 DEF HandleCode, Store, Publish, Compare, Delete, Accept, End, Goto, UserInv, TypeOK
  <2> QED
    BY <1>0, <2>1, <2>2, SameUsersKeepUserInv DEF users, UserInv, TypeOK
<1>6. CASE \E r \in Requests : FailRequest(r)
  BY <1>0, <1>6, EndKeepsUserInv DEF FailRequest, Fail, UserInv, TypeOK
<1>7. CASE \E e \in Emails : CompleteSignIn(e)
  BY <1>0, <1>7, SameUsersKeepUserInv
  DEF CompleteSignIn, codeVars, UserInv, TypeOK
<1>8. CASE \E k \in Keys : Expire(k) /\ UNCHANGED users
  BY <1>0, <1>8, SameUsersKeepUserInv DEF Expire, users, UserInv, TypeOK
<1>9. CASE \E r \in Requests : \/ StoreSignInOtp(r)
                                \/ OauthSignin(r) \/ Authenticate(r) \/ FindOauthUser(r)
  <2>1. PICK r \in Requests : \/ StoreSignInOtp(r)
                             \/ OauthSignin(r) \/ Authenticate(r) \/ FindOauthUser(r)
    BY <1>9
  <2>2. /\ UNCHANGED <<badZone, user, announced, unannounced, sent, signedIn>>
        /\ email' \in [Requests -> Emails]
        /\ \A q \in Requests : pc'[q] = "announce" <=> pc[q] = "announce"
        /\ \A q \in Requests : pc[q] = "announce" => email'[q] = email[q]
    BY <2>1
    DEF StoreSignInOtp, OauthSignin, Authenticate, FindOauthUser, ValidateExistingAuth, Goto, End, users, UserInv,
        TypeOK
  <2> QED
    BY <1>0, <2>2, SameUsersKeepUserInv DEF UserInv, TypeOK
<1>10. CASE \E r \in Requests : Handle(r)
  <2>1. PICK r \in Requests : Handle(r)
    BY <1>10
  <2>2. CASE CreateUser(r) \/ CreateUserFromOAuth(r)
    BY <1>3, <1>4, <2>2
  <2>3. CASE Announce(r)
    BY <1>0, <2>3, AnnounceKeepsUserInv
  <2>4. CASE SendSignInOtp(r)
    BY <1>3, <2>4
  <2> QED
    BY <1>5, <1>9, <2>1, <2>2, <2>3, <2>4 DEF Handle
<1> QED
  BY <1>1, <1>2, <1>6, <1>7, <1>8, <1>10, <1>9 DEF Next

LEMMA StepPreservesIInv == IInv /\ [Next]_vars => IInv'
<1> SUFFICES ASSUME IInv, [Next]_vars PROVE IInv'
  OBVIOUS
<1>1. CASE Next
  BY <1>1, NextKeepsCodeInv, NextKeepsUserInv DEF IInv
<1>2. CASE UNCHANGED vars
  BY <1>2 DEF vars, users, codeVars, history, request, IInv, CodeInv, CodesTypeOK, CodesInv,
     AcceptedOnce, EmailedCodeWorks, RequestInv, Given, Made, Late, Alone, UserInv, TypeOK,
     AnnouncedOnce, AnnounceInv, Announcing
<1> QED
  BY <1>1, <1>2

LEMMA IInvHolds == Spec => []IInv
  BY InitIInv, StepPreservesIInv, PTL DEF Spec

-----------------------------------------------------------------------------
\* Users, events and codes have their types; no user is announced more than once.
THEOREM TypesHold == Spec => []TypeOK
<1>1. IInv => TypeOK
  BY DEF IInv, UserInv
<1> QED
  BY <1>1, IInvHolds, PTL

\* signin: whoever signs a user up at the same time, user.created is published once
\* for him, unless the instance died between the row and the event.
THEOREM SignUpsAreAnnouncedOnce == Spec => []AnnouncedOnce
<1>1. IInv => AnnouncedOnce
  BY DEF IInv, UserInv
<1> QED
  BY <1>1, IInvHolds, PTL

\* verifyToken: only requests that overlap accept a code twice.
THEOREM OnlyRacesAcceptTwice == Spec => []AcceptedOnce
<1>1. IInv => AcceptedOnce
  BY DEF IInv, CodeInv
<1> QED
  BY <1>1, IInvHolds, PTL

\* generateToken and verifyToken: a code that was used, replaced or has expired is
\* refused to every request that begins with it later.
THEOREM OverStaysRefused == Spec => []OverIsRefused
<1>1. IInv => OverIsRefused
  <2>1. ASSUME IInv PROVE OverIsRefused
    BY <2>1 DEF IInv, CodeInv, CodesTypeOK, RequestInv, Late, OverIsRefused
  <2> QED
    BY <2>1
<1> QED
  BY <1>1, IInvHolds, PTL

\* sendMfaToken: who asks one thing at a time can use the code he was emailed.
THEOREM EmailedCodesWork == Spec => []EmailedCodeWorks
<1>1. IInv => EmailedCodeWorks
  BY DEF IInv, CodeInv
<1> QED
  BY <1>1, IInvHolds, PTL
=============================================================================

--------------------------- MODULE SessionsProofs ---------------------------
(***************************************************************************)
(* Logging out holds: for any clients, networks, requests and failures.    *)
(*                                                                         *)
(* A row never changes its id, so that what a logout did to a row it did   *)
(* to every request that names the row's id.  The invariant adds that ids  *)
(* are unique (NewInv, Distinct), what a request and the calls of a logout *)
(* have done so far (StageInv), and that a late request names a row that   *)
(* was logged out (LateInv).                                               *)
(***************************************************************************)
EXTENDS Sessions, TLAPS

Secured(s) == s \in blacklist \union expired

Distinct ==
    \A f, g \in Fingerprints : HasRow(f) /\ rows[f].id = rows[g].id => f = g

\* An id that a request is about to store is nobody else's.
Storing(r) == pc[r] \in {"createRow", "updateRow"}

NewInv(r) ==
    Storing(r) =>
        /\ new[r] \in Sids
        /\ \A f \in Fingerprints : rows[f].id # new[r]
        /\ \A q \in Requests \ {r} : Storing(q) => new[q] # new[r]

StageInv(r) ==
    /\ pc[r] = "reply" => new[r] \in Sids
    /\ pending[r] # {} => pc[r] \in Ended \union {"revoke"} /\ HasRow(print[r])
    /\ pc[r] = "revoke" =>
          /\ HasRow(print[r])
          /\ "row" \notin pending[r] => rows[print[r]].revoked /\ ~rows[print[r]].hashed
          /\ "blacklist" \notin pending[r] /\ Remembered => Secured(rows[print[r]].id)

LateInv(r) ==
    r \in late =>
        /\ \E g \in loggedOut : token[r] = rows[g].id
        /\ pc[r] \in {"validate", "guard"} \union IF Remembered THEN {} ELSE {"findSession", "revoke"}

RequestInv(r) == NewInv(r) /\ StageInv(r) /\ LateInv(r)

IInv ==
    /\ TypeOK
    /\ LogoutRevokesRow
    /\ \A f \in loggedOut : HasRow(f)
    /\ Distinct
    /\ \A r \in Requests : RequestInv(r)

-----------------------------------------------------------------------------
\* What every step leaves of a row there is.
Kept ==
    /\ expiry' = expiry /\ (flushed => flushed')
    /\ \A f \in Fingerprints : HasRow(f) =>
          /\ rows'[f].id = rows[f].id
          /\ rows[f].revoked => rows'[f].revoked
          /\ ~rows[f].hashed => ~rows'[f].hashed
          /\ Remembered' /\ Secured(rows[f].id) => Secured(rows[f].id)'

\* What a step of one request leaves of another.
Untouched(q) ==
    /\ pc'[q] = pc[q] /\ print'[q] = print[q] /\ token'[q] = token[q] /\ new'[q] = new[q]
    /\ pending'[q] = pending[q]
    /\ q \in late' => q \in late

LEMMA KeptFacts ==
    ASSUME IInv, TypeOK', Kept, loggedOut' = loggedOut
    PROVE  LogoutRevokesRow' /\ (\A f \in loggedOut' : HasRow(f)')
<1>1. Remembered' => Remembered
  BY DEF Kept, Remembered, Outlives, Ttl
<1>2. \A f \in loggedOut : f \in Fingerprints /\ HasRow(f)
  BY DEF IInv, TypeOK
<1> QED
  BY <1>1, <1>2 DEF IInv, Kept, LogoutRevokesRow, HasRow, Secured

LEMMA FrameKeepsStageInv ==
    ASSUME IInv, Kept, NEW q \in Requests, Untouched(q)
    PROVE  StageInv(q)'
<1>1. Remembered' => Remembered
  BY DEF Kept, Remembered, Outlives, Ttl
<1>2. StageInv(q) /\ print[q] \in Fingerprints
  BY DEF IInv, RequestInv, TypeOK
<1> QED
  BY <1>1, <1>2 DEF Kept, Untouched, StageInv, HasRow, Secured

LEMMA FrameKeepsLateInv ==
    ASSUME IInv, Kept, NEW q \in Requests, Untouched(q), loggedOut \subseteq loggedOut'
    PROVE  LateInv(q)'
<1>1. Remembered' => Remembered
  BY DEF Kept, Remembered, Outlives, Ttl
<1>2. LateInv(q) /\ \A g \in loggedOut : g \in Fingerprints /\ HasRow(g)
  BY DEF IInv, RequestInv, TypeOK
<1>3. \A g \in loggedOut : g \in loggedOut' /\ rows'[g].id = rows[g].id
  BY <1>2 DEF Kept
<1> QED
  BY <1>1, <1>2, <1>3 DEF Untouched, LateInv

\* A step that stores no row keeps ids unique, and so does one that begins no storing.
LEMMA SameIdsKeepNewInv ==
    ASSUME IInv, \A f \in Fingerprints : rows'[f].id = rows[f].id,
           \A q \in Requests : Storing(q)' => Storing(q) /\ new'[q] = new[q]
    PROVE  Distinct' /\ \A q \in Requests : NewInv(q)'
<1>1. Distinct'
  BY DEF IInv, Distinct, HasRow
<1>2. \A q \in Requests : NewInv(q)
  BY DEF IInv, RequestInv
<1>3. ASSUME NEW q \in Requests PROVE NewInv(q)'
  <2> SUFFICES ASSUME Storing(q)'
               PROVE  /\ new'[q] \in Sids
                      /\ \A f \in Fingerprints : rows'[f].id # new'[q]
                      /\ \A p \in Requests \ {q} : Storing(p)' => new'[p] # new'[q]
    BY DEF NewInv
  <2> QED
    BY <1>2 DEF NewInv
<1> QED
  BY <1>1, <1>3

-----------------------------------------------------------------------------
LEMMA InitIInv == Init => IInv
<1> SUFFICES ASSUME Init PROVE IInv
  OBVIOUS
<1>0. Fingerprints # {}
  <2>1. PICK c \in Clients, n \in Networks : TRUE
    BY SessionsAssumption
  <2>2. [client |-> c, network |-> n] \in Fingerprints
    BY DEF Fingerprints
  <2> QED
    BY <2>2
<1>1. TypeOK
  <2>1. NoRow \in Row
    BY DEF NoRow, Row
  <2>2. print \in [Requests -> Fingerprints]
    BY <1>0 DEF Init
  <2>3. rows \in [Fingerprints -> Row] /\ flushed \in BOOLEAN
    BY <2>1 DEF Init
  <2> QED
    BY <2>2, <2>3, SessionsAssumption DEF Init, TypeOK, Ended
<1>2. Distinct
  BY DEF Init, Distinct, HasRow, NoRow
<1>3. \A r \in Requests : RequestInv(r)
  BY DEF Init, RequestInv, NewInv, StageInv, LateInv, Storing
<1> QED
  BY <1>1, <1>2, <1>3 DEF IInv, Init, LogoutRevokesRow

\* A new id is neither a row's nor blacklisted nor any request's.
LEMMA UuidIsNew ==
    ASSUME Sids \ InUse # {}
    PROVE  Uuid \in Sids \ InUse
BY DEF Uuid

-----------------------------------------------------------------------------
\* A step of request r that stores no row and logs no row out.
LEMMA StepKeepsIInv ==
    ASSUME IInv, TypeOK', Kept, loggedOut' = loggedOut, NEW r \in Requests,
           \A f \in Fingerprints : rows'[f].id = rows[f].id,
           \A q \in Requests \ {r} : Untouched(q),
           Storing(r)' => Storing(r) /\ new'[r] = new[r],
           StageInv(r)', LateInv(r)'
    PROVE  IInv'
<1>1. \A q \in Requests : Storing(q)' => Storing(q) /\ new'[q] = new[q]
  BY DEF Storing, Untouched
<1>2. Distinct' /\ \A q \in Requests : NewInv(q)'
  BY <1>1, SameIdsKeepNewInv
<1>3. \A q \in Requests : StageInv(q)' /\ LateInv(q)'
  BY FrameKeepsStageInv, FrameKeepsLateInv
<1>4. \A q \in Requests : RequestInv(q)'
  BY <1>2, <1>3 DEF RequestInv
<1> QED
  BY <1>2, <1>4, KeptFacts DEF IInv

\* Nothing stored changes: what most statements leave alone.
LEMMA NothingStored ==
    ASSUME IInv, UNCHANGED <<stores, expired, expiry, flushed>>
    PROVE  Kept /\ \A f \in Fingerprints : rows'[f].id = rows[f].id
BY DEF stores, Kept, Secured

LEMMA AskKeepsIInv ==
    ASSUME IInv, NEW r \in Requests, NEW k \in Kinds, NEW f \in Fingerprints,
           NEW s \in Sids \union {NoSid}, Ask(r, k, f, s)
    PROVE  IInv'
<1> USE DEF Ask
<1>1. TypeOK'
  BY DEF IInv, TypeOK, stores, Kinds, Ended
<1>2. \A q \in Requests \ {r} : Untouched(q)
  BY DEF IInv, TypeOK, Untouched
<1>3. ~Storing(r)' /\ StageInv(r)'
  BY DEF IInv, TypeOK, Kinds, Storing, StageInv, Ended
<1>4. LateInv(r)'
  <2>1. r \notin late
    BY DEF IInv, RequestInv, LateInv, Ended
  <2> SUFFICES ASSUME r \in late' PROVE LateInv(r)'
    BY DEF LateInv
  <2>2. PICK g \in loggedOut : rows[g].id = s
    BY <2>1
  <2>3. s # NoSid
    BY <2>2 DEF IInv, HasRow
  <2>4. pc'[r] \in {"validate", "guard"}
    BY <2>3 DEF IInv, TypeOK, Kinds
  <2>5. token'[r] = rows'[g].id /\ g \in loggedOut'
    BY <2>2 DEF IInv, TypeOK, stores
  <2> QED
    BY <2>4, <2>5 DEF LateInv
<1> QED
  BY <1>1, <1>2, <1>3, <1>4, NothingStored, StepKeepsIInv DEF stores

\* A request that ends, whatever its calls still do.
LEMMA EndKeepsIInv ==
    ASSUME IInv, NEW r \in Requests, NEW l \in Ended, End(r, l),
           UNCHANGED <<stores, held, expired, expiry, flushed, loggedOut>>,
           faults' \in 0..MaxFaults,
           NEW calls \in SUBSET pending[r], pending' = [pending EXCEPT ![r] = calls],
           pc[r] # "revoke" => pending[r] = {} \/ pc[r] \in Ended
    PROVE  IInv'
<1>1. TypeOK'
  BY DEF IInv, TypeOK, End, stores, Ended
<1>2. \A q \in Requests \ {r} : Untouched(q)
  BY DEF IInv, TypeOK, End, Untouched
<1>3. ~Storing(r)' /\ LateInv(r)'
  BY DEF IInv, TypeOK, End, Ended, Storing, LateInv
<1>4. StageInv(r)'
  BY DEF IInv, TypeOK, RequestInv, End, Ended, StageInv, stores, HasRow
<1> QED
  BY <1>1, <1>2, <1>3, <1>4, NothingStored, StepKeepsIInv DEF stores

LEMMA FailKeepsIInv ==
    ASSUME IInv, NEW r \in Requests, Fail(r) PROVE IInv'
<1>1. faults' \in 0..MaxFaults
  BY SessionsAssumption DEF IInv, TypeOK, Fail
<1>2. PICK calls \in SUBSET pending[r] : pending' = [pending EXCEPT ![r] = calls]
  BY DEF Fail
<1>3. pc[r] # "revoke" => pending[r] = {} \/ pc[r] \in Ended
  BY DEF IInv, RequestInv, StageInv
<1> QED
  BY <1>1, <1>2, <1>3, EndKeepsIInv DEF Fail, Ended

LEMMA RefusalKeepsIInv ==
    ASSUME IInv, NEW r \in Requests, NEW l \in Ended, End(r, l), pc[r] # "revoke",
           UNCHANGED <<stores, held, expired, expiry, flushed, pending, loggedOut, faults>>
    PROVE  IInv'
<1>1. faults' \in 0..MaxFaults /\ pending' = [pending EXCEPT ![r] = pending[r]]
  BY DEF IInv, TypeOK
<1>2. pc[r] # "revoke" => pending[r] = {} \/ pc[r] \in Ended
  BY DEF IInv, RequestInv, StageInv
<1> QED
  BY <1>1, <1>2, EndKeepsIInv

-----------------------------------------------------------------------------
LEMMA SignKeepsIInv ==
    ASSUME IInv, NEW r \in Requests, Sign(r) PROVE IInv'
<1> USE DEF Sign
<1>0. Uuid \in Sids \ InUse
  BY UuidIsNew
<1>1. TypeOK'
  BY <1>0 DEF IInv, TypeOK, stores
<1>2. \A q \in Requests \ {r} : Untouched(q)
  BY DEF IInv, TypeOK, Untouched
<1>3. \A f \in Fingerprints : rows[f].id # Uuid
  BY <1>0 DEF InUse
<1>4. Kept
  BY <1>3 DEF Kept, Secured, stores
<1>5. pc[r] = "sign" /\ r \notin late /\ pending[r] = {}
  BY DEF IInv, RequestInv, LateInv, StageInv, Ended
<1>6. StageInv(r)' /\ LateInv(r)'
  BY <1>5 DEF IInv, TypeOK, StageInv, LateInv
<1>7. Distinct'
  BY DEF IInv, Distinct, HasRow, stores
<1>8. ASSUME NEW q \in Requests PROVE NewInv(q)'
  <2>1. new'[r] = Uuid /\ rows' = rows
    BY DEF IInv, TypeOK, stores
  <2>2. \A p \in Requests : new[p] # Uuid
    BY <1>0 DEF InUse
  <2>3. \A p \in Requests \ {r} : NewInv(p) /\ new'[p] = new[p] /\ (Storing(p)' <=> Storing(p))
    BY <1>2 DEF IInv, RequestInv, Untouched, Storing
  <2>4. CASE q = r
    BY <1>0, <1>3, <2>1, <2>2, <2>3, <2>4 DEF NewInv
  <2>5. CASE q # r
    BY <2>1, <2>2, <2>3, <2>5 DEF NewInv
  <2> QED
    BY <2>4, <2>5
<1>9. \A q \in Requests : RequestInv(q)'
  BY <1>2, <1>4, <1>6, <1>8, FrameKeepsStageInv, FrameKeepsLateInv DEF RequestInv
<1> QED
  BY <1>1, <1>4, <1>7, <1>9, KeptFacts DEF IInv

LEMMA CreateRowKeepsIInv ==
    ASSUME IInv, NEW r \in Requests, CreateRow(r) PROVE IInv'
<1> USE DEF CreateRow
<1>1. CASE HasRow(print[r])
  BY <1>1, RefusalKeepsIInv DEF stores, Ended
<1>2. CASE ~HasRow(print[r])
  <2> USE <1>2
  <2>1. print[r] \in Fingerprints /\ new[r] \in Sids /\ NewInv(r) /\ Storing(r)
    BY DEF IInv, TypeOK, RequestInv, NewInv, Storing
  <2>2. rows' = [rows EXCEPT ![print[r]] =
                    [id |-> new[r], active |-> TRUE, hashed |-> TRUE, revoked |-> FALSE]]
    OBVIOUS
  <2>3. rows'[print[r]].id = new[r] /\ \A f \in Fingerprints \ {print[r]} : rows'[f] = rows[f]
    BY <2>1, <2>2 DEF IInv, TypeOK
  <2>4. TypeOK'
    BY <2>1, <2>2 DEF IInv, TypeOK, Row, Goto, request
  <2>5. \A q \in Requests \ {r} : Untouched(q)
    BY DEF IInv, TypeOK, Untouched, Goto, request
  <2>6. Kept
    BY <2>3 DEF Kept, Secured
  <2>7. pc[r] = "createRow" /\ r \notin late /\ pending[r] = {}
    BY DEF IInv, RequestInv, LateInv, StageInv, Ended
  <2>8. StageInv(r)' /\ LateInv(r)' /\ ~Storing(r)'
    BY <2>1, <2>7 DEF IInv, TypeOK, StageInv, LateInv, Goto, request, Storing
  <2>9. Distinct'
    BY <2>1, <2>3 DEF IInv, Distinct, NewInv, HasRow
  <2>10. ASSUME NEW q \in Requests PROVE NewInv(q)'
    <3>1. \A p \in Requests \ {r} : NewInv(p) /\ new'[p] = new[p] /\ (Storing(p)' <=> Storing(p))
      BY <2>5 DEF IInv, RequestInv, Untouched, Storing
    <3>2. \A p \in Requests \ {r} : Storing(p) => new[p] # new[r]
      BY <2>1 DEF NewInv
    <3>3. CASE q # r
      BY <2>1, <2>3, <2>8, <3>1, <3>2, <3>3 DEF NewInv
    <3> QED
      BY <2>8, <3>3 DEF NewInv
  <2>11. \A q \in Requests : RequestInv(q)'
    BY <2>5, <2>6, <2>8, <2>10, FrameKeepsStageInv, FrameKeepsLateInv DEF RequestInv
  <2> QED
    BY <2>4, <2>6, <2>9, <2>11, KeptFacts DEF IInv
<1> QED
  BY <1>1, <1>2

LEMMA UpdateRowKeepsIInv ==
    ASSUME IInv, NEW r \in Requests, UpdateRow(r) PROVE IInv'
<1> USE DEF UpdateRow
<1>1. print[r] \in Fingerprints /\ \A f \in Fingerprints :
         /\ rows[f] \in Row /\ rows'[f].id = rows[f].id
         /\ rows'[f].revoked = rows[f].revoked /\ rows'[f].hashed = rows[f].hashed
  BY DEF IInv, TypeOK, Row
<1>2. TypeOK'
  <2>1. rows' \in [Fingerprints -> Row]
    BY <1>1 DEF IInv, TypeOK, Row
  <2>2. pc' \in [Requests -> Ended \union {"sign", "createRow", "updateRow", "reply",
                                           "validate", "guard", "findSession", "revoke"}]
    BY DEF IInv, TypeOK, Goto
  <2> QED
    BY <2>1, <2>2 DEF IInv, TypeOK, Goto, request
<1>3. \A q \in Requests \ {r} : Untouched(q)
  BY DEF IInv, TypeOK, Untouched, Goto, request
<1>4. Kept
  BY <1>1 DEF Kept, Secured
<1>5. r \notin late /\ pending[r] = {} /\ new[r] \in Sids
  BY DEF IInv, RequestInv, NewInv, Storing, LateInv, StageInv, Ended
<1>6. StageInv(r)' /\ LateInv(r)' /\ ~Storing(r)'
  BY <1>5 DEF IInv, TypeOK, StageInv, LateInv, Goto, request, Storing
<1> QED
  BY <1>1, <1>2, <1>3, <1>4, <1>6, StepKeepsIInv

LEMMA ReplyKeepsIInv ==
    ASSUME IInv, NEW r \in Requests, Reply(r) PROVE IInv'
<1> USE DEF Reply
<1>1. TypeOK'
  <2>1. new[r] \in Sids /\ print[r].client \in Clients
    BY DEF IInv, TypeOK, RequestInv, StageInv, Fingerprints
  <2> QED
    BY <2>1 DEF IInv, TypeOK, End, stores, Ended
<1>2. \A q \in Requests \ {r} : Untouched(q)
  BY DEF IInv, TypeOK, End, Untouched
<1>3. ~Storing(r)' /\ LateInv(r)' /\ pending[r] = {}
  BY DEF IInv, TypeOK, RequestInv, StageInv, End, Ended, Storing, LateInv
<1>4. StageInv(r)'
  BY <1>3 DEF IInv, TypeOK, End, StageInv
<1> QED
  BY <1>1, <1>2, <1>3, <1>4, NothingStored, StepKeepsIInv DEF stores

-----------------------------------------------------------------------------
LEMMA CheckKeepsIInv ==
    ASSUME IInv, NEW r \in Requests, Expire(r) \/ ValidateRefresh(r) \/ Guard(r)
    PROVE  IInv'
<1>1. CASE \E l \in Ended : End(r, l)
  <2>1. UNCHANGED <<stores, held, expired, expiry, flushed, pending, loggedOut, faults>> /\ pc[r] # "revoke"
    BY DEF Expire, ValidateRefresh, Guard
  <2> QED
    BY <1>1, <2>1, RefusalKeepsIInv
<1>2. CASE ValidateRefresh(r) /\ ValidSession(r) /\ rows[print[r]].hashed
  <2> USE <1>2 DEF ValidateRefresh, Goto, request
  <2>1. TypeOK'
    BY DEF IInv, TypeOK, stores
  <2>2. \A q \in Requests \ {r} : Untouched(q)
    BY DEF IInv, TypeOK, Untouched
  <2>3. r \notin late
    <3>1. SUFFICES ASSUME r \in late PROVE FALSE
      OBVIOUS
    <3>2. PICK g \in loggedOut : token[r] = rows[g].id
      BY <3>1 DEF IInv, RequestInv, LateInv
    <3>3. g \in Fingerprints /\ print[r] \in Fingerprints /\ HasRow(g) /\ ~rows[g].hashed
      BY DEF IInv, TypeOK, LogoutRevokesRow
    <3>4. rows[print[r]].id = rows[g].id
      BY <3>2 DEF ValidSession
    <3>5. print[r] = g
      BY <3>3, <3>4 DEF IInv, Distinct
    <3> QED
      BY <3>3, <3>5
  <2>4. ~Storing(r)' /\ StageInv(r)' /\ LateInv(r)'
    BY <2>3 DEF IInv, TypeOK, RequestInv, StageInv, LateInv, Storing, Ended
  <2> QED
    BY <2>1, <2>2, <2>4, NothingStored, StepKeepsIInv DEF stores
<1>3. CASE Guard(r) /\ token[r] \notin blacklist \union expired
  <2> USE <1>3 DEF Guard, Goto, request
  <2>1. TypeOK'
    BY DEF IInv, TypeOK, stores
  <2>2. \A q \in Requests \ {r} : Untouched(q)
    BY DEF IInv, TypeOK, Untouched
  <2>3. r \in late => ~Remembered
    BY DEF IInv, RequestInv, LateInv, LogoutRevokesRow
  <2>4. Remembered' <=> Remembered
    BY DEF Remembered, Outlives, Ttl
  <2>5. LateInv(r)'
    BY <2>3, <2>4 DEF IInv, TypeOK, RequestInv, LateInv, stores
  <2>6. ~Storing(r)' /\ StageInv(r)'
    BY DEF IInv, TypeOK, RequestInv, StageInv, Storing, Ended
  <2> QED
    BY <2>1, <2>2, <2>5, <2>6, NothingStored, StepKeepsIInv DEF stores
<1>4. \A l \in {"refused", "idle"} : l \in Ended
  BY DEF Ended
<1> QED
  BY <1>1, <1>2, <1>3, <1>4 DEF Expire, ValidateRefresh, Guard

LEMMA FindSessionKeepsIInv ==
    ASSUME IInv, NEW r \in Requests, FindSession(r) PROVE IInv'
<1> USE DEF FindSession
<1>1. CASE ~HasRow(print[r])
  BY <1>1, RefusalKeepsIInv DEF Ended
<1>2. CASE HasRow(print[r])
  <2> USE <1>2 DEF Goto, request
  <2>1. TypeOK'
    BY DEF IInv, TypeOK, stores
  <2>2. \A q \in Requests \ {r} : Untouched(q)
    BY DEF IInv, TypeOK, Untouched
  <2>3. Remembered' <=> Remembered
    BY DEF Remembered, Outlives, Ttl
  <2>4. LateInv(r)'
    BY <2>3 DEF IInv, TypeOK, RequestInv, LateInv, stores
  <2>5. ~Storing(r)' /\ StageInv(r)'
    BY DEF IInv, TypeOK, StageInv, Storing, HasRow, stores
  <2> QED
    BY <2>1, <2>2, <2>4, <2>5, NothingStored, StepKeepsIInv DEF stores
<1> QED
  BY <1>1, <1>2

LEMMA RevokeRowKeepsIInv ==
    ASSUME IInv, NEW r \in Requests, RevokeRow(r) PROVE IInv'
<1> USE DEF RevokeRow, request
<1>1. print[r] \in Fingerprints /\ \A f \in Fingerprints :
         /\ rows[f] \in Row /\ rows'[f].id = rows[f].id
         /\ rows'[f] # rows[f] => f = print[r] /\ rows'[f].revoked /\ ~rows'[f].hashed
  <2>1. print[r] \in Fingerprints /\ rows \in [Fingerprints -> Row]
    BY DEF IInv, TypeOK
  <2>2. ASSUME NEW f \in Fingerprints
        PROVE  /\ rows[f] \in Row /\ rows'[f].id = rows[f].id
               /\ rows'[f] # rows[f] => f = print[r] /\ rows'[f].revoked /\ ~rows'[f].hashed
    <3>1. CASE f = print[r]
      <4>1. rows'[f] =
               [id |-> rows[f].id, active |-> FALSE, hashed |-> FALSE, revoked |-> TRUE]
        BY <2>1, <3>1
      <4>2. rows[f] \in Row
        BY <2>1
      <4>3. rows'[f].id = rows[f].id /\ rows'[f].revoked /\ ~rows'[f].hashed
        BY <4>1, <4>2 DEF Row
      <4> QED
        BY <3>1, <4>2, <4>3
    <3>2. CASE f # print[r]
      BY <2>1, <3>2
    <3> QED
      BY <3>1, <3>2
  <2> QED
    BY <2>1, <2>2
<1>2. TypeOK'
  <2>1. rows' \in [Fingerprints -> Row]
    BY <1>1 DEF IInv, TypeOK, Row
  <2> QED
    BY <2>1 DEF IInv, TypeOK
<1>3. \A q \in Requests \ {r} : Untouched(q)
  BY DEF IInv, TypeOK, Untouched
<1>4. Kept
  BY <1>1 DEF Kept, Secured
<1>5. Remembered' <=> Remembered
  BY DEF Remembered, Outlives, Ttl
<1>6. LateInv(r)'
  BY <1>1, <1>5 DEF IInv, TypeOK, RequestInv, LateInv
<1>7. StageInv(r)'
  <2>1. StageInv(r)
    BY DEF IInv, RequestInv
  <2>2. rows'[print[r]].revoked /\ ~rows'[print[r]].hashed
    BY <1>1 DEF IInv, TypeOK
  <2> QED
    BY <1>1, <1>5, <2>1, <2>2 DEF IInv, TypeOK, StageInv, HasRow, Secured
<1>8. Storing(r)' => Storing(r) /\ new'[r] = new[r]
  BY DEF Storing
<1> QED
  BY <1>1, <1>2, <1>3, <1>4, <1>6, <1>7, <1>8, StepKeepsIInv

LEMMA BlacklistSessionKeepsIInv ==
    ASSUME IInv, NEW r \in Requests, BlacklistSession(r) PROVE IInv'
<1> USE DEF BlacklistSession, request
<1>1. print[r] \in Fingerprints /\ rows[print[r]].id \in Sids
  BY DEF IInv, TypeOK, RequestInv, StageInv, HasRow, Row
<1>2. TypeOK'
  BY <1>1 DEF IInv, TypeOK
<1>3. \A q \in Requests \ {r} : Untouched(q)
  BY DEF IInv, TypeOK, Untouched
<1>4. Kept
  BY DEF Kept, Secured
<1>5. Remembered' <=> Remembered
  BY DEF Remembered, Outlives, Ttl
<1>6. LateInv(r)'
  BY <1>5 DEF IInv, RequestInv, LateInv
<1>7. StageInv(r)'
  BY <1>1, <1>5 DEF IInv, TypeOK, RequestInv, StageInv, HasRow, Secured
<1>8. Storing(r)' => Storing(r) /\ new'[r] = new[r]
  BY DEF Storing
<1> QED
  BY <1>2, <1>3, <1>4, <1>6, <1>7, <1>8, StepKeepsIInv

LEMMA RevokedKeepsIInv ==
    ASSUME IInv, NEW r \in Requests, Revoked(r) PROVE IInv'
<1> USE DEF Revoked, End
<1>1. print[r] \in Fingerprints /\ HasRow(print[r])
  BY DEF IInv, TypeOK, RequestInv, StageInv
<1>2. rows[print[r]].revoked /\ ~rows[print[r]].hashed
      /\ (Remembered => rows[print[r]].id \in blacklist \union expired)
  BY DEF IInv, RequestInv, StageInv, Secured
<1>3. TypeOK'
  BY <1>1 DEF IInv, TypeOK, stores, Ended
<1>4. \A q \in Requests \ {r} : Untouched(q)
  BY DEF IInv, TypeOK, Untouched
<1>5. LogoutRevokesRow' /\ \A f \in loggedOut' : HasRow(f)'
  <2>1. Remembered' <=> Remembered
    BY DEF Remembered, Outlives, Ttl
  <2> QED
    BY <1>1, <1>2, <2>1 DEF IInv, LogoutRevokesRow, HasRow, stores
<1>6. ~Storing(r)' /\ StageInv(r)' /\ LateInv(r)'
  BY DEF IInv, TypeOK, Storing, StageInv, LateInv
<1>7. Kept /\ \A f \in Fingerprints : rows'[f].id = rows[f].id
  BY NothingStored
<1>8. \A q \in Requests : Storing(q)' => Storing(q) /\ new'[q] = new[q]
  BY <1>4, <1>6 DEF Storing, Untouched
<1>9. Distinct' /\ \A q \in Requests : NewInv(q)'
  BY <1>7, <1>8, SameIdsKeepNewInv
<1>10. \A q \in Requests : StageInv(q)' /\ LateInv(q)'
  BY <1>4, <1>6, <1>7, FrameKeepsStageInv, FrameKeepsLateInv
<1> QED
  BY <1>3, <1>5, <1>9, <1>10 DEF IInv, RequestInv

LEMMA ForgetKeepsIInv ==
    ASSUME IInv, NEW s \in Sids, Forget(s) PROVE IInv'
<1> USE DEF Forget, request
<1>1. TypeOK'
  BY DEF IInv, TypeOK
<1>2. \A q \in Requests : Untouched(q)
  BY DEF Untouched
<1>3. Kept /\ \A f \in Fingerprints : rows'[f].id = rows[f].id
  BY DEF Kept, Secured, Remembered, Outlives, Ttl
<1>4. \A q \in Requests : Storing(q)' => Storing(q) /\ new'[q] = new[q]
  BY DEF Storing
<1>5. Distinct' /\ \A q \in Requests : NewInv(q)'
  BY <1>3, <1>4, SameIdsKeepNewInv
<1>6. \A q \in Requests : RequestInv(q)'
  BY <1>2, <1>3, <1>5, FrameKeepsStageInv, FrameKeepsLateInv DEF RequestInv
<1> QED
  BY <1>1, <1>3, <1>5, <1>6, KeptFacts DEF IInv

LEMMA FlushCacheKeepsIInv ==
    ASSUME IInv, FlushCache PROVE IInv'
<1> USE DEF FlushCache, request
<1>1. TypeOK'
  BY DEF IInv, TypeOK
<1>2. \A q \in Requests : Untouched(q)
  BY DEF Untouched
<1>3. Kept /\ \A f \in Fingerprints : rows'[f].id = rows[f].id
  BY DEF Kept, Remembered
<1>4. \A q \in Requests : Storing(q)' => Storing(q) /\ new'[q] = new[q]
  BY DEF Storing
<1>5. Distinct' /\ \A q \in Requests : NewInv(q)'
  BY <1>3, <1>4, SameIdsKeepNewInv
<1>6. \A q \in Requests : RequestInv(q)'
  BY <1>2, <1>3, <1>5, FrameKeepsStageInv, FrameKeepsLateInv DEF RequestInv
<1> QED
  BY <1>1, <1>3, <1>5, <1>6, KeptFacts DEF IInv

-----------------------------------------------------------------------------
LEMMA StepPreservesIInv == IInv /\ [Next]_vars => IInv'
<1> SUFFICES ASSUME IInv, [Next]_vars PROVE IInv'
  OBVIOUS
<1>1. CASE \E r \in Requests, k \in Kinds, f \in Fingerprints, s \in Sids \union {NoSid} :
               Ask(r, k, f, s)
  BY <1>1, AskKeepsIInv
<1>2. CASE \E r \in Requests : Sign(r) \/ CreateRow(r) \/ UpdateRow(r) \/ Reply(r)
  BY <1>2, SignKeepsIInv, CreateRowKeepsIInv, UpdateRowKeepsIInv, ReplyKeepsIInv
<1>3. CASE \E r \in Requests : ValidateRefresh(r) \/ Guard(r) \/ Expire(r) \/ FindSession(r)
  BY <1>3, CheckKeepsIInv, FindSessionKeepsIInv
<1>4. CASE \E r \in Requests : RevokeRow(r) \/ BlacklistSession(r) \/ Revoked(r)
  BY <1>4, RevokeRowKeepsIInv, BlacklistSessionKeepsIInv, RevokedKeepsIInv
<1>5. CASE \E r \in Requests : Fail(r)
  BY <1>5, FailKeepsIInv
<1>6. CASE \E s \in Sids : Forget(s)
  BY <1>6, ForgetKeepsIInv
<1>7. CASE FlushCache
  BY <1>7, FlushCacheKeepsIInv
<1>8. CASE UNCHANGED vars
  BY <1>8 DEF vars, stores, request, IInv, TypeOK, LogoutRevokesRow, Distinct, HasRow, RequestInv,
     NewInv, StageInv, LateInv, Storing, Secured, Remembered, Outlives, Ttl
<1> QED
  BY <1>1, <1>2, <1>3, <1>4, <1>5, <1>6, <1>7, <1>8 DEF Next, Handle

LEMMA IInvHolds == Spec => []IInv
  BY InitIInv, StepPreservesIInv, PTL DEF Spec

\* The state of sessions has its type: the only ids in the tables and in the
\* blacklist are ids that were signed.
THEOREM TypesHold == Spec => []TypeOK
<1>1. IInv => TypeOK
  BY DEF IInv
<1> QED
  BY <1>1, IInvHolds, PTL

\* SessionService.revoke: a logout that was answered stays in force in the row and,
\* while the id's tokens live, in the blacklist, for any concurrent requests.
THEOREM LogoutRevokesRowAlways == Spec => []LogoutRevokesRow
<1>1. IInv => LogoutRevokesRow
  BY DEF IInv
<1> QED
  BY <1>1, IInvHolds, PTL

\* JwtStrategy and validateSession: no request begun with the id of a row that was
\* logged out passes the guard or the validation.
THEOREM LoggedOutStaysOutAlways == Spec => []LoggedOutStaysOut
<1>1. IInv => LoggedOutStaysOut
  <2>1. ASSUME IInv PROVE LoggedOutStaysOut
    BY <2>1 DEF IInv, TypeOK, RequestInv, LateInv, LoggedOutStaysOut
  <2> QED
    BY <2>1
<1> QED
  BY <1>1, IInvHolds, PTL

\* createSession and revoke: a row keeps its id, and no sign-in revives a refresh
\* token that was revoked.
THEOREM RevokedForGoodAlways == Spec => RevokedForGood
<1> DEFINE Good == \A f \in Fingerprints :
          HasRow(f) => /\ rows'[f].id = rows[f].id
                       /\ rows[f].revoked => rows'[f].revoked
                       /\ ~rows[f].hashed => ~rows'[f].hashed
<1>1. IInv /\ [Next]_vars => [Good]_vars
  <2> SUFFICES ASSUME IInv, Next PROVE Good
    OBVIOUS
  <2>1. CASE rows' = rows
    BY <2>1
  <2>2. CASE \E r \in Requests : CreateRow(r)
    <3>1. PICK r \in Requests : CreateRow(r)
      BY <2>2
    <3>2. \A f \in Fingerprints : HasRow(f) => rows'[f] = rows[f]
      BY <3>1 DEF CreateRow, IInv, TypeOK
    <3> QED
      BY <3>2
  <2>3. CASE \E r \in Requests : UpdateRow(r) \/ RevokeRow(r)
    <3>1. PICK r \in Requests : UpdateRow(r) \/ RevokeRow(r)
      BY <2>3
    <3>2. print[r] \in Fingerprints /\ rows \in [Fingerprints -> Row]
      BY DEF IInv, TypeOK
    <3>3. ASSUME NEW f \in Fingerprints, f # print[r] PROVE rows'[f] = rows[f]
      BY <3>1, <3>2, <3>3 DEF UpdateRow, RevokeRow
    <3>4. \/ rows'[print[r]] = [rows[print[r]] EXCEPT !.active = TRUE]
          \/ rows'[print[r]] =
                [id |-> rows[print[r]].id, active |-> FALSE, hashed |-> FALSE, revoked |-> TRUE]
      BY <3>1, <3>2 DEF UpdateRow, RevokeRow
    <3>5. /\ rows'[print[r]].id = rows[print[r]].id
          /\ rows[print[r]].revoked => rows'[print[r]].revoked
          /\ ~rows[print[r]].hashed => ~rows'[print[r]].hashed
      BY <3>2, <3>4 DEF Row
    <3> QED
      BY <3>3, <3>5
  <2> QED
    BY <2>1, <2>2, <2>3
    DEF Next, Handle, Ask, Sign, Reply, ValidateRefresh, Guard, FindSession, BlacklistSession,
        Revoked, Expire, Fail, Forget, FlushCache, stores
<1> QED
  BY <1>1, IInvHolds, PTL DEF Spec, RevokedForGood
=============================================================================

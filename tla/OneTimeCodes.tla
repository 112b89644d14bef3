---------------------------- MODULE OneTimeCodes ----------------------------
(***************************************************************************)
(* One-time codes of MFA: MfaService over CacheService.                    *)
(*                                                                         *)
(* Redis keeps the hash of one code for a key (an email and a context).    *)
(* A code is generated, stored, published as an event and forgotten by the *)
(* server; a verification reads, compares and deletes in three calls.      *)
(*                                                                         *)
(* Six random digits are a code of their own: two codes in use differ.     *)
(***************************************************************************)
EXTENDS Naturals

CONSTANTS
    Keys,
    Codes,
    NoCode,
    Requests,       \* requests that can be in flight
    MaxFaults       \* bound on failures

ASSUME CodesAssumption ==
    NoCode \notin Codes /\ MaxFaults \in Nat /\ Keys # {}

VARIABLES
    codes,          \* the code whose hash Redis keeps for a key
    emailed,        \* the codes of a key that were published to be emailed
    over,           \* codes that were replaced, used or have expired
    accepted,       \* codes a verification was answered 201 for
    twice,          \* history: codes accepted again
    mixed,          \* history: keys that two requests in flight were for
    pc,             \* next statement of a request
    key,            \* the key it is for
    code,           \* the code it has generated or was given
    late,           \* history: verifications begun with a code that was over
    faults

request == <<key, code, late>>
history == <<over, accepted, twice>>
codeVars == <<codes, emailed, history, mixed, pc, request, faults>>

\* Where a request for a key can be.
Stages == {"store", "publish", "get", "delete", "accept"}

\* The key of an idle request says nothing.
AnyKey == CHOOSE k \in Keys : TRUE

CodesInit ==
    /\ codes = [k \in Keys |-> NoCode]
    /\ emailed = [k \in Keys |-> {}]
    /\ over = {} /\ accepted = {} /\ twice = {} /\ mixed = {} /\ late = {}
    /\ pc = [r \in Requests |-> "idle"]
    /\ key = [r \in Requests |-> AnyKey]
    /\ code = [r \in Requests |-> NoCode]
    /\ faults = 0

-----------------------------------------------------------------------------
\* A request for a key begins, with a code or none.
Begin(r, k, l, c) ==
    /\ pc[r] = "idle"
    /\ pc' = [pc EXCEPT ![r] = l]
    /\ key' = [key EXCEPT ![r] = k]
    /\ code' = [code EXCEPT ![r] = c]
    /\ late' = IF c \in over THEN late \union {r} ELSE late
    /\ mixed' = IF \E q \in Requests \ {r} : pc[q] \in Stages /\ key[q] = k
                THEN mixed \union {k} ELSE mixed
    /\ UNCHANGED <<codes, emailed, history, faults>>

Goto(r, l) ==
    /\ pc' = [pc EXCEPT ![r] = l]
    /\ UNCHANGED request

End(r) ==
    /\ pc' = [pc EXCEPT ![r] = "idle"]
    /\ code' = [code EXCEPT ![r] = NoCode]
    /\ late' = late \ {r}
    /\ key' = [key EXCEPT ![r] = AnyKey]

\* A call fails, with or without effect, the instance dies or the answer is lost.
Fail(r) ==
    /\ pc[r] # "idle"
    /\ faults < MaxFaults
    /\ faults' = faults + 1
    /\ End(r)
    /\ UNCHANGED <<codes, emailed, history, mixed>>

-----------------------------------------------------------------------------
(* A code is sent. *)

InUse == {codes[k] : k \in Keys} \union {code[r] : r \in Requests}

\* A code that only users know may stand for a new one, once it is forgotten.
NewCode == CHOOSE c \in Codes : c \notin InUse

\* sendMfaToken.
AskSend(r, k) == Begin(r, k, "store", NoCode)

\* Mutant of Store: a code that still lives is not replaced.
StoreIfNone(r) ==
    /\ pc[r] = "store"
    /\ Codes \ InUse # {}
    /\ code' = [code EXCEPT ![r] = NewCode]
    /\ codes' = IF codes[key[r]] = NoCode THEN [codes EXCEPT ![key[r]] = NewCode] ELSE codes
    /\ emailed' = [k \in Keys |-> emailed[k] \ {NewCode}]
    /\ over' = (over \union {codes[key[r]]}) \ {NoCode, NewCode}
    /\ accepted' = accepted \ {NewCode} /\ twice' = twice \ {NewCode}
    /\ pc' = [pc EXCEPT ![r] = "publish"]
    /\ UNCHANGED <<mixed, key, late, faults>>

\* generateToken: the key takes the hash of a new code, for ten minutes.
Store(r) ==
    /\ pc[r] = "store"
    /\ Codes \ InUse # {}
    /\ code' = [code EXCEPT ![r] = NewCode]
    /\ codes' = [codes EXCEPT ![key[r]] = NewCode]
    /\ emailed' = [k \in Keys |-> emailed[k] \ {NewCode}]
    /\ over' = (over \union {codes[key[r]]}) \ {NoCode, NewCode}
    /\ accepted' = accepted \ {NewCode} /\ twice' = twice \ {NewCode}
    /\ pc' = [pc EXCEPT ![r] = "publish"]
    /\ UNCHANGED <<mixed, key, late, faults>>

\* Send2FATokenEvent, which makes the email (module Notifications).
Publish(r) ==
    /\ pc[r] = "publish"
    /\ emailed' = [emailed EXCEPT ![key[r]] = @ \union {code[r]}]
    /\ End(r)
    /\ UNCHANGED <<codes, history, mixed, faults>>

-----------------------------------------------------------------------------
(* A code is verified. *)

\* verifyToken, with a code that was emailed for the key, right or outdated.
AskVerify(r, k, c) == c \in emailed[k] /\ Begin(r, k, "get", c)

\* Mutant of Compare: a wrong code uses the key up as well.
CompareOnce(r) ==
    /\ pc[r] = "get"
    /\ codes' = [codes EXCEPT ![key[r]] = NoCode]
    /\ IF codes[key[r]] = code[r] THEN Goto(r, "delete") ELSE End(r)
    /\ UNCHANGED <<emailed, history, mixed, faults>>

\* Mutant of Compare: any code that was emailed for the key will do.
CompareEmailed(r) ==
    /\ pc[r] = "get"
    /\ IF code[r] \in emailed[key[r]] THEN Goto(r, "delete") ELSE End(r)
    /\ UNCHANGED <<codes, emailed, history, mixed, faults>>

\* The stored hash is read and compared: 401 when there is none or another.
Compare(r) ==
    /\ pc[r] = "get"
    /\ IF codes[key[r]] = code[r] THEN Goto(r, "delete") ELSE End(r)
    /\ UNCHANGED <<codes, emailed, history, mixed, faults>>

\* Mutant of Delete: the code is left to expire.
LeaveCode(r) ==
    /\ pc[r] = "delete"
    /\ over' = over \union {code[r]}
    /\ Goto(r, "accept")
    /\ UNCHANGED <<codes, emailed, accepted, twice, mixed, faults>>

\* The key is deleted, whatever it keeps by now.
Delete(r) ==
    /\ pc[r] = "delete"
    /\ codes' = [codes EXCEPT ![key[r]] = NoCode]
    /\ over' = over \union {code[r]}
    /\ Goto(r, "accept")
    /\ UNCHANGED <<emailed, accepted, twice, mixed, faults>>

Accept(r) ==
    /\ pc[r] = "accept"
    /\ accepted' = accepted \union {code[r]}
    /\ twice' = IF code[r] \in accepted THEN twice \union {code[r]} ELSE twice
    /\ End(r)
    /\ UNCHANGED <<codes, emailed, over, mixed, faults>>

\* Redis drops a key after ten minutes.
Expire(k) ==
    /\ codes[k] # NoCode
    /\ codes' = [codes EXCEPT ![k] = NoCode]
    /\ over' = over \union {codes[k]}
    /\ UNCHANGED <<emailed, accepted, twice, mixed, pc, request, faults>>

-----------------------------------------------------------------------------
HandleCode(r) == Store(r) \/ Publish(r) \/ Compare(r) \/ Delete(r) \/ Accept(r)

-----------------------------------------------------------------------------
(* Properties. *)

CodesTypeOK ==
    /\ codes \in [Keys -> Codes \union {NoCode}]
    /\ emailed \in [Keys -> SUBSET Codes]
    /\ over \subseteq Codes /\ accepted \subseteq Codes /\ twice \subseteq accepted
    /\ mixed \subseteq Keys /\ late \subseteq Requests
    /\ key \in [Requests -> Keys]
    /\ code \in [Requests -> Codes \union {NoCode}]
    /\ faults \in 0..MaxFaults

\* A code is accepted a second time only for a key that two requests were for
\* at once: the second had read it before the first deleted it.
AcceptedOnce ==
    \A k \in Keys \ mixed : twice \intersect emailed[k] = {}

\* A verification that begins with a code that was used, replaced or has
\* expired is refused, whatever is sent, verified or fails meanwhile.
OverIsRefused ==
    \A r \in late : pc[r] = "get"

\* A code that was emailed is the one that is verified until it is used, is
\* replaced or expires: no failure and no other verification takes it away,
\* unless two requests were for the key at once.
EmailedCodeWorks ==
    \A k \in Keys \ mixed : \A c \in emailed[k] \ over : codes[k] = c
=============================================================================

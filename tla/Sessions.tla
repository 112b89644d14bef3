------------------------------ MODULE Sessions ------------------------------
(***************************************************************************)
(* Sessions and tokens: SessionService, TokenService and what AuthService  *)
(* and the JWT guard do with them.                                         *)
(*                                                                         *)
(* A client is a user on one of his devices.  The fingerprint that finds   *)
(* its row depends on the network it comes from, so a client has a row for *)
(* every network it signed in from.  A session id is signed into a pair of *)
(* an access and a refresh token, so an id stands for its pair.            *)
(***************************************************************************)
EXTENDS Naturals, FiniteSets

CONSTANTS
    Clients,
    Networks,       \* first two octets of a client's address
    Sids,           \* session ids
    NoSid,
    Requests,       \* requests that can be in flight
    Expiries,       \* values of JWT_ACCESS_EXPIRY, [unit, minutes]
    MaxFaults       \* bound on failures

Fingerprints == [client : Clients, network : Networks]

\* getDurationInSecondsFromInput, in minutes: the unit counts, not the number.
Ttl(e) == IF e.unit = "m" THEN 30 ELSE 24 * 60

ASSUME SessionsAssumption ==
    NoSid \notin Sids /\ MaxFaults \in Nat /\ Clients # {} /\ Networks # {}

VARIABLES
    rows,           \* UserSession rows: one for a user and fingerprint
    blacklist,      \* ids under blacklisted:sessions in Redis
    held,           \* the pairs a client was answered with and keeps
    expired,        \* ids whose access token had expired when their entry was dropped
    expiry,         \* the configured lifetime of access tokens
    flushed,        \* whether the database was seeded again, which empties Redis
    pc,             \* next statement of a request
    print,          \* the fingerprint it comes with
    token,          \* id in the token it carries
    new,            \* id it has signed
    pending,        \* calls of revoke's Promise.all that are not over
    loggedOut,      \* history: fingerprints of which a logout was answered
    late,           \* history: requests in flight that began with the id of such a row
    faults

stores == <<rows, blacklist>>
request == <<print, token, new, late>>
vars == <<stores, held, expired, expiry, flushed, pc, request, pending, loggedOut, faults>>

\* A request that has ended is idle, or was refused with 401.
Ended == {"idle", "refused"}

Kinds == {"signIn", "refresh", "logout"}

Row == [id : Sids \union {NoSid}, active : BOOLEAN, hashed : BOOLEAN, revoked : BOOLEAN]

NoRow == [id |-> NoSid, active |-> FALSE, hashed |-> FALSE, revoked |-> FALSE]

HasRow(f) == rows[f].id # NoSid

Init ==
    /\ rows = [f \in Fingerprints |-> NoRow]
    /\ blacklist = {} /\ expired = {} /\ loggedOut = {} /\ late = {}
    /\ held = [c \in Clients |-> {}]
    /\ expiry \in Expiries
    /\ flushed = FALSE
    /\ pc = [r \in Requests |-> "idle"]
    /\ print = [r \in Requests |-> CHOOSE f \in Fingerprints : TRUE]
    /\ token = [r \in Requests |-> NoSid]
    /\ new = [r \in Requests |-> NoSid]
    /\ pending = [r \in Requests |-> {}]
    /\ faults = 0

-----------------------------------------------------------------------------
(* Requests. *)

\* A client comes from a network, to sign in or with a pair it holds.
Ask(r, k, f, s) ==
    /\ pc[r] \in Ended /\ pending[r] = {}
    /\ pc' = [pc EXCEPT ![r] = CASE k = "signIn" -> "sign" [] k = "refresh" -> "validate"
                                 [] k = "logout" -> "guard"]
    /\ IF k = "signIn" THEN s = NoSid ELSE s \in held[f.client]
    /\ print' = [print EXCEPT ![r] = f]
    /\ token' = [token EXCEPT ![r] = s]
    /\ late' = IF \E g \in loggedOut : rows[g].id = s THEN late \union {r} ELSE late
    /\ UNCHANGED <<stores, held, expired, expiry, flushed, new, pending, loggedOut, faults>>

Goto(r, l) ==
    /\ pc' = [pc EXCEPT ![r] = l]
    /\ UNCHANGED request

\* A request ends: the filter answers 401 for the exceptions that say so, 500 for
\* those of the language or of a library.
End(r, l) ==
    /\ pc' = [pc EXCEPT ![r] = l]
    /\ token' = [token EXCEPT ![r] = NoSid]
    /\ new' = [new EXCEPT ![r] = NoSid]
    /\ late' = late \ {r}
    /\ UNCHANGED print

\* A statement throws, the instance dies or the answer is lost.  Of the two
\* calls of a revoke those already made may still be carried out.
Fail(r) ==
    /\ pc[r] \notin Ended
    /\ faults < MaxFaults
    /\ faults' = faults + 1
    /\ \E calls \in SUBSET pending[r] : pending' = [pending EXCEPT ![r] = calls]
    /\ End(r, "idle")
    /\ UNCHANGED <<stores, held, expired, expiry, flushed, loggedOut>>

-----------------------------------------------------------------------------
(* createSession: sign-in, and the second half of a refresh. *)

InUse ==
    {rows[f].id : f \in Fingerprints} \union blacklist
        \union {token[r] : r \in Requests} \union {new[r] : r \in Requests}

\* A uuid is new: an id that only clients know may stand for it, once they
\* have forgotten its pair.
Uuid == CHOOSE s \in Sids : s \notin InUse

\* Mutant of Sign: the row is created, not upserted.
SignAndCreate(r) ==
    /\ pc[r] = "sign"
    /\ Sids \ InUse # {}
    /\ new' = [new EXCEPT ![r] = Uuid]
    /\ expired' = expired \ {Uuid}
    /\ held' = [c \in Clients |-> held[c] \ {Uuid}]
    /\ pc' = [pc EXCEPT ![r] = "createRow"]
    /\ UNCHANGED <<stores, expiry, flushed, print, token, late, pending, loggedOut, faults>>

\* The new pair is signed; Prisma's upsert, which a nested connect makes a read
\* and a write, reads the row.
Sign(r) ==
    /\ pc[r] = "sign"
    /\ Sids \ InUse # {}
    /\ new' = [new EXCEPT ![r] = Uuid]
    /\ expired' = expired \ {Uuid}
    /\ held' = [c \in Clients |-> held[c] \ {Uuid}]
    /\ pc' = [pc EXCEPT ![r] = IF HasRow(print[r]) THEN "updateRow" ELSE "createRow"]
    /\ UNCHANGED <<stores, expiry, flushed, print, token, late, pending, loggedOut, faults>>

\* The row takes the new id and the hash of its refresh token, unless another
\* request has created it: user and fingerprint are unique.
CreateRow(r) ==
    /\ pc[r] = "createRow"
    /\ IF HasRow(print[r])
       THEN End(r, "idle") /\ UNCHANGED rows
       ELSE /\ rows' = [rows EXCEPT ![print[r]] =
                           [id |-> new[r], active |-> TRUE, hashed |-> TRUE, revoked |-> FALSE]]
            /\ Goto(r, "reply")
    /\ UNCHANGED <<blacklist, held, expired, expiry, flushed, pending, loggedOut, faults>>

\* Mutant of UpdateRow: the new refresh token's hash is stored as well.
UpdateRowAndHash(r) ==
    /\ pc[r] = "updateRow"
    /\ rows' = [rows EXCEPT ![print[r]] = [@ EXCEPT !.active = TRUE, !.hashed = TRUE]]
    /\ Goto(r, "reply")
    /\ UNCHANGED <<blacklist, held, expired, expiry, flushed, pending, loggedOut, faults>>

\* The row keeps its id, its hash and revokedAt.
UpdateRow(r) ==
    /\ pc[r] = "updateRow"
    /\ rows' = [rows EXCEPT ![print[r]].active = TRUE]
    /\ Goto(r, "reply")
    /\ UNCHANGED <<blacklist, held, expired, expiry, flushed, pending, loggedOut, faults>>

\* The answer carries the new pair.
Reply(r) ==
    /\ pc[r] = "reply"
    /\ held' = [held EXCEPT ![print[r].client] = @ \union {new[r]}]
    /\ End(r, "idle")
    /\ UNCHANGED <<stores, expired, expiry, flushed, pending, loggedOut, faults>>

-----------------------------------------------------------------------------
(* refreshToken. *)

\* A token turns out to have expired: 401 at the guard; validateRefreshToken
\* returns null, which refreshToken takes apart.
Expire(r) ==
    /\ pc[r] \in {"guard", "validate"}
    /\ End(r, IF pc[r] = "guard" THEN "refused" ELSE "idle")
    /\ UNCHANGED <<stores, held, expired, expiry, flushed, pending, loggedOut, faults>>

\* findUnique by id, user and fingerprint, and the check of what it finds.
ValidSession(r) ==
    LET row == rows[print[r]] IN row.id = token[r] /\ (row.active \/ ~row.revoked)

\* bcrypt reads 72 bytes, the token's header and the start of its user's id, so
\* every refresh token of the user matches a hash; comparing with null throws.
ValidateRefresh(r) ==
    /\ pc[r] = "validate"
    /\ IF ~ValidSession(r) THEN End(r, "refused")
       ELSE IF rows[print[r]].hashed THEN Goto(r, "sign")
       ELSE End(r, "idle")
    /\ UNCHANGED <<stores, held, expired, expiry, flushed, pending, loggedOut, faults>>

-----------------------------------------------------------------------------
(* The guard, and logout behind it. *)

\* Mutant of Guard: the blacklist is not asked.
GuardByExpiry(r) ==
    /\ pc[r] = "guard"
    /\ IF token[r] \notin expired THEN Goto(r, "findSession") ELSE End(r, "refused")
    /\ UNCHANGED <<stores, held, expired, expiry, flushed, pending, loggedOut, faults>>

\* JwtStrategy: it is the same for every guarded route.
Guard(r) ==
    /\ pc[r] = "guard"
    /\ IF token[r] \notin blacklist \union expired
       THEN Goto(r, "findSession") ELSE End(r, "refused")
    /\ UNCHANGED <<stores, held, expired, expiry, flushed, pending, loggedOut, faults>>

\* Mutant of FindSession: an inactive session need not be revoked.
FindActiveSession(r) ==
    /\ pc[r] = "findSession"
    /\ IF rows[print[r]].active
       THEN Goto(r, "revoke") /\ pending' = [pending EXCEPT ![r] = {"row", "blacklist"}]
       ELSE End(r, "idle") /\ UNCHANGED pending
    /\ UNCHANGED <<stores, held, expired, expiry, flushed, loggedOut, faults>>

\* findSessionByFingerprint: from another network there is nothing to revoke,
\* and the answer is the same.
FindSession(r) ==
    /\ pc[r] = "findSession"
    /\ IF HasRow(print[r])
       THEN Goto(r, "revoke") /\ pending' = [pending EXCEPT ![r] = {"row", "blacklist"}]
       ELSE End(r, "idle") /\ UNCHANGED pending
    /\ UNCHANGED <<stores, held, expired, expiry, flushed, loggedOut, faults>>

RevokeRow(r) ==
    /\ "row" \in pending[r]
    /\ rows' = [rows EXCEPT ![print[r]] =
                   [id |-> @.id, active |-> FALSE, hashed |-> FALSE, revoked |-> TRUE]]
    /\ pending' = [pending EXCEPT ![r] = @ \ {"row"}]
    /\ UNCHANGED <<blacklist, held, expired, expiry, flushed, pc, request, loggedOut, faults>>

\* The id of the row, whatever token the logout came with: a pair signed by a
\* second sign-in or by a refresh has an id that is in no row.
BlacklistSession(r) ==
    /\ "blacklist" \in pending[r]
    /\ blacklist' = blacklist \union {rows[print[r]].id}
    /\ pending' = [pending EXCEPT ![r] = @ \ {"blacklist"}]
    /\ UNCHANGED <<rows, held, expired, expiry, flushed, pc, request, loggedOut, faults>>

\* Mutant of Revoked: the promise of the blacklist is not awaited.
RevokedInDatabase(r) ==
    /\ pc[r] = "revoke" /\ "row" \notin pending[r]
    /\ loggedOut' = loggedOut \union {print[r]}
    /\ End(r, "idle")
    /\ UNCHANGED <<stores, held, expired, expiry, flushed, pending, faults>>

\* Promise.all: both calls are over.
Revoked(r) ==
    /\ pc[r] = "revoke" /\ pending[r] = {}
    /\ loggedOut' = loggedOut \union {print[r]}
    /\ End(r, "idle")
    /\ UNCHANGED <<stores, held, expired, expiry, flushed, pending, faults>>

-----------------------------------------------------------------------------
\* An entry is set after its token was signed: it lives longer, when the
\* blacklist keeps entries for as long as tokens live.
Outlives == expiry.minutes <= Ttl(expiry)

\* Redis drops an entry of the blacklist.
Forget(s) ==
    /\ s \in blacklist
    /\ blacklist' = blacklist \ {s}
    /\ expired' = IF Outlives THEN expired \union {s} ELSE expired
    /\ UNCHANGED <<rows, held, expiry, flushed, pc, request, pending, loggedOut, faults>>

\* Seeding the database, of which the tokens and settings are upserted, ends by
\* flushing Redis: the ids of logged out sessions are forgotten with the rest.
FlushCache ==
    /\ blacklist' = {}
    /\ flushed' = TRUE
    /\ UNCHANGED <<rows, held, expired, expiry, pc, request, pending, loggedOut, faults>>

\* No logged out id is forgotten while its token lives.
Remembered == Outlives /\ ~flushed

-----------------------------------------------------------------------------
Handle(r) ==
    \/ Sign(r) \/ CreateRow(r) \/ UpdateRow(r) \/ Reply(r) \/ ValidateRefresh(r)
    \/ Guard(r) \/ FindSession(r) \/ RevokeRow(r) \/ BlacklistSession(r) \/ Revoked(r)

Next ==
    \/ \E r \in Requests :
          \/ \E k \in Kinds, f \in Fingerprints, s \in Sids \union {NoSid} : Ask(r, k, f, s)
          \/ Handle(r) \/ Expire(r) \/ Fail(r)
    \/ \E s \in Sids : Forget(s)
    \/ FlushCache

Spec == Init /\ [][Next]_vars

\* A request that can run a statement does, also what a failed one left behind.
FairSpec == Spec /\ \A r \in Requests : WF_vars(Handle(r))

-----------------------------------------------------------------------------
(* Properties. *)

TypeOK ==
    /\ rows \in [Fingerprints -> Row]
    /\ blacklist \subseteq Sids /\ expired \subseteq Sids
    /\ held \in [Clients -> SUBSET Sids]
    /\ expiry \in Expiries
    /\ flushed \in BOOLEAN
    /\ pc \in [Requests -> Ended \union {"sign", "createRow", "updateRow", "reply",
                                         "validate", "guard", "findSession", "revoke"}]
    /\ print \in [Requests -> Fingerprints]
    /\ token \in [Requests -> Sids \union {NoSid}]
    /\ new \in [Requests -> Sids \union {NoSid}]
    /\ pending \in [Requests -> SUBSET {"row", "blacklist"}]
    /\ loggedOut \subseteq Fingerprints /\ late \subseteq Requests
    /\ faults \in 0..MaxFaults

\* A logout that was answered has revoked the row of its device, and that holds
\* whatever signs in or refreshes meanwhile and however the two stores are
\* written: the row has no hash left, and the id in it is refused while a token
\* with it lives, if the blacklist keeps entries that long and Redis was not
\* flushed: the hash stays away even then.  It says nothing of pairs with other
\* ids, the logout's own among them: they pass the guard until they expire.
LogoutRevokesRow ==
    \A f \in loggedOut :
        /\ rows[f].revoked /\ ~rows[f].hashed
        /\ Remembered => rows[f].id \in blacklist \union expired

\* A request begun after that with the id of the row ends at the guard or at
\* the validation: it neither gets a pair nor reaches a handler.  A request that
\* was past them when the logout was answered goes on.
LoggedOutStaysOut ==
    \A r \in late :
        pc[r] \in {"validate", "guard"} \union IF Remembered THEN {} ELSE {"findSession", "revoke"}

\* A row keeps its id for ever, and once its refresh token is revoked it never
\* refreshes again, whoever signs in on the device later.
RevokedForGood ==
    [][\A f \in Fingerprints :
          HasRow(f) => /\ rows'[f].id = rows[f].id
                       /\ rows[f].revoked => rows'[f].revoked
                       /\ ~rows[f].hashed => ~rows'[f].hashed]_vars

\* Who goes on signing in from a device gets a pair, although two first
\* sign-ins collide on the row and any of them may fail.
SignInSettles ==
    \A c \in Clients :
        []<>(\E r \in Requests : print[r].client = c /\ pc[r] \in {"createRow", "updateRow"})
            => <>(held[c] # {})

\* Who goes on logging out of a device that has a session is logged out in both
\* stores, although either may fail.
LogoutTakesEffect ==
    \A f \in Fingerprints :
        []<>(HasRow(f) /\ \E r \in Requests : print[r] = f /\ pc[r] = "findSession")
            => <>(f \in loggedOut)
=============================================================================

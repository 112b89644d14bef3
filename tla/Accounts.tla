------------------------------ MODULE Accounts ------------------------------
(***************************************************************************)
(* Users and how they sign in: AuthService, UsersService and               *)
(* OauthProviderService; who is signed in uses the one-time codes of MFA.  *)
(*                                                                         *)
(* Signing in by email makes the user on the first request and emails a    *)
(* code, which no route reads; completing it, or signing in through        *)
(* Google, ends in a session (createSession, module Sessions).             *)
(***************************************************************************)
EXTENDS OneTimeCodes

CONSTANT Emails

ASSUME AccountsAssumption == Emails # {} /\ \A k \in Keys : k.email \in Emails

VARIABLES
    email,          \* the email a request signs in with
    badZone,        \* requests to sign in whose x-timezone names no time zone
    user,           \* the row of an email: none, or how it was made
    announced,      \* user.created events published
    sent,           \* emails to which a code to sign in was published
    unannounced,    \* history: emails whose creation failed before the event
    signedIn        \* history: users answered with a session

form == <<email, badZone>>
users == <<form, user, announced, sent, unannounced, signedIn>>
vars == <<codeVars, users>>

HasUser(e) == user[e] # "none"

\* Where a request can be that is not at the codes.
Elsewhere == {"idle", "createUser", "announce", "storeCode", "sendCode", "askGoogle",
              "findOauthUser", "createOauthUser"}

Init ==
    /\ CodesInit
    /\ email = [r \in Requests |-> CHOOSE e \in Emails : TRUE]
    /\ badZone = {}
    /\ user = [e \in Emails |-> "none"]
    /\ announced = [e \in Emails |-> 0]
    /\ sent = {} /\ unannounced = {} /\ signedIn = {}

-----------------------------------------------------------------------------
(* signin: a request begins with the statement that looks for the user. *)

Enter(r, e, l) ==
    /\ pc[r] = "idle"
    /\ pc' = [pc EXCEPT ![r] = l]
    /\ email' = [email EXCEPT ![r] = e]
    /\ badZone' \in {badZone, badZone \union {r}}
    /\ UNCHANGED <<codes, emailed, history, mixed, request, faults>>
    /\ UNCHANGED <<user, announced, sent, unannounced, signedIn>>

\* Mutant of SignIn: only users whose email is verified are found.
SignInVerified(r, e) == Enter(r, e, IF user[e] = "google" THEN "storeCode" ELSE "createUser")

\* findByEmail.
SignIn(r, e) == Enter(r, e, IF HasUser(e) THEN "storeCode" ELSE "createUser")

\* A request to sign in is answered.
Leave(r) ==
    /\ End(r)
    /\ badZone' = badZone \ {r}
    /\ UNCHANGED email

\* Mutant of CreateUser: a user who is there by now is taken for the new one.
CreateOrTakeUser(r) ==
    LET e == email[r] IN
    /\ pc[r] = "createUser"
    /\ user' = [user EXCEPT ![e] = IF HasUser(e) THEN @ ELSE "email"]
    /\ Goto(r, "announce")
    /\ UNCHANGED <<codes, emailed, history, mixed, faults>>
    /\ UNCHANGED <<form, announced, sent, unannounced, signedIn>>

\* usersRepository.create: 409 when the email is taken by now.
CreateUser(r) ==
    LET e == email[r] IN
    /\ pc[r] = "createUser"
    /\ IF HasUser(e)
       THEN Leave(r) /\ UNCHANGED user
       ELSE Goto(r, "announce") /\ user' = [user EXCEPT ![e] = "email"] /\ UNCHANGED form
    /\ UNCHANGED <<codes, emailed, history, mixed, faults>>
    /\ UNCHANGED <<announced, sent, unannounced, signedIn>>

\* user.created makes the wallets (module WalletProvisioning); the code follows.
Announce(r) ==
    /\ pc[r] = "announce"
    /\ announced' = [announced EXCEPT ![email[r]] = @ + 1]
    /\ Goto(r, "storeCode")
    /\ UNCHANGED <<codes, emailed, history, mixed, faults>>
    /\ UNCHANGED <<form, user, sent, unannounced, signedIn>>

\* generateToken: the hash of a code that no route reads is stored.
StoreSignInOtp(r) ==
    /\ pc[r] = "storeCode"
    /\ Goto(r, "sendCode")
    /\ UNCHANGED <<codes, emailed, history, mixed, faults, users>>

\* sendSiginInOtp after that: the time is formatted in the time zone the request
\* names, which throws a RangeError (500) when there is none, before the code is
\* published.
SendSignInOtp(r) ==
    /\ pc[r] = "sendCode"
    /\ sent' = IF r \in badZone THEN sent ELSE sent \union {email[r]}
    /\ Leave(r)
    /\ UNCHANGED <<codes, emailed, history, mixed, faults>>
    /\ UNCHANGED <<user, announced, unannounced, signedIn>>

-----------------------------------------------------------------------------
(* completeSignIn and oauthSignin. *)

\* completeSignIn does not read the code: who has a user gets a session, who has
\* none 400.
CompleteSignIn(e) ==
    /\ HasUser(e)
    /\ signedIn' = signedIn \union {e}
    /\ UNCHANGED <<codeVars, form, user, announced, sent, unannounced>>

\* findOauthUser: Google is asked whose token it is.
OauthSignin(r) ==
    /\ pc[r] = "idle"
    /\ Goto(r, "askGoogle")
    /\ UNCHANGED <<codes, emailed, history, mixed, faults, users>>

\* authenticate: Google names the email or refuses, which ends the request.
Authenticate(r) ==
    /\ pc[r] = "askGoogle"
    /\ \/ \E e \in Emails : email' = [email EXCEPT ![r] = e] /\ Goto(r, "findOauthUser")
       \/ End(r) /\ UNCHANGED email
    /\ UNCHANGED <<codes, emailed, history, mixed, faults>>
    /\ UNCHANGED <<badZone, user, announced, sent, unannounced, signedIn>>

\* The connections of a user are not loaded with him, so that asking whether he is
\* connected throws a TypeError (500).
ValidateExistingAuth(r) == End(r)

\* findByEmail.
FindOauthUser(r) ==
    /\ pc[r] = "findOauthUser"
    /\ IF HasUser(email[r]) THEN ValidateExistingAuth(r) ELSE Goto(r, "createOauthUser")
    /\ UNCHANGED <<codes, emailed, history, mixed, faults, users>>

\* The user with his connection, without an event; 500 when the email is taken.
CreateUserFromOAuth(r) ==
    LET e == email[r] IN
    /\ pc[r] = "createOauthUser"
    /\ IF HasUser(e)
       THEN UNCHANGED <<user, signedIn>>
       ELSE user' = [user EXCEPT ![e] = "google"] /\ signedIn' = signedIn \union {e}
    /\ End(r)
    /\ UNCHANGED <<codes, emailed, history, mixed, faults>>
    /\ UNCHANGED <<form, announced, sent, unannounced>>

-----------------------------------------------------------------------------
\* The routes of MFA are for users that are signed in.
AskCode(r, k) ==
    /\ k.email \in signedIn
    /\ \/ AskSend(r, k)
       \/ \E c \in Codes : AskVerify(r, k, c)
    /\ UNCHANGED users

FailRequest(r) ==
    /\ Fail(r)
    /\ unannounced' = IF pc[r] = "announce" THEN unannounced \union {email[r]}
                      ELSE unannounced
    /\ badZone' = badZone \ {r}
    /\ UNCHANGED <<email, user, announced, sent, signedIn>>

Handle(r) ==
    \/ CreateUser(r) \/ Announce(r) \/ StoreSignInOtp(r) \/ SendSignInOtp(r)
    \/ Authenticate(r) \/ FindOauthUser(r) \/ CreateUserFromOAuth(r)
    \/ HandleCode(r) /\ UNCHANGED users

Next ==
    \/ \E r \in Requests :
          \/ \E e \in Emails : SignIn(r, e)
          \/ OauthSignin(r)
          \/ \E k \in Keys : AskCode(r, k)
          \/ Handle(r) \/ FailRequest(r)
    \/ \E e \in Emails : CompleteSignIn(e)
    \/ \E k \in Keys : Expire(k) /\ UNCHANGED users

Spec == Init /\ [][Next]_vars

FairSpec == Spec /\ \A r \in Requests : WF_vars(Handle(r))

-----------------------------------------------------------------------------
(* Properties. *)

TypeOK ==
    /\ CodesTypeOK
    /\ pc \in [Requests -> Stages \union Elsewhere]
    /\ email \in [Requests -> Emails] /\ badZone \subseteq Requests
    /\ user \in [Emails -> {"none", "email", "google"}]
    /\ announced \in [Emails -> {0, 1}]
    /\ sent \subseteq Emails /\ unannounced \subseteq Emails /\ signedIn \subseteq Emails

Announcing(e) == {r \in Requests : pc[r] = "announce" /\ email[r] = e}

\* A user who was made by signing in is announced once, whoever else signed him
\* up at the same time, or is about to be, unless the instance died in between;
\* a user from Google is not announced.
AnnouncedOnce ==
    \A e \in Emails :
        /\ announced[e] = IF user[e] = "email" /\ e \notin unannounced /\ Announcing(e) = {}
                          THEN 1 ELSE 0
        /\ \A q, r \in Announcing(e) : q = r

\* Who goes on signing in by email, with a time zone that there is, is emailed a
\* code in the end: losing the race to be created, like any failure, costs him
\* one request, and so does a request with another time zone, whose code is
\* stored and never sent.
CodeArrives ==
    \A e \in Emails :
        []<>(\E r \in Requests \ badZone :
                email[r] = e /\ pc[r] \in {"createUser", "storeCode"})
            => <>(e \in sent)
=============================================================================

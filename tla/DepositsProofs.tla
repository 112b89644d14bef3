--------------------------- MODULE DepositsProofs ---------------------------
(***************************************************************************)
(* Deposits are credited exactly once, for every set of events, requests,  *)
(* addresses and tokens and any number of faults.                          *)
(*                                                                         *)
(* LedgerMatchesEntries is not inductive: a commit keeps it because the    *)
(* reference of an uncommitted insert is free (FreshReference) and no      *)
(* other request has inserted it (UniqueReference), which is what the      *)
(* unique index gives; and a 200 is right because a found transaction was  *)
(* caused by the same transfer (EntryHasCause).                            *)
(***************************************************************************)
EXTENDS Deposits, TLAPS

AfterInsert == {"findToken", "upsertBalance", "commit"}

\* The job of a busy request is an announced event; inside the transaction a
\* signed deposit, after findWallet to a registered address.
JobInv ==
    \A r \in Requests :
        /\ pc[r] # "idle" => job[r] \in announced
        /\ pc[r] \in InTransaction => job[r].signed /\ IsDeposit(job[r])
        /\ pc[r] \in InTransaction \ {"findWallet"} => job[r].address \in wallets

\* What a transaction has staged is determined by how far it got.
StagedInv ==
    \A r \in Requests :
        /\ pc[r] \in AfterInsert => staged[r].entry = Row(job[r])
        /\ pc[r] \notin AfterInsert => staged[r].entry = NoRow
        /\ pc[r] = "commit" => staged[r].credit = Row(job[r])

FreshReference ==
    \A r \in Requests : pc[r] \in AfterInsert => txns[job[r].ref] = NoRow

UniqueReference ==
    \A q, r \in Requests :
        q # r /\ pc[q] \in AfterInsert /\ pc[r] \in AfterInsert
            => job[q].ref # job[r].ref

EntryHasCause ==
    \A ref \in Refs : txns[ref] # NoRow =>
        \E e \in announced : /\ e.signed /\ IsDeposit(e) /\ e.ref = ref
                             /\ Row(e) = txns[ref] /\ e.address \in wallets

\* A deposit answered 200, or about to be, has its transaction.
AckInv ==
    /\ acked \subseteq announced
    /\ \A e \in acked : IsDeposit(e) => txns[e.ref] = Row(e)
    /\ \A r \in Requests :
          pc[r] = "reply" /\ code[r] = 200 /\ IsDeposit(job[r])
              => txns[job[r].ref] = Row(job[r])

IInv ==
    /\ TypeOK
    /\ JobInv
    /\ StagedInv
    /\ FreshReference
    /\ UniqueReference
    /\ EntryHasCause
    /\ AckInv
    /\ LedgerMatchesEntries

-----------------------------------------------------------------------------
\* A deposit names a transfer and a balance row.
LEMMA EventTypes ==
    ASSUME NEW e \in Events
    PROVE  e.ref \in Refs /\ e.address \in Addresses /\ Row(e) \in Rows /\ Row(e) # NoRow
BY EventsAssumption, NoneAssumption DEF Row, Rows

LEMMA InitIInv == Init => IInv
<1> SUFFICES ASSUME Init PROVE IInv
    OBVIOUS
<1> USE DEF Init, NothingStaged, InTransaction, AfterInsert
<1>1. TypeOK
    BY FaultsAssumption DEF TypeOK, PCs
<1>2. JobInv /\ StagedInv /\ FreshReference /\ UniqueReference /\ EntryHasCause /\ AckInv
    BY DEF JobInv, StagedInv, FreshReference, UniqueReference, EntryHasCause, AckInv
<1>3. LedgerMatchesEntries
    BY NoneAssumption DEF LedgerMatchesEntries
<1> QED BY <1>1, <1>2, <1>3 DEF IInv

\* What End and Abort have in common.
Ended(r, status) ==
    /\ pc' = [pc EXCEPT ![r] = "reply"]
    /\ code' = [code EXCEPT ![r] = status]
    /\ staged' = [staged EXCEPT ![r] = NothingStaged]
    /\ faults' \in 0..MaxFaults
    /\ UNCHANGED <<env, acked, db, job>>

\* Ending a request, by an answer or by a rollback, keeps the invariant if a
\* 200 to a deposit is only given when its transaction is there.
LEMMA EndKeepsIInv ==
    ASSUME IInv, NEW r \in Requests, NEW status \in {200, 400, 500},
           pc[r] # "idle",
           status = 200 /\ IsDeposit(job[r]) => txns[job[r].ref] = Row(job[r]),
           Ended(r, status)
    PROVE  IInv'
<1> USE DEF IInv, TypeOK, env, db, InTransaction, AfterInsert, NothingStaged, Ended
<1>1. TypeOK'
    BY DEF PCs
<1>2. JobInv' /\ EntryHasCause' /\ LedgerMatchesEntries'
    BY DEF JobInv, EntryHasCause, LedgerMatchesEntries
<1>3. StagedInv' /\ FreshReference' /\ UniqueReference'
    BY DEF StagedInv, FreshReference, UniqueReference, Row
<1>4. AckInv'
    <2>1. acked' \subseteq announced' /\ \A e \in acked' : IsDeposit(e) => txns'[e.ref] = Row(e)
        BY DEF AckInv
    <2>2. \A q \in Requests :
              pc'[q] = "reply" /\ code'[q] = 200 /\ IsDeposit(job'[q])
                  => txns'[job'[q].ref] = Row(job'[q])
        BY DEF AckInv
    <2> QED BY <2>1, <2>2 DEF AckInv
<1> QED BY <1>1, <1>2, <1>3, <1>4

\* Going to the next statement keeps it if what is known there is established.
LEMMA ContinueKeepsIInv ==
    ASSUME IInv, NEW r \in Requests, pc[r] # "idle",
           NEW l \in {"findWallet", "findTransaction", "createTransaction", "upsertBalance"},
           Continue(r, l),
           l = "upsertBalance" <=> pc[r] \in AfterInsert,
           job[r].signed /\ IsDeposit(job[r]),
           l = "findWallet" \/ job[r].address \in wallets
    PROVE  IInv'
<1> USE DEF IInv, TypeOK, env, db, InTransaction, AfterInsert, Continue, Goto
<1>1. TypeOK'
    BY DEF PCs
<1>2. JobInv' /\ EntryHasCause' /\ LedgerMatchesEntries'
    BY DEF JobInv, EntryHasCause, LedgerMatchesEntries, IsDeposit
<1>3. StagedInv' /\ FreshReference' /\ UniqueReference'
    BY DEF StagedInv, FreshReference, UniqueReference, Row
<1>4. AckInv'
    BY DEF AckInv, IsDeposit, Row
<1> QED BY <1>1, <1>2, <1>3, <1>4

\* A step that answers no request keeps AckInv.
LEMMA AckInvStable ==
    ASSUME AckInv, acked' = acked, announced \subseteq announced', txns' = txns,
           \A q \in Requests : pc'[q] = "reply" =>
               pc[q] = "reply" /\ code'[q] = code[q] /\ job'[q] = job[q]
    PROVE  AckInv'
<1>1. \A q \in Requests :
          pc'[q] = "reply" /\ code'[q] = 200 /\ IsDeposit(job'[q])
              => txns'[job'[q].ref] = Row(job'[q])
    BY DEF AckInv
<1>2. acked' \subseteq announced' /\ \A e \in acked' : IsDeposit(e) => txns'[e.ref] = Row(e)
    BY DEF AckInv
<1> QED BY <1>1, <1>2 DEF AckInv

LEMMA EnvironmentKeepsIInv == IInv /\ Environment => IInv'
<1> SUFFICES ASSUME IInv, Environment PROVE IInv'
    OBVIOUS
<1> USE DEF IInv, TypeOK, db, Environment, Announce, RegisterWallet, DelistToken, SeedTokens
<1>1. TypeOK'
    OBVIOUS
<1>2. UNCHANGED <<txns, ledger, pc, job, staged, code, acked>>
    OBVIOUS
<1>3. announced \subseteq announced' /\ wallets \subseteq wallets'
    OBVIOUS
<1>4. JobInv' /\ EntryHasCause'
    BY <1>2, <1>3 DEF JobInv, EntryHasCause, IsDeposit, Row
<1>5. StagedInv' /\ FreshReference' /\ UniqueReference' /\ LedgerMatchesEntries'
    BY <1>2 DEF StagedInv, FreshReference, UniqueReference, LedgerMatchesEntries, Row
<1>6. AckInv'
    BY <1>2, <1>3, AckInvStable
<1> QED BY <1>1, <1>4, <1>5, <1>6

\* Opening a request, and leaving one with or without the answer heard.
LEMMA DeliverKeepsIInv ==
    ASSUME IInv, NEW r \in Requests, NEW e \in Events,
           Deliver(r, e) \/ DeliverLate(r, e)
    PROVE  IInv'
<1> USE DEF IInv, TypeOK, env, db, InTransaction, AfterInsert
<1> DEFINE opened == /\ e \in announced
                     /\ Open(r, e)
                     /\ faults' \in 0..MaxFaults
<1>1. opened
    BY FaultsAssumption DEF Deliver, DeliverLate, AckInv
<1> HIDE DEF opened
<1>2. TypeOK'
    BY <1>1 DEF opened, Open, PCs
<1>3. JobInv' /\ EntryHasCause' /\ LedgerMatchesEntries'
    BY <1>1 DEF opened, Open, JobInv, EntryHasCause, LedgerMatchesEntries
<1>4. StagedInv' /\ FreshReference' /\ UniqueReference'
    BY <1>1 DEF opened, Open, StagedInv, FreshReference, UniqueReference, Row
<1>5. AckInv'
    <2>1. /\ UNCHANGED <<acked, announced, txns, code>>
          /\ \A q \in Requests : pc'[q] = "reply" => pc[q] = "reply" /\ job'[q] = job[q]
        BY <1>1 DEF opened, Open
    <2> QED BY <2>1, AckInvStable
<1> QED BY <1>2, <1>3, <1>4, <1>5

LEMMA ReplyKeepsIInv ==
    ASSUME IInv, NEW r \in Requests, Reply(r) \/ LoseReply(r)
    PROVE  IInv'
<1> USE DEF IInv, TypeOK, env, db, InTransaction, AfterInsert, Goto
<1> DEFINE closed ==
        /\ pc[r] = "reply"
        /\ acked \subseteq acked'
        /\ acked' \subseteq acked \union {job[r]}
        /\ job[r] \in acked' \ acked => code[r] = 200
        /\ pc' = [pc EXCEPT ![r] = "idle"]
        /\ job' = [job EXCEPT ![r] = NoEvent]
        /\ code' = [code EXCEPT ![r] = 0]
        /\ UNCHANGED <<announced, wallets, activeTokens, txns, ledger, staged>>
        /\ faults' \in 0..MaxFaults
<1>1. closed
    BY FaultsAssumption DEF Reply, LoseReply, Fault
<1>2. job[r] \in announced
    BY <1>1 DEF JobInv
<1>3. TypeOK'
    BY <1>1, <1>2 DEF PCs
<1>4. JobInv' /\ EntryHasCause' /\ LedgerMatchesEntries'
    BY <1>1 DEF JobInv, EntryHasCause, LedgerMatchesEntries
<1>5. StagedInv' /\ FreshReference' /\ UniqueReference'
    BY <1>1 DEF StagedInv, FreshReference, UniqueReference, Row
<1>6. AckInv'
    <2>1. acked' \subseteq announced'
        BY <1>1, <1>2 DEF AckInv
    <2>2. \A e \in acked' : IsDeposit(e) => txns'[e.ref] = Row(e)
        BY <1>1 DEF AckInv
    <2>3. \A q \in Requests : pc'[q] = "reply" =>
              q # r /\ pc[q] = "reply" /\ code'[q] = code[q] /\ job'[q] = job[q]
        BY <1>1
    <2>4. \A q \in Requests :
              pc'[q] = "reply" /\ code'[q] = 200 /\ IsDeposit(job'[q])
                  => txns'[job'[q].ref] = Row(job'[q])
        BY <2>3, <1>1 DEF AckInv
    <2> QED BY <2>1, <2>2, <2>4 DEF AckInv, IsDeposit, Row
<1> QED BY <1>3, <1>4, <1>5, <1>6

\* A write staged by the insert or the upsert.
LEMMA StageKeepsIInv ==
    ASSUME IInv, NEW r \in Requests, NEW l \in {"findToken", "commit"},
           l = "findToken" =>
               /\ pc[r] = "createTransaction"
               /\ ~ReferencePending(r)
               /\ txns[job[r].ref] = NoRow
               /\ staged' = [staged EXCEPT ![r].entry = Row(job[r])],
           l = "commit" =>
               /\ pc[r] = "upsertBalance"
               /\ staged' = [staged EXCEPT ![r].credit = Row(job[r])],
           Goto(r, l),
           UNCHANGED <<env, acked, db, job, code, faults>>
    PROVE  IInv'
<1> USE DEF IInv, TypeOK, env, db, InTransaction, AfterInsert, Goto
<1>1. job[r] \in Events /\ Row(job[r]) \in Rows /\ Row(job[r]) # NoRow
    BY EventTypes DEF JobInv
<1>2. TypeOK'
    BY <1>1 DEF PCs
<1>3. JobInv' /\ EntryHasCause' /\ LedgerMatchesEntries'
    BY DEF JobInv, EntryHasCause, LedgerMatchesEntries
<1>4. StagedInv'
    BY DEF StagedInv, Row
<1>5. FreshReference'
    BY DEF FreshReference
<1>6. \A q \in Requests \ {r} :
          l = "findToken" /\ pc[q] \in AfterInsert => job[q].ref # job[r].ref
    <2> SUFFICES ASSUME NEW q \in Requests \ {r}, l = "findToken", pc[q] \in AfterInsert
                 PROVE  job[q].ref # job[r].ref
        OBVIOUS
    <2>1. staged[q].entry # NoRow
        BY EventTypes DEF StagedInv, JobInv
    <2> QED BY <2>1 DEF ReferencePending
<1>7. UniqueReference'
    BY <1>6 DEF UniqueReference
<1>8. AckInv'
    <2>1. /\ UNCHANGED <<acked, announced, txns, code, job>>
          /\ \A q \in Requests : pc'[q] = "reply" => pc[q] = "reply"
        OBVIOUS
    <2> QED BY <2>1, AckInvStable
<1> QED BY <1>2, <1>3, <1>4, <1>5, <1>7, <1>8

\* A commit adds the amount of a reference that had no transaction, so the
\* balance held none of it.
LEMMA CommitKeepsIInv ==
    ASSUME IInv, NEW r \in Requests, Commit(r) \/ CommitUnconfirmed(r)
    PROVE  IInv'
<1> USE DEF IInv, TypeOK, env, db, InTransaction, AfterInsert, Goto, NothingStaged
<1> DEFINE e == job[r]
<1>1. /\ pc[r] = "commit"
      /\ Apply(r)
      /\ code' \in [Requests -> {0, 200, 400, 500}]
      /\ \A q \in Requests \ {r} : code'[q] = code[q]
      /\ faults' \in 0..MaxFaults
    <2>1. CASE Commit(r)
        BY <2>1 DEF Commit
    <2>2. CASE CommitUnconfirmed(r)
        BY <2>2, FaultsAssumption DEF CommitUnconfirmed, Fault
    <2> QED BY <2>1, <2>2
<1>2. /\ e \in Events /\ e.ref \in Refs /\ Row(e) \in Rows /\ Row(e) # NoRow
      /\ e \in announced /\ e.signed /\ IsDeposit(e) /\ e.address \in wallets
    BY <1>1, EventTypes DEF JobInv
<1>3. txns[e.ref] = NoRow /\ ledger[Row(e)][e.ref] = 0
    BY <1>1, <1>2 DEF FreshReference, LedgerMatchesEntries
<1>4. /\ txns' = [txns EXCEPT ![e.ref] = Row(e)]
      /\ ledger' = [ledger EXCEPT ![Row(e)][e.ref] = @ + 1]
      /\ staged' = [staged EXCEPT ![r] = NothingStaged]
      /\ pc' = [pc EXCEPT ![r] = "reply"]
      /\ UNCHANGED <<env, acked, job>>
    BY <1>1 DEF Apply, StagedInv
<1>5. TypeOK'
    BY <1>1, <1>2, <1>4 DEF PCs
<1>6. JobInv'
    BY <1>1, <1>4 DEF JobInv, IsDeposit
<1>7. StagedInv' /\ UniqueReference'
    BY <1>4 DEF StagedInv, UniqueReference, Row
<1>8. FreshReference'
    <2> SUFFICES ASSUME NEW q \in Requests, pc'[q] \in AfterInsert
                 PROVE  txns'[job'[q].ref] = NoRow
        BY DEF FreshReference
    <2>1. q # r /\ pc[q] \in AfterInsert /\ job'[q] = job[q]
        BY <1>4
    <2>2. job[q].ref # e.ref /\ txns[job[q].ref] = NoRow
        BY <2>1, <1>1 DEF FreshReference, UniqueReference
    <2>3. job[q].ref \in Refs /\ job'[q].ref = job[q].ref
        BY <2>1, EventTypes DEF JobInv
    <2>4. txns'[job[q].ref] = txns[job[q].ref]
        BY <2>2, <2>3, <1>4
    <2> QED BY <2>2, <2>3, <2>4
<1>9. EntryHasCause'
    <2>1. UNCHANGED env /\ \A ref \in Refs : txns'[ref] = IF ref = e.ref THEN Row(e) ELSE txns[ref]
        BY <1>4
    <2> QED BY <2>1, <1>2 DEF EntryHasCause
<1>10. AckInv'
    <2>1. \A f \in acked' : IsDeposit(f) => txns'[f.ref] = Row(f)
        BY <1>2, <1>3, <1>4, EventTypes DEF AckInv
    <2>2. \A q \in Requests :
              pc'[q] = "reply" /\ code'[q] = 200 /\ IsDeposit(job'[q])
                  => txns'[job'[q].ref] = Row(job'[q])
        <3> SUFFICES ASSUME NEW q \in Requests, pc'[q] = "reply", code'[q] = 200,
                            IsDeposit(job[q])
                     PROVE  txns'[job[q].ref] = Row(job[q])
            BY <1>4
        <3>1. CASE q = r
            BY <3>1, <1>2, <1>4
        <3>2. CASE q # r
            <4>1. txns[job[q].ref] = Row(job[q]) /\ Row(job[q]) # NoRow
                BY <3>2, <1>1, <1>4, EventTypes DEF AckInv, JobInv
            <4> QED BY <4>1, <1>2, <1>3, <1>4
        <3> QED BY <3>1, <3>2
    <2> QED BY <2>1, <2>2, <1>4 DEF AckInv, IsDeposit, Row
<1>11. LedgerMatchesEntries'
    <2> SUFFICES ASSUME NEW row \in Rows, NEW ref \in Refs
                 PROVE  ledger'[row][ref] = IF txns'[ref] = row THEN 1 ELSE 0
        BY DEF LedgerMatchesEntries
    <2>1. CASE ref = e.ref
        <3>1. ledger[row][ref] = 0
            BY <2>1, <1>3, NoneAssumption DEF LedgerMatchesEntries
        <3>2. txns'[ref] = Row(e)
            BY <2>1, <1>2, <1>4
        <3>3. ledger'[row][ref] = IF row = Row(e) THEN ledger[row][ref] + 1 ELSE ledger[row][ref]
            BY <2>1, <1>2, <1>4
        <3> QED BY <3>1, <3>2, <3>3
    <2>2. CASE ref # e.ref
        <3>1. txns'[ref] = txns[ref] /\ ledger'[row][ref] = ledger[row][ref]
            BY <2>2, <1>2, <1>4
        <3> QED BY <3>1 DEF LedgerMatchesEntries
    <2> QED BY <2>1, <2>2
<1> QED BY <1>5, <1>6, <1>7, <1>8, <1>9, <1>10, <1>11

\* Each statement of the handler that is neither an answer heard nor a commit
\* ends the request, goes on, or stages a write.
LEMMA HandleKeepsIInv ==
    ASSUME IInv, NEW r \in Requests, Handle(r)
    PROVE  IInv'
<1> USE DEF IInv, InTransaction
<1>a. \A status : End(r, status) => Ended(r, status)
    BY DEF TypeOK, End, Ended, Goto
<1>1. CASE Validate(r)
    <2>1. ASSUME NEW status \in {200, 400, 500}, End(r, status),
                 status = 200 => ~IsDeposit(job[r])
          PROVE  IInv'
        <3>2. pc[r] # "idle"
            BY <1>1 DEF Validate
        <3> QED BY <1>a, <3>2, <2>1, EndKeepsIInv
    <2>2. ASSUME job[r].signed, IsDeposit(job[r]), Continue(r, "findWallet")
          PROVE  IInv'
        BY <2>2, <1>1, ContinueKeepsIInv DEF Validate, AfterInsert
    <2> QED BY <1>1, <2>1, <2>2 DEF Validate, IsDeposit
<1>2. CASE FindWallet(r)
    <2>1. job[r].signed /\ IsDeposit(job[r])
        BY <1>2 DEF FindWallet, JobInv
    <2>2. CASE job[r].address \in wallets
        BY <2>1, <2>2, <1>2, ContinueKeepsIInv DEF FindWallet, AfterInsert
    <2>3. CASE job[r].address \notin wallets
        BY <2>3, <1>2, <1>a, EndKeepsIInv DEF FindWallet
    <2> QED BY <2>2, <2>3
<1>3. CASE FindTransaction(r)
    <2>1. job[r].signed /\ IsDeposit(job[r]) /\ job[r].address \in wallets /\ job[r] \in Events
        BY <1>3 DEF FindTransaction, JobInv, TypeOK
    <2>2. CASE txns[job[r].ref] = NoRow
        BY <2>1, <2>2, <1>3, ContinueKeepsIInv DEF FindTransaction, AfterInsert
    <2>3. CASE txns[job[r].ref] # NoRow
        \* The found transaction was made for the same transfer.
        <3>1. txns[job[r].ref] = Row(job[r])
            BY <2>1, <2>3, EventTypes, EventsAssumption DEF EntryHasCause, TypeOK
        <3> QED BY <3>1, <2>3, <1>3, <1>a, EndKeepsIInv DEF FindTransaction
    <2> QED BY <2>2, <2>3
<1>4. CASE CreateTransaction(r)
    <2>1. CASE txns[job[r].ref] # NoRow
        BY <2>1, <1>4, <1>a, EndKeepsIInv DEF CreateTransaction
    <2>2. CASE txns[job[r].ref] = NoRow
        BY <2>2, <1>4, StageKeepsIInv DEF CreateTransaction
    <2> QED BY <2>1, <2>2
<1>5. CASE FindToken(r)
    <2>1. job[r].signed /\ IsDeposit(job[r]) /\ job[r].address \in wallets
        BY <1>5 DEF FindToken, JobInv
    <2>2. CASE job[r].token \in activeTokens
        BY <2>1, <2>2, <1>5, ContinueKeepsIInv DEF FindToken, AfterInsert
    <2>3. CASE job[r].token \notin activeTokens
        BY <2>3, <1>5, <1>a, EndKeepsIInv DEF FindToken
    <2> QED BY <2>2, <2>3
<1>6. CASE UpsertBalance(r)
    BY <1>6, StageKeepsIInv DEF UpsertBalance
<1>7. CASE Commit(r)
    BY <1>7, CommitKeepsIInv
<1>8. CASE Reply(r)
    BY <1>8, ReplyKeepsIInv
<1> QED BY <1>1, <1>2, <1>3, <1>4, <1>5, <1>6, <1>7, <1>8 DEF Handle

LEMMA FailKeepsIInv ==
    ASSUME IInv, NEW r \in Requests, Fail(r)
    PROVE  IInv'
<1>1. CASE Abort(r)
    <2>1. pc[r] # "idle" /\ faults' \in 0..MaxFaults
        BY <1>1, FaultsAssumption DEF Abort, Fault, InTransaction, IInv, TypeOK
    <2>2. Ended(r, 500)
        BY <1>1, <2>1 DEF Abort, Goto, Ended
    <2> QED BY <2>1, <2>2, EndKeepsIInv
<1> QED BY <1>1, CommitKeepsIInv, ReplyKeepsIInv DEF Fail

LEMMA NextKeepsIInv == IInv /\ [Next]_vars => IInv'
<1>1. ASSUME IInv, Next PROVE IInv'
    BY <1>1, EnvironmentKeepsIInv, HandleKeepsIInv, FailKeepsIInv, DeliverKeepsIInv DEF Next
<1>2. ASSUME IInv, UNCHANGED vars PROVE IInv'
    <2> USE <1>2 DEF vars, IInv
    <2>1. TypeOK'
        BY DEF TypeOK
    <2>2. JobInv' /\ StagedInv' /\ FreshReference'
        BY DEF JobInv, StagedInv, FreshReference, IsDeposit, Row
    <2>3. UniqueReference' /\ EntryHasCause' /\ LedgerMatchesEntries'
        BY DEF UniqueReference, EntryHasCause, LedgerMatchesEntries, IsDeposit, Row
    <2>4. AckInv'
        BY DEF AckInv, IsDeposit, Row
    <2> QED BY <2>1, <2>2, <2>3, <2>4
<1> QED BY <1>1, <1>2

THEOREM InductiveInvariant == Spec => []IInv
BY InitIInv, NextKeepsIInv, PTL DEF Spec

-----------------------------------------------------------------------------
(* The results. *)

\* Every reachable state has the types declared.
THEOREM TypeCorrect == Spec => []TypeOK
BY InductiveInvariant, PTL DEF IInv

\* The ledger holds each deposit exactly once, as its transaction records it.
THEOREM CreditedExactlyOnce == Spec => []LedgerMatchesEntries
BY InductiveInvariant, PTL DEF IInv

\* A deposit answered 200 is in the balance it was sent to.
THEOREM AckedDepositsAreCredited == Spec => []AckedIsCredited
<1>1. IInv => AckedIsCredited
    BY EventTypes DEF IInv, TypeOK, AckInv, LedgerMatchesEntries, AckedIsCredited
<1> QED BY <1>1, InductiveInvariant, PTL

\* Value has a signed, announced deposit to a registered wallet behind it.
THEOREM NoCreditWithoutDeposit == Spec => []CreditHasCause
<1>1. IInv => CreditHasCause
    <2> SUFFICES ASSUME IInv, NEW row \in Rows, NEW ref \in Refs, ledger[row][ref] > 0
                 PROVE  /\ \E e \in announced :
                             e.signed /\ IsDeposit(e) /\ e.ref = ref /\ Row(e) = row
                        /\ row[1] \in wallets
        BY DEF CreditHasCause
    <2>1. txns[ref] = row /\ row # NoRow
        BY NoneAssumption DEF IInv, LedgerMatchesEntries
    <2> QED BY <2>1 DEF IInv, EntryHasCause, Row
<1> QED BY <1>1, InductiveInvariant, PTL

-----------------------------------------------------------------------------
(* The handler implements ExactlyOnceCredit. *)

LEMMA DestOfDeposit ==
    ASSUME NEW e \in Events, IsDeposit(e)
    PROVE  e.ref \in DepositRefs /\ Dest[e.ref] = Row(e)
<1>1. e.ref \in DepositRefs
    BY DEF DepositRefs
<1>2. PICK f \in Events :
          /\ IsDeposit(f) /\ f.ref = e.ref
          /\ f = CHOOSE g \in Events : IsDeposit(g) /\ g.ref = e.ref
    OBVIOUS
<1>3. Dest[e.ref] = Row(f)
    BY <1>1, <1>2 DEF Dest
<1> QED BY <1>1, <1>2, <1>3, EventsAssumption

LEMMA InitImplements == Init => Promise!Init
BY EventTypes DEF Init, Promise!Init, Credited, Settled, DepositRefs

\* A commit is the credit of one transfer that had none.
LEMMA CommitImplements ==
    ASSUME IInv, NEW r \in Requests, Commit(r) \/ CommitUnconfirmed(r)
    PROVE  Promise!Next
<1> DEFINE e == job[r]
<1>1. pc[r] = "commit" /\ Apply(r)
    BY DEF Commit, CommitUnconfirmed
<1>2. e \in Events /\ IsDeposit(e) /\ staged[r].credit = Row(e)
    BY <1>1 DEF IInv, TypeOK, JobInv, StagedInv, InTransaction
<1>3. e.ref \in DepositRefs /\ Dest[e.ref] = Row(e) /\ Row(e) \in Rows /\ e.ref \in Refs
    BY <1>2, DestOfDeposit, EventTypes
<1>4. \A row \in Rows : ledger[row][e.ref] = 0
    BY <1>1, <1>3, NoneAssumption
    DEF IInv, LedgerMatchesEntries, FreshReference, AfterInsert
<1>5. ledger' = [ledger EXCEPT ![Row(e)][e.ref] = @ + 1] /\ acked' = acked
    BY <1>1, <1>2 DEF Apply
<1>6. \A row \in Rows, ref \in Refs :
          ledger'[row][ref] = IF row = Row(e) /\ ref = e.ref THEN 1 ELSE ledger[row][ref]
    BY <1>3, <1>4, <1>5 DEF IInv, TypeOK
<1>7. DepositRefs \subseteq Refs
    BY EventTypes DEF DepositRefs
<1>8. Credited' = [Credited EXCEPT ![Dest[e.ref]][e.ref] = 1]
    <2>1. Credited' = [row \in Rows |-> [ref \in DepositRefs |->
                          IF row = Row(e) /\ ref = e.ref THEN 1 ELSE ledger[row][ref]]]
        BY <1>6, <1>7 DEF Credited
    <2> DEFINE added == [Credited EXCEPT ![Row(e)][e.ref] = 1]
    <2>2. \A row \in Rows : Credited[row] = [ref \in DepositRefs |-> ledger[row][ref]]
        BY DEF Credited
    <2>3. \A row \in Rows : added[row] =
              [ref \in DepositRefs |->
                  IF row = Row(e) /\ ref = e.ref THEN 1 ELSE ledger[row][ref]]
        <3> SUFFICES ASSUME NEW row \in Rows
                     PROVE  added[row] = [ref \in DepositRefs |->
                                IF row = Row(e) /\ ref = e.ref THEN 1 ELSE ledger[row][ref]]
            OBVIOUS
        <3>1. CASE row = Row(e)
            BY <3>1, <2>2, <1>3 DEF Credited
        <3>2. CASE row # Row(e)
            BY <3>2, <2>2, <1>3 DEF Credited
        <3> QED BY <3>1, <3>2
    <2>4. added = [row \in Rows |-> added[row]]
        BY DEF Credited
    <2> QED BY <2>1, <2>3, <2>4, <1>3
<1>9. Settled' = Settled
    BY <1>5 DEF Settled, IsDeposit
<1>10. \A row \in Rows : Credited[row][e.ref] = 0
    BY <1>3, <1>4 DEF Credited
<1> QED BY <1>3, <1>8, <1>9, <1>10 DEF Promise!Next, Promise!Credit

\* A 200 heard by the provider settles the transfer; any other answer nothing.
LEMMA ReplyImplements ==
    ASSUME IInv, NEW r \in Requests, Reply(r)
    PROVE  Promise!Next \/ UNCHANGED Promise!vars
<1> DEFINE e == job[r]
<1>1. Credited' = Credited
    BY DEF Reply, Credited, db
<1>2. CASE code[r] = 200 /\ IsDeposit(e)
    <2>1. e \in Events /\ acked' = acked \union {e}
        BY <1>2 DEF Reply, IInv, TypeOK, JobInv
    <2>2. txns[e.ref] = Row(e)
        BY <1>2 DEF Reply, IInv, AckInv
    <2>3. e.ref \in DepositRefs /\ Dest[e.ref] = Row(e) /\ Row(e) \in Rows /\ e.ref \in Refs
        BY <1>2, <2>1, DestOfDeposit, EventTypes
    <2>4. Credited[Dest[e.ref]][e.ref] = 1
        BY <2>2, <2>3 DEF Credited, IInv, LedgerMatchesEntries
    <2>5. Settled' = Settled \union {e.ref}
        BY <2>1, <1>2 DEF Settled, IsDeposit
    <2> QED BY <2>3, <2>4, <2>5, <1>1 DEF Promise!Next, Promise!Settle
<1>3. CASE code[r] # 200
    BY <1>1, <1>3 DEF Reply, Settled, IsDeposit, Promise!vars
<1>4. CASE ~IsDeposit(e)
    <2>1. {f \in acked' : IsDeposit(f)} = {f \in acked : IsDeposit(f)}
        BY <1>4 DEF Reply
    <2>2. Settled' = Settled
        BY <2>1 DEF Settled, IsDeposit
    <2> QED BY <2>2, <1>1 DEF Promise!vars
<1> QED BY <1>2, <1>3, <1>4

LEMMA StepImplements == IInv /\ [Next]_vars => [Promise!Next]_(Promise!vars)
<1> SUFFICES ASSUME IInv, [Next]_vars PROVE Promise!Next \/ UNCHANGED Promise!vars
    OBVIOUS
<1>1. CASE \E r \in Requests : Commit(r) \/ CommitUnconfirmed(r)
    BY <1>1, CommitImplements
<1>2. CASE \E r \in Requests : Reply(r)
    BY <1>2, ReplyImplements
<1>3. ASSUME UNCHANGED <<ledger, acked>> PROVE UNCHANGED Promise!vars
    BY <1>3 DEF Promise!vars, Credited, Settled, IsDeposit
<1>4. CASE UNCHANGED vars
    BY <1>3, <1>4 DEF vars
<1>5. CASE Environment
    BY <1>3, <1>5 DEF Environment, Announce, RegisterWallet, DelistToken, SeedTokens, db
<1>6. ASSUME NEW r \in Requests, NEW e \in Events, Deliver(r, e) \/ DeliverLate(r, e)
      PROVE  UNCHANGED <<ledger, acked>>
    BY <1>6 DEF Deliver, DeliverLate, Open, db
<1>7. ASSUME NEW r \in Requests, Abort(r) \/ LoseReply(r)
      PROVE  UNCHANGED <<ledger, acked>>
    BY <1>7 DEF Abort, LoseReply, db
<1>8. ASSUME NEW r \in Requests,
             Validate(r) \/ FindWallet(r) \/ FindTransaction(r) \/ CreateTransaction(r)
                \/ FindToken(r) \/ UpsertBalance(r)
      PROVE  UNCHANGED <<ledger, acked>>
    BY <1>8 DEF Validate, FindWallet, FindTransaction, CreateTransaction, FindToken,
                UpsertBalance, End, Continue, db
<1> QED BY <1>1, <1>2, <1>3, <1>4, <1>5, <1>6, <1>7, <1>8 DEF Next, Handle, Fail

\* Whatever the interleaving and the failures, what the ledger and the provider
\* see is a behaviour of ExactlyOnceCredit.
THEOREM ImplementsPromise == Spec => PromiseKept
BY InitImplements, StepImplements, InductiveInvariant, PTL DEF Spec, PromiseKept, Promise!Spec
=============================================================================

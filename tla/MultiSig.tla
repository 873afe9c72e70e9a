------------------------------ MODULE MultiSig ------------------------------
(***************************************************************************)
(* The multi-signature backend: a table of Hedera transactions that wait   *)
(* for the signatures of their keys, the requests that create, sign and    *)
(* delete rows (transaction.service.ts), and the cron job that submits     *)
(* signed transactions to the network and expires late ones                *)
(* (autoSubmit.service.ts).                                                *)
(*                                                                         *)
(* Everything is one Node process: code runs alone up to its next await    *)
(* and anything may run while it waits.  A flow is such a suspended piece  *)
(* of code with the data it carries over the await: the row it read and is *)
(* about to save, the row it is about to delete, the status it is about to *)
(* set, the transaction it is submitting.  The cron fires whether or not   *)
(* the last run is over, so runs overlap, and a run does not await the     *)
(* tasks it starts.                                                        *)
(*                                                                         *)
(* repository.save is two waits, not one: the library selects the row as   *)
(* it is by then, and writes the columns in which the entity differs from  *)
(* it.  Saves of one row that overlap may so leave columns of both.        *)
(***************************************************************************)
EXTENDS Integers, FiniteSets

CONSTANTS
  Tx,           \* the ids of rows (uuids)
  Key,          \* public keys
  Signer,       \* bound: the HTTP requests to sign served at once
  Deleter,      \* bound: those to delete
  Job,          \* bound: the runs of the cron job under way at once
  NoRow,        \* no row with this id in the table
  NewRows,      \* bound: the bodies of requests to add a transaction
  PageSize,     \* `limit' in run(): 100
  Validity,     \* how long a transaction is valid: 180 seconds
  MaxTime,      \* bound: the clock
  MaxRestarts   \* bound: crashes of the process other than its own errors

Status == {"PENDING", "SIGNED", "EXECUTED", "ERROR", "EXPIRED"}

Request == Signer \cup Deleter
Task == Job \X Tx               \* what a run started for a transaction

ASSUME MultiSigAssumption ==
  /\ IsFiniteSet(Key) /\ IsFiniteSet(Tx)
  /\ Request \cap Task = {}
  /\ PageSize \in Nat \ {0}
  /\ Validity \in Nat \ {0}
  /\ MaxTime \in Nat /\ MaxRestarts \in Nat
  /\ \A new \in NewRows :
       /\ new.keys \subseteq Key /\ new.keys # {}       \* @ArrayNotEmpty
       /\ new.threshold \in Nat                          \* @Min(0)
       /\ new.start \in Nat

(* transaction.entity.ts.  `signatures' has an entry for each of           *)
(* `signed_keys', so the set of the keys stands for both.                  *)
Fields == [keys : SUBSET Key, threshold : Nat, signed : SUBSET Key,
           status : Status, start : Nat]

(* A row asks for at least one signature and for no more than can come,    *)
(* and has none of a key that is not in its list.                          *)
Row == {row \in Fields : /\ row.threshold \in 1..Cardinality(row.keys)
                         /\ row.signed \subseteq row.keys}

ASSUME NoRowAssumption == NoRow \notin Row

VARIABLES
  db,           \* the table: db[t] is the row with id t, or NoRow
  created,      \* the ids that were given out
  flow,         \* flow[f]: the suspended code of request or task f
  run,          \* run[j]: what run j of the job has listed so far
  network,      \* network[t]: the consensus result of transaction t
  now,
  restarts,
  tangled       \* history: the ids of which a row was read to be changed while
                \* another change to it was under way

vars == <<db, created, flow, run, network, now, restarts, tangled>>

Idle == [step |-> "idle"]
Saving(t, row) == [step |-> "save", tx |-> t, row |-> row]
Writing(t, row, found) == [step |-> "write", tx |-> t, row |-> row, found |-> found]
Deleting(t) == [step |-> "delete", tx |-> t]
Updating(t, status) == [step |-> "update", tx |-> t, status |-> status]
Submitting(t, row) == [step |-> "submit", tx |-> t, row |-> row]

Flow ==
  {Idle} \cup [step : {"save", "submit"}, tx : Tx, row : Row]
         \cup [step : {"write"}, tx : Tx, row : Row, found : Row \cup {NoRow}]
         \cup [step : {"delete"}, tx : Tx]
         \cup [step : {"update"}, tx : Tx, status : {"EXECUTED", "ERROR", "EXPIRED"}]

(* page 0: not running.                                                    *)
NotRunning == [page |-> 0, toSubmit |-> [t \in Tx |-> NoRow], toExpire |-> {}]
Run == [page : Nat, toSubmit : [Tx -> Row \cup {NoRow}], toExpire : SUBSET Tx]

MultiSigTypeOK ==
  /\ db \in [Tx -> Row \cup {NoRow}]
  /\ created \subseteq Tx
  /\ flow \in [Request \cup Task -> Flow]
  /\ run \in [Job -> Run]
  /\ network \in [Tx -> {"unseen", "success", "failure"}]
  /\ now \in Nat
  /\ restarts \in Nat
  /\ tangled \subseteq Tx

Init ==
  /\ db = [t \in Tx |-> NoRow]
  /\ created = {}
  /\ flow = [f \in Request \cup Task |-> Idle]
  /\ run = [j \in Job |-> NotRunning]
  /\ network = [t \in Tx |-> "unseen"]
  /\ now = 0
  /\ restarts = 0
  /\ tangled = {}

Signed(row) == Cardinality(row.signed) >= row.threshold
Started(row) == row.start <= now
Late(row) == row.start + Validity <= now
Open(row) == row.status \in {"PENDING", "SIGNED"}

Become(f, newFlow) == flow' = [flow EXCEPT ![f] = newFlow]

(* f begins to change t: while another flow is at it?                      *)
Changing(f, t) == flow[f].step \in {"save", "write"} /\ flow[f].tx = t
BeginChange(f, t) ==
  tangled' = IF \E g \in (Request \cup Task) \ {f} : Changing(g, t)
               THEN tangled \cup {t} ELSE tangled

-----------------------------------------------------------------------------
(* Requests (transaction.controller.ts, transaction.service.ts)            *)

(* A slip: the threshold is stored as it came.                             *)
CreateAsAsked(t, new) ==
  /\ t \notin created
  /\ created' = created \cup {t}
  /\ db' = [db EXCEPT ![t] = [keys |-> new.keys, threshold |-> new.threshold,
                              signed |-> {}, status |-> "PENDING", start |-> new.start]]
  /\ UNCHANGED <<flow, run, network, now, restarts, tangled>>

(* create: a threshold of 0, or beyond the number of keys, means all keys. *)
Create(t, new) ==
  LET all == Cardinality(new.keys)
      threshold == IF new.threshold = 0 \/ new.threshold > all
                     THEN all ELSE new.threshold
  IN  /\ t \notin created
      /\ created' = created \cup {t}
      /\ db' = [db EXCEPT ![t] = [keys |-> new.keys, threshold |-> threshold,
                                  signed |-> {}, status |-> "PENDING",
                                  start |-> new.start]]
      /\ UNCHANGED <<flow, run, network, now, restarts, tangled>>

(* A slip: the signatures are counted before the new one is added.         *)
WithSignatureCountedLate(row, key) ==
  [row EXCEPT !.signed = @ \cup {key},
              !.status = IF Cardinality(row.signed) >= row.threshold THEN "SIGNED" ELSE @]

(* A slip: the signatures before it are left out.                          *)
WithItsSignatureOnly(row, key) ==
  [row EXCEPT !.signed = {key},
              !.status = IF Cardinality(row.signed \cup {key}) >= row.threshold
                           THEN "SIGNED" ELSE @]

(* What sign makes of the row it read.                                     *)
WithSignature(row, key) ==
  LET signed == row.signed \cup {key}
  IN  [row EXCEPT !.signed = signed,
                  !.status = IF Cardinality(signed) >= row.threshold
                               THEN "SIGNED" ELSE @]

(* sign, from its findOne to its save: whatever the status of the row.     *)
Sign(r, t, key) ==
  /\ flow[r] = Idle
  /\ db[t] # NoRow
  /\ key \notin db[t].signed            \* MessageAlreadySigned
  /\ key \in db[t].keys                 \* UnauthorizedKey
  /\ Become(r, Saving(t, WithSignature(db[t], key)))
  /\ BeginChange(r, t)
  /\ UNCHANGED <<db, created, run, network, now, restarts>>

(* delete, from its findOne to the delete statement.                       *)
Delete(r, t) ==
  /\ flow[r] = Idle
  /\ db[t] # NoRow
  /\ Become(r, Deleting(t))
  /\ UNCHANGED <<db, created, run, network, now, restarts, tangled>>

(* repository.save of an entity that has an id, first wait: what the table *)
(* has of it by now.  An entity that does not differ needs no more.        *)
Select(f) ==
  /\ flow[f].step = "save"
  /\ LET t == flow[f].tx
         row == flow[f].row
     IN Become(f, IF db[t] = row THEN Idle ELSE Writing(t, row, db[t]))
  /\ UNCHANGED <<db, created, run, network, now, restarts, tangled>>

(* The columns that a save changes are those in which the entity differs   *)
(* from what the select found; nothing else ever changes of a row.         *)
WithChanges(current, row, found) ==
  [current EXCEPT !.signed = IF row.signed # found.signed THEN row.signed ELSE @,
                  !.status = IF row.status # found.status THEN row.status ELSE @]

(* The process dies and comes back with the table and nothing else.        *)
ForgetEverything ==
  /\ flow' = [f \in Request \cup Task |-> Idle]
  /\ run' = [j \in Job |-> NotRunning]
  /\ UNCHANGED <<db, created, network, now, tangled>>

(* Second wait: an update of the row, of none if it is gone, or, if the    *)
(* select found none, an insert.  An id that is back by then fails it: the *)
(* request with an error, a task with a rejection nobody catches.          *)
Write(f) ==
  /\ flow[f].step = "write"
  /\ LET t == flow[f].tx
         row == flow[f].row
         found == flow[f].found
     IN \/ /\ found # NoRow /\ db[t] # NoRow
           /\ db' = [db EXCEPT ![t] = WithChanges(@, row, found)]
           /\ Become(f, Idle)
           /\ UNCHANGED <<created, run, network, now, restarts, tangled>>
        \/ /\ found # NoRow /\ db[t] = NoRow
           /\ Become(f, Idle)
           /\ UNCHANGED <<db, created, run, network, now, restarts, tangled>>
        \/ /\ found = NoRow /\ db[t] = NoRow
           /\ db' = [db EXCEPT ![t] = row]
           /\ Become(f, Idle)
           /\ UNCHANGED <<created, run, network, now, restarts, tangled>>
        \/ /\ found = NoRow /\ db[t] # NoRow /\ f \in Request
           /\ Become(f, Idle)
           /\ UNCHANGED <<db, created, run, network, now, restarts, tangled>>
        \/ /\ found = NoRow /\ db[t] # NoRow /\ f \in Task
           /\ ForgetEverything
           /\ UNCHANGED restarts

DeleteRow(f) ==
  /\ flow[f].step = "delete"
  /\ db' = [db EXCEPT ![flow[f].tx] = NoRow]
  /\ Become(f, Idle)
  /\ UNCHANGED <<created, run, network, now, restarts, tangled>>

-----------------------------------------------------------------------------
(* The auto-submit job                                                     *)

RunIsOver(j) == run[j].page = 0 /\ \A t \in Tx : flow[<<j, t>>] = Idle

StartRun(j) ==
  /\ RunIsOver(j)
  /\ run' = [run EXCEPT ![j].page = 1]
  /\ UNCHANGED <<db, created, flow, network, now, restarts, tangled>>

Rows == {t \in Tx : db[t] # NoRow}
TotalPages == (Cardinality(Rows) + PageSize - 1) \div PageSize

(* What a query for a page may answer: its share of the rows.  The query   *)
(* has no ORDER BY, so which rows it holds is the database's choice.       *)
ItemsOf(page) ==
  LET left == Cardinality(Rows) - (page - 1) * PageSize
      size == IF left < 0 THEN 0 ELSE IF left > PageSize THEN PageSize ELSE left
  IN  {items \in SUBSET Rows : Cardinality(items) = size}

(* Slips: pending transactions are submitted too; transactions expire when *)
(* they start, or only once they are signed.                               *)
ToSubmitOpen(items) == {t \in items : Open(db[t]) /\ Started(db[t]) /\ ~Late(db[t])}
ToExpireStarted(items) == {t \in items : Open(db[t]) /\ Started(db[t])}
ToExpireSigned(items) == {t \in items : db[t].status = "SIGNED" /\ Late(db[t])}

ToSubmit(items) ==
  {t \in items : db[t].status = "SIGNED" /\ Started(db[t]) /\ ~Late(db[t])}
ToExpire(items) ==
  {t \in items : db[t].status \in {"SIGNED", "PENDING"} /\ Late(db[t])}

Listed(j, items) ==
  [page |-> run[j].page + 1,
   toSubmit |-> [t \in Tx |-> IF t \in ToSubmit(items) THEN db[t]
                              ELSE run[j].toSubmit[t]],
   toExpire |-> run[j].toExpire \cup ToExpire(items)]

LastPage(page) == page >= TotalPages            \* tested after page++

ListPage(j) ==
  /\ run[j].page > 0
  /\ \E items \in ItemsOf(run[j].page) :
       LET listed == Listed(j, items)
       IN \/ /\ ~LastPage(listed.page)
             /\ run' = [run EXCEPT ![j] = listed]
             /\ UNCHANGED flow
          \/ (* forEach: a task for each transaction listed, none awaited. *)
             /\ LastPage(listed.page)
             /\ run' = [run EXCEPT ![j] = NotRunning]
             /\ flow' = [f \in Request \cup Task |->
                  IF f \notin {<<j, t>> : t \in Tx} THEN flow[f]
                  ELSE IF listed.toSubmit[f[2]] # NoRow
                         THEN Submitting(f[2], listed.toSubmit[f[2]])
                  ELSE IF f[2] \in listed.toExpire THEN Updating(f[2], "EXPIRED")
                  ELSE Idle]
  /\ UNCHANGED <<db, created, network, now, restarts, tangled>>

(* The network takes a transaction once, in its validity window, with      *)
(* enough signatures, and it may fail there.                               *)
Accepts(t, row) ==
  network[t] = "unseen" /\ Signed(row) /\ Started(row) /\ ~Late(row)

(* A slip: the receipt's status is not looked at (checkReceipt).           *)
SubmitIgnoringReceipt(f) ==
  /\ flow[f].step = "submit"
  /\ LET t == flow[f].tx
     IN \/ /\ Accepts(t, flow[f].row)
           /\ \E result \in {"success", "failure"} :
                network' = [network EXCEPT ![t] = result]
           /\ Become(f, Updating(t, "EXECUTED"))
        \/ /\ UNCHANGED network
           /\ Become(f, Updating(t, "ERROR"))
  /\ UNCHANGED <<db, created, run, now, restarts, tangled>>

(* submit: executed, and the receipt says what became of it; or executed,  *)
(* and the receipt does not arrive; or never executed: not accepted, or    *)
(* out of reach.  The last two look the same to the job.                   *)
Submit(f) ==
  /\ flow[f].step = "submit"
  /\ LET t == flow[f].tx
     IN \/ /\ Accepts(t, flow[f].row)
           /\ network' = [network EXCEPT ![t] = "success"]
           /\ \E answer \in {"EXECUTED", "ERROR"} : Become(f, Updating(t, answer))
        \/ /\ Accepts(t, flow[f].row)
           /\ network' = [network EXCEPT ![t] = "failure"]
           /\ Become(f, Updating(t, "ERROR"))
        \/ /\ UNCHANGED network
           /\ Become(f, Updating(t, "ERROR"))
  /\ UNCHANGED <<db, created, run, now, restarts, tangled>>

(* updateStatus, from its findOne to its save.  A row that is gone is an   *)
(* exception nobody catches: the task was not awaited, so the rejection    *)
(* is unhandled and ends the process.                                      *)
UpdateStatus(f) ==
  /\ flow[f].step = "update"
  /\ \/ /\ db[flow[f].tx] # NoRow
        /\ Become(f, Saving(flow[f].tx,
                            [db[flow[f].tx] EXCEPT !.status = flow[f].status]))
        /\ BeginChange(f, flow[f].tx)
        /\ UNCHANGED <<db, created, run, network, now, restarts>>
     \/ /\ db[flow[f].tx] = NoRow
        /\ ForgetEverything
        /\ UNCHANGED restarts

Restart ==
  /\ restarts < MaxRestarts
  /\ restarts' = restarts + 1
  /\ ForgetEverything

Tick ==
  /\ now < MaxTime
  /\ now' = now + 1
  /\ UNCHANGED <<db, created, flow, run, network, restarts, tangled>>

SignerNext(r) == (\E t \in Tx, key \in Key : Sign(r, t, key)) \/ Select(r) \/ Write(r)

DeleterNext(r) == (\E t \in Tx : Delete(r, t)) \/ DeleteRow(r)

TaskNext(task) == Submit(task) \/ UpdateStatus(task) \/ Select(task) \/ Write(task)

Next ==
  \/ \E t \in Tx, new \in NewRows : Create(t, new)
  \/ \E r \in Signer : SignerNext(r)
  \/ \E r \in Deleter : DeleterNext(r)
  \/ \E j \in Job : StartRun(j) \/ ListPage(j)
  \/ \E task \in Task : TaskNext(task)
  \/ Restart
  \/ Tick

(* The cron keeps firing, the database answers, a submission ends with a   *)
(* receipt, an error or the client's timeout, and time passes.  Users and  *)
(* requests owe nothing.                                                   *)
Fairness ==
  /\ WF_vars(Tick)
  /\ \A j \in Job : WF_vars(StartRun(j)) /\ WF_vars(ListPage(j))
  /\ \A task \in Task : WF_vars(TaskNext(task))

Spec == Init /\ [][Next]_vars
FairSpec == Spec /\ Fairness

-----------------------------------------------------------------------------

(* Every row whose changes did not overlap has the status its signatures   *)
(* ask for: signed only with enough of them, pending only without, also    *)
(* when it was deleted and came back under a change (sign, updateStatus,   *)
(* save).                                                                  *)
StatusTellsSignatures ==
  \A t \in Tx : db[t] # NoRow /\ t \notin tangled =>
    /\ db[t].status = "SIGNED" => Signed(db[t])
    /\ db[t].status = "PENDING" => ~Signed(db[t])

(* What the job sends to the network of such a row carries enough          *)
(* signatures, as read when the page was listed.                           *)
SubmissionsAreSigned ==
  \A task \in Task :
    flow[task].step = "submit" /\ flow[task].tx \notin tangled => Signed(flow[task].row)

(* Nor does such a row lose a signature, whatever is saved over it.        *)
SignaturesAreKept ==
  [][\A t \in Tx : db[t] # NoRow /\ db'[t] # NoRow /\ t \notin tangled'
       => db[t].signed \subseteq db'[t].signed]_vars

(* A row says EXECUTED only of a transaction the network executed, however *)
(* the tasks of overlapping runs, lost receipts and restarts interleave.   *)
ExecutedIsTrue ==
  \A t \in Tx : db[t] # NoRow /\ db[t].status = "EXECUTED" => network[t] = "success"

(* No transaction is given up while it could still be executed.            *)
ExpiredAfterWindow ==
  \A t \in Tx : db[t] # NoRow /\ db[t].status = "EXPIRED" => Late(db[t])

(* An unfinished transaction past its window does not stay unfinished: the *)
(* job marks it (auto-expire), or somebody removes it.                     *)
AutoExpire ==
  \A t \in Tx :
    (db[t] # NoRow /\ Open(db[t]) /\ Late(db[t]))
      ~> (db[t] = NoRow \/ ~Open(db[t]))

(* The documented reading of EXPIRED: the transaction was not executed     *)
(* within its window.  (It cannot be executed after it.)                   *)
ExpiredMeansNotExecuted ==
  \A t \in Tx : db[t] # NoRow /\ db[t].status = "EXPIRED" => network[t] # "success"
=============================================================================

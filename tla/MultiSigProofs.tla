--------------------------- MODULE MultiSigProofs ---------------------------
(***************************************************************************)
(* The safety of the multi-signature backend, for every number of rows,    *)
(* keys, requests and overlapping runs of the job, every page size, every  *)
(* clock and any number of crashes.                                        *)
(*                                                                         *)
(* None of the properties is inductive: a row may be overwritten by what a *)
(* flow read long ago, and a task marks a transaction EXPIRED for what a   *)
(* run saw of it.  The invariant therefore says of every copy of a row, in *)
(* the table, in a flow or in a run's list, what the properties say of the *)
(* table, and that all copies of a transaction agree on its keys, its      *)
(* threshold and its start date, given by a function `origin' that exists  *)
(* but is kept nowhere.  A save writes single columns, so that a row may   *)
(* become one that no flow carried: what its columns say one by one always *)
(* holds, what they say together only where changes do not overlap.        *)
(***************************************************************************)
EXTENDS MultiSig, TLAPS, FiniteSetTheorems

(* What never changes of a transaction.                                    *)
Origin == [keys : SUBSET Key, threshold : Nat, start : Nat]

(* A status that the signatures ask for.                                   *)
Agrees(row) ==
  /\ row.status = "SIGNED" => Signed(row)
  /\ row.status = "PENDING" => ~Signed(row)

(* A copy of the row of transaction t that may be saved.                   *)
Sound(t, row, origin) ==
  /\ t \in created
  /\ row \in Row
  /\ row.keys = origin[t].keys
  /\ row.threshold = origin[t].threshold
  /\ row.start = origin[t].start
  /\ t \notin tangled => Agrees(row)
  /\ row.status = "EXECUTED" => network[t] = "success"
  /\ row.status = "EXPIRED" => Late(row)

(* A transaction that may be marked expired.                               *)
MayExpire(t, origin) == t \in created /\ origin[t].start + Validity <= now

TableSound(origin) == \A t \in Tx : db[t] # NoRow => Sound(t, db[t], origin)

FlowSound(code, origin) ==
  /\ code.step \in {"save", "write", "submit"} => Sound(code.tx, code.row, origin)
  /\ code.step = "submit" /\ code.tx \notin tangled => Signed(code.row)
  /\ code.step = "update" =>
       /\ code.status = "EXECUTED" => network[code.tx] = "success"
       /\ code.status = "EXPIRED" => MayExpire(code.tx, origin)

RunSound(list, origin) ==
  /\ \A t \in Tx : list.toSubmit[t] # NoRow =>
       /\ Sound(t, list.toSubmit[t], origin)
       /\ t \notin tangled => Signed(list.toSubmit[t])
  /\ \A t \in list.toExpire : MayExpire(t, origin)

AllSound(origin) ==
  /\ TableSound(origin)
  /\ \A f \in Request \cup Task : FlowSound(flow[f], origin)
  /\ \A j \in Job : RunSound(run[j], origin)

(* What a change of a transaction rests on, as long as no other overlaps:  *)
(* the row is as it was read or as the select found it, unless it was      *)
(* deleted, and it has no signature that the entity has not.               *)
Grounded(code) ==
  code.step \in {"save", "write"} /\ code.tx \notin tangled =>
    /\ code.step = "save" /\ db[code.tx] # NoRow
         => db[code.tx].signed \subseteq code.row.signed
    /\ code.step = "write" =>
         /\ db[code.tx] \in {code.found, NoRow}
         /\ code.found # NoRow => code.found.signed \subseteq code.row.signed

Untangled ==
  /\ \A f, g \in Request \cup Task, t \in Tx :
       f # g /\ Changing(f, t) /\ Changing(g, t) => t \in tangled
  /\ \A f \in Request \cup Task : Grounded(flow[f])

Inv ==
  /\ MultiSigTypeOK
  /\ Untangled
  /\ \E origin \in [Tx -> Origin] : AllSound(origin)

-----------------------------------------------------------------------------

(* The number of signatures of a row, and what one more does to it.        *)
LEMMA SignatureCount ==
  ASSUME NEW S \in SUBSET Key
  PROVE  Cardinality(S) \in Nat /\ (S # {} => Cardinality(S) > 0)
<1>1. IsFiniteSet(S)
  BY MultiSigAssumption, FS_Subset
<1> QED
  BY <1>1, FS_CardinalityType, FS_EmptySet

(* sign turns a sound row into a sound row with the signature.             *)
LEMMA WithSignatureSound ==
  ASSUME MultiSigTypeOK, NEW origin \in [Tx -> Origin], NEW t \in Tx, NEW row,
         NEW key \in Key, Sound(t, row, origin), key \in row.keys
  PROVE  Sound(t, WithSignature(row, key), origin)
<1> DEFINE signed == row.signed \cup {key}
           new == WithSignature(row, key)
<1>1. row \in Row /\ row \in Fields /\ signed \in SUBSET Key
  BY DEF Sound, Row, Fields
<1>2. /\ new.keys = row.keys /\ new.threshold = row.threshold
      /\ new.start = row.start /\ new.signed = signed
      /\ new.status = IF Cardinality(signed) >= row.threshold THEN "SIGNED" ELSE row.status
      /\ new \in Fields
  BY <1>1 DEF WithSignature, Fields, Status
<1>3. new \in Row
  BY <1>1, <1>2 DEF Row, Sound
<1>4. Cardinality(signed) \in Nat /\ Cardinality(row.signed) \in Nat /\ row.threshold \in Nat
  BY <1>1, SignatureCount DEF Fields
<1>5. CASE Cardinality(signed) >= row.threshold
  BY <1>2, <1>3, <1>5 DEF Sound, Signed, Agrees
<1>6. CASE ~(Cardinality(signed) >= row.threshold)
  <2>1. ~Signed(new) /\ new.status = row.status
    BY <1>2, <1>6 DEF Signed
  <2>2. t \notin tangled => row.status # "SIGNED"
    <3>1. SUFFICES ASSUME t \notin tangled, row.status = "SIGNED" PROVE FALSE
      OBVIOUS
    <3>2. Cardinality(row.signed) >= row.threshold
      BY <3>1 DEF Sound, Agrees, Signed
    <3>3. Cardinality(row.signed) <= Cardinality(signed)
      BY <1>1, MultiSigAssumption, FS_Subset
    <3> QED
      BY <1>4, <1>6, <3>2, <3>3
  <2>3. t \notin tangled => Agrees(new)
    BY <2>1, <2>2 DEF Agrees
  <2> QED
    BY <1>2, <1>3, <2>1, <2>3 DEF Sound, Late
<1> QED
  BY <1>5, <1>6

(* A row keeps its soundness when its status becomes one that is earned.   *)
LEMMA WithStatusSound ==
  ASSUME MultiSigTypeOK, NEW origin \in [Tx -> Origin], NEW t \in Tx, NEW row,
         NEW status \in {"EXECUTED", "ERROR", "EXPIRED"},
         Sound(t, row, origin),
         status = "EXECUTED" => network[t] = "success",
         status = "EXPIRED" => MayExpire(t, origin)
  PROVE  Sound(t, [row EXCEPT !.status = status], origin)
<1> DEFINE new == [row EXCEPT !.status = status]
<1>1. row \in Fields /\ row \in Row
  BY DEF Sound, Row
<1>2. /\ new \in Fields /\ new.keys = row.keys /\ new.threshold = row.threshold
      /\ new.signed = row.signed /\ new.start = row.start /\ new.status = status
  BY <1>1 DEF Fields, Status
<1>3. new \in Row
  BY <1>1, <1>2 DEF Row
<1> QED
  BY <1>2, <1>3 DEF Sound, Late, MayExpire, Agrees

-----------------------------------------------------------------------------
(* What every step leaves true of a sound copy.                            *)

(* The clock, the verdicts of the network, the ids given out and those     *)
(* with overlapping changes only grow.                                     *)
Grows ==
  /\ now \in Nat /\ now' \in Nat /\ now <= now'
  /\ created \subseteq created'
  /\ tangled \subseteq tangled' /\ tangled' \subseteq Tx
  /\ \A t \in Tx : network[t] = "success" => network'[t] = "success"

(* A sound copy of a row, and a transaction that may expire, stay so while *)
(* the clock, the network and the ids only grow, also for a function of    *)
(* origins that knows more transactions.                                   *)
LEMMA SoundStable ==
  ASSUME Grows, NEW origin \in [Tx -> Origin], NEW later \in [Tx -> Origin],
         \A t \in created : later[t] = origin[t],
         NEW t \in Tx
  PROVE  /\ \A row : Sound(t, row, origin) => Sound(t, row, later)'
         /\ MayExpire(t, origin) => MayExpire(t, later)'
<1>1. ASSUME NEW row, Sound(t, row, origin)
      PROVE  Sound(t, row, later)'
  <2>1. row.start \in Nat
    BY <1>1 DEF Sound, Row, Fields
  <2> QED
    BY <1>1, <2>1, MultiSigAssumption DEF Sound, Agrees, Signed, Late, Grows
<1>2. MayExpire(t, origin) => MayExpire(t, later)'
  <2>1. origin[t].start \in Nat
    BY DEF Origin
  <2> QED
    BY <2>1, MultiSigAssumption DEF MayExpire, Grows
<1> QED
  BY <1>1, <1>2

(* No step takes back an id, a verdict of the network or time.             *)
LEMMA StepGrows ==
  ASSUME MultiSigTypeOK, Next
  PROVE  Grows
<1> USE DEF MultiSigTypeOK, Grows
<1>1. ASSUME NEW t \in Tx, NEW new \in NewRows, Create(t, new)
      PROVE  Grows
  BY <1>1 DEF Create
<1>2. ASSUME NEW f, NEW t \in Tx, BeginChange(f, t)
      PROVE  tangled \subseteq tangled' /\ tangled' \subseteq Tx
  BY <1>2 DEF BeginChange
<1>3. ASSUME NEW f \in Request \cup Task, Select(f) \/ Write(f)
      PROVE  Grows
  BY <1>3 DEF Select, Write, ForgetEverything
<1>4. ASSUME NEW r \in Signer, SignerNext(r)
      PROVE  Grows
  <2>1. ASSUME NEW t \in Tx, NEW key \in Key, Sign(r, t, key)
        PROVE  Grows
    BY <1>2, <2>1 DEF Sign
  <2> QED
    BY <1>3, <1>4, <2>1 DEF SignerNext, Request
<1>5. ASSUME NEW r \in Deleter, DeleterNext(r)
      PROVE  Grows
  BY <1>5 DEF DeleterNext, Delete, DeleteRow
<1>6. ASSUME NEW j \in Job, StartRun(j) \/ ListPage(j)
      PROVE  Grows
  BY <1>6 DEF StartRun, ListPage
<1>7. ASSUME NEW task \in Task, TaskNext(task)
      PROVE  Grows
  <2>1. CASE Submit(task)
    <3>1. created' = created /\ now' = now /\ tangled' = tangled
      BY <2>1 DEF Submit
    <3>2. \/ network' = network
          \/ /\ network[flow[task].tx] = "unseen"
             /\ \E v : network' = [network EXCEPT ![flow[task].tx] = v]
      BY <2>1 DEF Submit, Accepts
    <3> QED
      BY <3>1, <3>2
  <2>2. CASE UpdateStatus(task)
    <3>1. CASE ForgetEverything
      BY <3>1 DEF ForgetEverything
    <3>2. CASE BeginChange(task, flow[task].tx) /\ UNCHANGED <<db, created, run, network, now, restarts>>
      <4>1. flow[task] \in Flow /\ flow[task].step = "update"
        BY <2>2 DEF UpdateStatus
      <4>2. flow[task].tx \in Tx
        BY <4>1 DEF Flow, Idle
      <4> QED
        BY <1>2, <3>2, <4>2
    <3> QED
      BY <2>2, <3>1, <3>2 DEF UpdateStatus
  <2>3. CASE Select(task) \/ Write(task)
    BY <1>3, <2>3
  <2> QED
    BY <1>7, <2>1, <2>2, <2>3 DEF TaskNext
<1>8. Restart => Grows
  BY DEF Restart, ForgetEverything
<1>9. Tick => Grows
  BY DEF Tick
<1> QED
  BY <1>1, <1>4, <1>5, <1>6, <1>7, <1>8, <1>9 DEF Next

(* The same for what flows and runs carry.                                 *)
LEMMA CarriedStable ==
  ASSUME MultiSigTypeOK, Grows, NEW origin \in [Tx -> Origin], NEW later \in [Tx -> Origin],
         \A t \in created : later[t] = origin[t]
  PROVE  /\ \A code \in Flow : FlowSound(code, origin) => FlowSound(code, later)'
         /\ \A list \in Run : RunSound(list, origin) => RunSound(list, later)'
<1>1. ASSUME NEW code \in Flow, FlowSound(code, origin)
      PROVE  FlowSound(code, later)'
  <2>1. CASE code.step \in {"save", "write", "submit"}
    <3>1. code.tx \in Tx /\ code.step # "update"
      BY <2>1 DEF Flow, Idle
    <3>2. Sound(code.tx, code.row, later)'
      BY <1>1, <2>1, <3>1, SoundStable DEF FlowSound
    <3> QED
      BY <1>1, <2>1, <3>1, <3>2 DEF FlowSound, Signed, Grows
  <2>2. CASE code.step = "update"
    <3>1. code.tx \in Tx
      BY <2>2 DEF Flow, Idle
    <3>2. MayExpire(code.tx, origin) => MayExpire(code.tx, later)'
      BY <3>1, SoundStable
    <3> QED
      BY <1>1, <2>2, <3>1, <3>2 DEF FlowSound, Grows
  <2>3. CASE code.step \notin {"save", "write", "submit", "update"}
    BY <2>3 DEF FlowSound
  <2> QED
    BY <2>1, <2>2, <2>3
<1>2. ASSUME NEW list \in Run, RunSound(list, origin)
      PROVE  RunSound(list, later)'
  <2>1. ASSUME NEW t \in Tx, list.toSubmit[t] # NoRow
        PROVE  /\ Sound(t, list.toSubmit[t], later)'
               /\ (t \notin tangled => Signed(list.toSubmit[t]))'
    BY <1>2, <2>1, SoundStable DEF RunSound, Signed, Grows
  <2>2. ASSUME NEW t \in list.toExpire
        PROVE  MayExpire(t, later)'
    BY <1>2, <2>2, SoundStable DEF RunSound, Run
  <2> QED
    BY <2>1, <2>2 DEF RunSound
<1> QED
  BY <1>1, <1>2

(* A flow comes to its next await, and nothing else but the network's      *)
(* verdict changes.                                                        *)
LEMMA FlowMoves ==
  ASSUME MultiSigTypeOK, Grows, NEW origin \in [Tx -> Origin], AllSound(origin),
         NEW f \in Request \cup Task, NEW code \in Flow,
         Become(f, code), FlowSound(code, origin)',
         UNCHANGED <<db, created, run, now, restarts>>,
         network' \in [Tx -> {"unseen", "success", "failure"}]
  PROVE  MultiSigTypeOK' /\ AllSound(origin)'
<1>1. MultiSigTypeOK'
  BY DEF MultiSigTypeOK, Become, Grows
<1>2. TableSound(origin)'
  BY SoundStable DEF AllSound, TableSound, MultiSigTypeOK
<1>3. ASSUME NEW g \in Request \cup Task
      PROVE  FlowSound(flow[g], origin)'
  <2>1. CASE g = f
    BY <2>1 DEF Become, MultiSigTypeOK
  <2>2. CASE g # f
    <3>1. flow'[g] = flow[g] /\ flow[g] \in Flow
      BY <2>2 DEF Become, MultiSigTypeOK
    <3>2. FlowSound(flow[g], origin)
      BY DEF AllSound
    <3>3. PICK old : old = flow[g]
      OBVIOUS
    <3>4. FlowSound(old, origin)'
      BY <3>1, <3>2, <3>3, CarriedStable
    <3> QED
      BY <3>1, <3>3, <3>4 DEF FlowSound
  <2> QED
    BY <2>1, <2>2
<1>4. ASSUME NEW j \in Job
      PROVE  RunSound(run[j], origin)'
  <2>1. PICK list \in Run : list = run[j]
    BY DEF MultiSigTypeOK
  <2>2. RunSound(list, origin)'
    BY <2>1, CarriedStable DEF AllSound
  <2> QED
    BY <2>1, <2>2 DEF RunSound
<1> QED
  BY <1>1, <1>2, <1>3, <1>4 DEF AllSound

(* What flows and runs carry stays sound when the code that ran left them  *)
(* as they were.                                                           *)
LEMMA RestStable ==
  ASSUME MultiSigTypeOK, Grows, NEW origin \in [Tx -> Origin], NEW later \in [Tx -> Origin],
         AllSound(origin), \A t \in created : later[t] = origin[t]
  PROVE  /\ \A t \in Tx : db'[t] = db[t] /\ db[t] # NoRow => Sound(t, db[t], later)'
         /\ \A f \in Request \cup Task : flow'[f] = flow[f] => FlowSound(flow[f], later)'
         /\ \A j \in Job : run'[j] = run[j] => RunSound(run[j], later)'
<1>1. ASSUME NEW t \in Tx, db'[t] = db[t], db[t] # NoRow
      PROVE  Sound(t, db[t], later)'
  <2>1. PICK row : row = db[t]
    OBVIOUS
  <2>2. Sound(t, row, later)'
    BY <1>1, <2>1, SoundStable DEF AllSound, TableSound
  <2> QED
    BY <1>1, <2>1, <2>2 DEF Sound
<1>2. ASSUME NEW f \in Request \cup Task, flow'[f] = flow[f]
      PROVE  FlowSound(flow[f], later)'
  <2>1. PICK code \in Flow : code = flow[f]
    BY DEF MultiSigTypeOK
  <2>2. FlowSound(code, later)'
    BY <2>1, CarriedStable DEF AllSound
  <2> QED
    BY <1>2, <2>1, <2>2 DEF FlowSound
<1>3. ASSUME NEW j \in Job, run'[j] = run[j]
      PROVE  RunSound(run[j], later)'
  <2>1. PICK list \in Run : list = run[j]
    BY DEF MultiSigTypeOK
  <2>2. RunSound(list, later)'
    BY <2>1, CarriedStable DEF AllSound
  <2> QED
    BY <1>3, <2>1, <2>2 DEF RunSound
<1> QED
  BY <1>1, <1>2, <1>3

(* A flow ends by writing one row, or by deleting it.                      *)
LEMMA TableWritten ==
  ASSUME MultiSigTypeOK, Grows, NEW origin \in [Tx -> Origin], AllSound(origin),
         NEW f \in Request \cup Task, NEW t \in Tx, NEW row \in Row \cup {NoRow},
         row # NoRow => Sound(t, row, origin)',
         db' = [db EXCEPT ![t] = row], Become(f, Idle),
         UNCHANGED <<created, run, network, now, restarts>>
  PROVE  MultiSigTypeOK' /\ AllSound(origin)'
<1>1. MultiSigTypeOK'
  BY DEF MultiSigTypeOK, Become, Flow, Grows
<1>2. TableSound(origin)'
  <2>1. SUFFICES ASSUME NEW u \in Tx, db'[u] # NoRow
                 PROVE  Sound(u, db[u], origin)'
    BY DEF TableSound
  <2>2. CASE u = t
    BY <2>1, <2>2 DEF MultiSigTypeOK
  <2>3. CASE u # t
    BY <2>1, <2>3, RestStable DEF MultiSigTypeOK
  <2> QED
    BY <2>2, <2>3
<1>3. ASSUME NEW g \in Request \cup Task
      PROVE  FlowSound(flow[g], origin)'
  <2>1. CASE g = f
    BY <2>1 DEF Become, MultiSigTypeOK, FlowSound, Idle
  <2>2. CASE g # f
    BY <2>2, RestStable DEF Become, MultiSigTypeOK
  <2> QED
    BY <2>1, <2>2
<1>4. ASSUME NEW j \in Job
      PROVE  RunSound(run[j], origin)'
  BY RestStable
<1> QED
  BY <1>1, <1>2, <1>3, <1>4 DEF AllSound

-----------------------------------------------------------------------------
(* The actions                                                             *)

(* create adds a sound row: pending, unsigned, asking for at least one     *)
(* signature.  It is added to the function of origins.                     *)
LEMMA CreateSafe ==
  ASSUME MultiSigTypeOK, Grows, NEW origin \in [Tx -> Origin], AllSound(origin),
         NEW t \in Tx, NEW new \in NewRows, Create(t, new)
  PROVE  MultiSigTypeOK' /\ \E later \in [Tx -> Origin] : AllSound(later)'
<1> DEFINE all == Cardinality(new.keys)
           threshold == IF new.threshold = 0 \/ new.threshold > all THEN all
                        ELSE new.threshold
           row == [keys |-> new.keys, threshold |-> threshold, signed |-> {},
                   status |-> "PENDING", start |-> new.start]
           later == [origin EXCEPT ![t] =
                       [keys |-> new.keys, threshold |-> threshold, start |-> new.start]]
<1>1. new.keys \in SUBSET Key /\ new.keys # {} /\ new.threshold \in Nat /\ new.start \in Nat
  BY MultiSigAssumption
<1>2. all \in Nat /\ all > 0
  BY <1>1, SignatureCount
<1>3. threshold \in 1..all
  BY <1>1, <1>2
<1>4. row \in Row
  BY <1>1, <1>2, <1>3 DEF Row, Fields, Status
<1>5. /\ db' = [db EXCEPT ![t] = row] /\ created' = created \cup {t} /\ t \notin created
      /\ UNCHANGED <<flow, run, network, now, restarts, tangled>>
  BY DEF Create
<1>6. MultiSigTypeOK'
  BY <1>4, <1>5 DEF MultiSigTypeOK
<1>7. later \in [Tx -> Origin] /\ \A u \in created : later[u] = origin[u]
  <2>1. threshold \in Nat
    BY <1>2, <1>3
  <2> QED
    BY <1>1, <1>5, <2>1 DEF MultiSigTypeOK, Origin
<1>8. TableSound(later)'
  <2>1. SUFFICES ASSUME NEW u \in Tx, db'[u] # NoRow
                 PROVE  Sound(u, db[u], later)'
    BY DEF TableSound
  <2>2. CASE u = t
    <3>1. /\ db'[u] = row /\ u \in created'
          /\ later[u] = [keys |-> new.keys, threshold |-> threshold, start |-> new.start]
      BY <1>5, <2>2 DEF MultiSigTypeOK
    <3>2. ~(Cardinality({}) >= threshold)
      BY <1>2, <1>3, FS_EmptySet
    <3> HIDE DEF threshold
    <3> QED
      BY <1>4, <3>1, <3>2 DEF Sound, Signed, Agrees
  <2>3. CASE u # t
    <3>1. db'[u] = db[u] /\ db[u] # NoRow
      BY <1>5, <2>1, <2>3 DEF MultiSigTypeOK
    <3> QED
      BY <1>7, <3>1, RestStable
  <2> QED
    BY <2>2, <2>3
<1>9. \A f \in Request \cup Task : FlowSound(flow[f], later)'
  BY <1>5, <1>7, RestStable
<1>10. \A j \in Job : RunSound(run[j], later)'
  BY <1>5, <1>7, RestStable
<1>11. AllSound(later)'
  BY <1>8, <1>9, <1>10 DEF AllSound
<1> QED
  BY <1>6, <1>7, <1>11

(* sign carries a sound row, with one more signature, to its save.         *)
LEMMA SignSafe ==
  ASSUME MultiSigTypeOK, Grows, NEW origin \in [Tx -> Origin], AllSound(origin),
         NEW r \in Request, NEW t \in Tx, NEW key \in Key, Sign(r, t, key)
  PROVE  MultiSigTypeOK' /\ AllSound(origin)'
<1>1. PICK row : row = WithSignature(db[t], key)
  OBVIOUS
<1>2. Sound(t, row, origin)
  BY <1>1, WithSignatureSound DEF Sign, AllSound, TableSound
<1>3. Sound(t, row, origin)'
  BY <1>2, SoundStable
<1>4. PICK code : code = Saving(t, row)
  OBVIOUS
<1>5. code \in Flow /\ FlowSound(code, origin)'
  BY <1>2, <1>3, <1>4 DEF Flow, Saving, FlowSound, Sound
<1>6. Become(r, code)
  BY <1>1, <1>4 DEF Sign
<1>7. UNCHANGED <<db, created, run, network, now, restarts>>
  BY DEF Sign
<1>8. network' \in [Tx -> {"unseen", "success", "failure"}]
  BY <1>7 DEF MultiSigTypeOK
<1> QED
  BY <1>5, <1>6, <1>7, <1>8, FlowMoves

(* delete carries nothing but an id to its delete statement.               *)
LEMMA DeleteSafe ==
  ASSUME MultiSigTypeOK, Grows, NEW origin \in [Tx -> Origin], AllSound(origin),
         NEW r \in Request, NEW t \in Tx, Delete(r, t)
  PROVE  MultiSigTypeOK' /\ AllSound(origin)'
<1>1. PICK code : code = Deleting(t)
  OBVIOUS
<1>2. code \in Flow /\ FlowSound(code, origin)'
  BY <1>1 DEF Flow, Deleting, FlowSound
<1>3. Become(r, code) /\ UNCHANGED <<db, created, run, network, now, restarts>>
  BY <1>1 DEF Delete
<1>4. network' \in [Tx -> {"unseen", "success", "failure"}]
  BY <1>3 DEF MultiSigTypeOK
<1> QED
  BY <1>2, <1>3, <1>4, FlowMoves

(* A select carries the same row on, or ends a save that changes nothing.  *)
LEMMA SelectSafe ==
  ASSUME MultiSigTypeOK, Grows, NEW origin \in [Tx -> Origin], AllSound(origin),
         NEW f \in Request \cup Task, Select(f)
  PROVE  MultiSigTypeOK' /\ AllSound(origin)'
<1>1. PICK t, row : t = flow[f].tx /\ row = flow[f].row
  OBVIOUS
<1>2. flow[f] \in Flow /\ flow[f].step = "save"
  BY DEF Select, MultiSigTypeOK
<1>3. t \in Tx /\ row \in Row
  BY <1>1, <1>2 DEF Flow, Idle
<1>4. Sound(t, row, origin)'
  <2>1. Sound(t, row, origin)
    BY <1>1, <1>2 DEF AllSound, FlowSound
  <2> QED
    BY <1>3, <2>1, SoundStable
<1>5. PICK code : code = IF db[t] = row THEN Idle ELSE Writing(t, row, db[t])
  OBVIOUS
<1>6. code \in Flow /\ FlowSound(code, origin)'
  <2>1. CASE code = Idle
    BY <2>1 DEF Flow, FlowSound, Idle
  <2>2. CASE code = Writing(t, row, db[t])
    <3>1. db[t] \in Row \cup {NoRow}
      BY <1>3 DEF MultiSigTypeOK
    <3> QED
      BY <1>3, <1>4, <2>2, <3>1 DEF Flow, FlowSound, Writing
  <2> QED
    BY <1>5, <2>1, <2>2
<1>7. Become(f, code) /\ UNCHANGED <<db, created, run, network, now, restarts>>
  BY <1>1, <1>5 DEF Select
<1>8. network' \in [Tx -> {"unseen", "success", "failure"}]
  BY <1>7 DEF MultiSigTypeOK
<1> QED
  BY <1>6, <1>7, <1>8, FlowMoves

(* Columns of two sound rows of a transaction make a sound one: its keys,  *)
(* threshold and start are theirs, what its status claims one of them      *)
(* claims, and where changes do not overlap the row found is still there,  *)
(* so that all the columns are those of the entity.                        *)
LEMMA WithChangesSound ==
  ASSUME MultiSigTypeOK, NEW origin \in [Tx -> Origin], NEW t \in Tx,
         NEW current, NEW row, NEW found,
         Sound(t, current, origin), Sound(t, row, origin),
         t \notin tangled => current = found
  PROVE  /\ Sound(t, WithChanges(current, row, found), origin)
         /\ t \notin tangled => WithChanges(current, row, found).signed = row.signed
<1> DEFINE new == WithChanges(current, row, found)
<1>1. /\ current \in Row /\ row \in Row /\ current \in Fields /\ row \in Fields
      /\ current.keys = row.keys /\ current.threshold = row.threshold
      /\ current.start = row.start
  BY DEF Sound, Row
<1>2. /\ new.keys = current.keys /\ new.threshold = current.threshold
      /\ new.start = current.start
      /\ new.signed = IF row.signed # found.signed THEN row.signed ELSE current.signed
      /\ new.status = IF row.status # found.status THEN row.status ELSE current.status
      /\ new \in Fields
  BY <1>1 DEF WithChanges, Fields
<1> HIDE DEF new
<1>3. new \in Row
  BY <1>1, <1>2 DEF Row
<1>4. t \notin tangled => new.signed = row.signed /\ new.status = row.status
  BY <1>2
<1>5. t \notin tangled => Agrees(new)
  BY <1>1, <1>2, <1>4 DEF Sound, Agrees, Signed
<1>6. /\ new.status = "EXECUTED" => network[t] = "success"
      /\ new.status = "EXPIRED" => Late(new)
  BY <1>1, <1>2 DEF Sound, Late
<1>7. /\ Sound(t, new, origin)
      /\ t \notin tangled => new.signed = row.signed
  BY <1>1, <1>2, <1>3, <1>4, <1>5, <1>6 DEF Sound
<1> QED
  BY <1>7 DEF new

(* A crash leaves the table, and nothing that could be unsound.            *)
LEMMA ForgetSafe ==
  ASSUME MultiSigTypeOK, Grows, NEW origin \in [Tx -> Origin], AllSound(origin),
         ForgetEverything, restarts' \in Nat
  PROVE  MultiSigTypeOK' /\ AllSound(origin)'
<1>1. NotRunning \in Run /\ Idle \in Flow
  BY DEF NotRunning, Run, Flow
<1>2. MultiSigTypeOK'
  BY <1>1 DEF MultiSigTypeOK, ForgetEverything, Grows
<1>3. TableSound(origin)'
  BY RestStable DEF ForgetEverything, TableSound
<1>4. \A f \in Request \cup Task : FlowSound(flow[f], origin)'
  BY DEF ForgetEverything, FlowSound, Idle
<1>5. \A j \in Job : RunSound(run[j], origin)'
  BY DEF ForgetEverything, RunSound, NotRunning
<1> QED
  BY <1>2, <1>3, <1>4, <1>5 DEF AllSound

(* A write puts sound columns into the table, or nothing.                  *)
LEMMA WriteSafe ==
  ASSUME MultiSigTypeOK, Untangled, Grows, NEW origin \in [Tx -> Origin], AllSound(origin),
         NEW f \in Request \cup Task, Write(f)
  PROVE  MultiSigTypeOK' /\ AllSound(origin)'
<1>1. PICK t, row, found : t = flow[f].tx /\ row = flow[f].row /\ found = flow[f].found
  OBVIOUS
<1>2. flow[f] \in Flow /\ flow[f].step = "write"
  BY DEF Write, MultiSigTypeOK
<1>3. t \in Tx /\ row \in Row
  BY <1>1, <1>2 DEF Flow, Idle
<1>4. Sound(t, row, origin)
  BY <1>1, <1>2 DEF AllSound, FlowSound
<1>5. CASE found # NoRow /\ db[t] # NoRow
  <2>1. PICK new : new = WithChanges(db[t], row, found)
    OBVIOUS
  <2>2. Sound(t, db[t], origin)
    BY <1>3, <1>5 DEF AllSound, TableSound
  <2>3. t \notin tangled => db[t] = found
    BY <1>1, <1>2, <1>5 DEF Untangled, Grounded
  <2>4. Sound(t, new, origin)
    BY <1>3, <1>4, <2>1, <2>2, <2>3, WithChangesSound
  <2>5. Sound(t, new, origin)' /\ new \in Row
    BY <1>3, <2>4, SoundStable DEF Sound
  <2>6. /\ db' = [db EXCEPT ![t] = new] /\ Become(f, Idle)
        /\ UNCHANGED <<created, run, network, now, restarts>>
    BY <1>1, <1>5, <2>1 DEF Write
  <2> QED
    BY <1>3, <2>5, <2>6, TableWritten
<1>6. CASE found = NoRow /\ db[t] = NoRow
  <2>1. Sound(t, row, origin)'
    BY <1>3, <1>4, SoundStable
  <2>2. /\ db' = [db EXCEPT ![t] = row] /\ Become(f, Idle)
        /\ UNCHANGED <<created, run, network, now, restarts>>
    BY <1>1, <1>6 DEF Write
  <2> QED
    BY <1>3, <2>1, <2>2, TableWritten
<1>7. CASE (found = NoRow) # (db[t] = NoRow)
  <2>1. \/ Become(f, Idle) /\ UNCHANGED <<db, created, run, network, now, restarts>>
        \/ ForgetEverything /\ UNCHANGED restarts
    BY <1>1, <1>7 DEF Write
  <2>2. CASE Become(f, Idle) /\ UNCHANGED <<db, created, run, network, now, restarts>>
    <3>1. PICK code : code = Idle
      OBVIOUS
    <3>2. code \in Flow /\ FlowSound(code, origin)'
      BY <3>1 DEF Flow, FlowSound, Idle
    <3>3. network' \in [Tx -> {"unseen", "success", "failure"}]
      BY <2>2 DEF MultiSigTypeOK
    <3> QED
      BY <2>2, <3>1, <3>2, <3>3, FlowMoves
  <2>3. CASE ForgetEverything /\ UNCHANGED restarts
    BY <2>3, ForgetSafe DEF MultiSigTypeOK
  <2> QED
    BY <2>1, <2>2, <2>3
<1> QED
  BY <1>5, <1>6, <1>7

(* A delete leaves no row.                                                 *)
LEMMA DeleteRowSafe ==
  ASSUME MultiSigTypeOK, Grows, NEW origin \in [Tx -> Origin], AllSound(origin),
         NEW f \in Request, DeleteRow(f)
  PROVE  MultiSigTypeOK' /\ AllSound(origin)'
<1>1. PICK t : t = flow[f].tx
  OBVIOUS
<1>2. flow[f] \in Flow /\ flow[f].step = "delete"
  BY DEF DeleteRow, MultiSigTypeOK
<1>3. t \in Tx
  BY <1>1, <1>2 DEF Flow, Idle
<1>4. /\ db' = [db EXCEPT ![t] = NoRow] /\ Become(f, Idle)
      /\ UNCHANGED <<created, run, network, now, restarts>>
  BY <1>1 DEF DeleteRow
<1> QED
  BY <1>3, <1>4, TableWritten

(* updateStatus carries the row with a status that is earned to its save,  *)
(* or ends the process.                                                    *)
LEMMA UpdateSafe ==
  ASSUME MultiSigTypeOK, Grows, NEW origin \in [Tx -> Origin], AllSound(origin),
         NEW f \in Task, UpdateStatus(f)
  PROVE  MultiSigTypeOK' /\ AllSound(origin)'
<1>1. PICK t, status : t = flow[f].tx /\ status = flow[f].status
  OBVIOUS
<1>2. flow[f] \in Flow /\ flow[f].step = "update"
  BY DEF UpdateStatus, MultiSigTypeOK
<1>3. t \in Tx /\ status \in {"EXECUTED", "ERROR", "EXPIRED"}
  BY <1>1, <1>2 DEF Flow, Idle
<1>4. FlowSound(flow[f], origin)
  BY DEF AllSound
<1>5. /\ status = "EXECUTED" => network[t] = "success"
      /\ status = "EXPIRED" => MayExpire(t, origin)
  BY <1>1, <1>2, <1>4 DEF FlowSound
<1>6. CASE db[t] # NoRow
  <2>1. PICK row : row = [db[t] EXCEPT !.status = status]
    OBVIOUS
  <2>2. Sound(t, db[t], origin)
    BY <1>3, <1>6 DEF AllSound, TableSound
  <2>3. Sound(t, row, origin)
    BY <1>3, <1>5, <2>1, <2>2, WithStatusSound
  <2>4. Sound(t, row, origin)'
    BY <1>3, <2>3, SoundStable
  <2>5. PICK code : code = Saving(t, row)
    OBVIOUS
  <2>6. code \in Flow /\ FlowSound(code, origin)'
    BY <1>3, <2>3, <2>4, <2>5 DEF Flow, Saving, FlowSound, Sound
  <2>7. Become(f, code) /\ UNCHANGED <<db, created, run, network, now, restarts>>
    BY <1>1, <1>6, <2>1, <2>5 DEF UpdateStatus
  <2>8. network' \in [Tx -> {"unseen", "success", "failure"}]
    BY <2>7 DEF MultiSigTypeOK
  <2> QED
    BY <2>6, <2>7, <2>8, FlowMoves
<1>7. CASE db[t] = NoRow
  BY <1>1, <1>7, ForgetSafe DEF UpdateStatus, MultiSigTypeOK
<1> QED
  BY <1>6, <1>7

(* A submission ends with EXECUTED only after the network said success.    *)
LEMMA SubmitSafe ==
  ASSUME MultiSigTypeOK, Grows, NEW origin \in [Tx -> Origin], AllSound(origin),
         NEW f \in Task, Submit(f)
  PROVE  MultiSigTypeOK' /\ AllSound(origin)'
<1>1. PICK t : t = flow[f].tx
  OBVIOUS
<1>2. flow[f] \in Flow /\ flow[f].step = "submit"
  BY DEF Submit, MultiSigTypeOK
<1>3. t \in Tx
  BY <1>1, <1>2 DEF Flow, Idle
<1>4. /\ network' \in [Tx -> {"unseen", "success", "failure"}]
      /\ \E answer \in {"EXECUTED", "ERROR"} :
           /\ Become(f, Updating(t, answer))
           /\ answer = "EXECUTED" => network'[t] = "success"
  BY <1>1, <1>3 DEF Submit, MultiSigTypeOK
<1>5. PICK answer \in {"EXECUTED", "ERROR"} :
        /\ Become(f, Updating(t, answer))
        /\ answer = "EXECUTED" => network'[t] = "success"
  BY <1>4
<1>6. PICK code : code = Updating(t, answer)
  OBVIOUS
<1>7. code \in Flow /\ FlowSound(code, origin)'
  BY <1>3, <1>5, <1>6 DEF Flow, Updating, FlowSound
<1>8. UNCHANGED <<db, created, run, now, restarts>>
  BY DEF Submit
<1> QED
  BY <1>4, <1>5, <1>6, <1>7, <1>8, FlowMoves

(* A run starts with the empty lists the last one left.                    *)
LEMMA StartRunSafe ==
  ASSUME MultiSigTypeOK, Grows, NEW origin \in [Tx -> Origin], AllSound(origin),
         NEW j \in Job, StartRun(j)
  PROVE  MultiSigTypeOK' /\ AllSound(origin)'
<1>1. /\ run' = [run EXCEPT ![j].page = 1]
      /\ UNCHANGED <<db, created, flow, network, now, restarts>>
  BY DEF StartRun
<1>2. MultiSigTypeOK'
  BY <1>1 DEF MultiSigTypeOK, Run, Grows
<1>3. TableSound(origin)'
  BY <1>1, RestStable DEF TableSound
<1>4. \A f \in Request \cup Task : FlowSound(flow[f], origin)'
  BY <1>1, RestStable
<1>5. ASSUME NEW k \in Job
      PROVE  RunSound(run[k], origin)'
  <2>1. CASE k # j
    BY <1>1, <2>1, RestStable DEF MultiSigTypeOK
  <2>2. CASE k = j
    <3>1. /\ run'[j].toSubmit = run[j].toSubmit
          /\ run'[j].toExpire = run[j].toExpire
      BY <1>1 DEF MultiSigTypeOK, Run
    <3>2. PICK list \in Run : list = run[j]
      BY DEF MultiSigTypeOK
    <3>3. RunSound(list, origin)'
      BY <3>2, CarriedStable DEF AllSound
    <3> QED
      BY <2>2, <3>1, <3>2, <3>3 DEF RunSound
  <2> QED
    BY <2>1, <2>2
<1> QED
  BY <1>2, <1>3, <1>4, <1>5 DEF AllSound

(* What a run has listed is sound: signed and in its window, or late.      *)
LEMMA ListedSound ==
  ASSUME MultiSigTypeOK, NEW origin \in [Tx -> Origin], AllSound(origin),
         NEW j \in Job, NEW items \in SUBSET Rows
  PROVE  Listed(j, items) \in Run /\ RunSound(Listed(j, items), origin)
<1> DEFINE list == Listed(j, items)
<1>1. run[j] \in Run /\ RunSound(run[j], origin)
  BY DEF MultiSigTypeOK, AllSound
<1>2. \A t \in items : t \in Tx /\ db[t] # NoRow /\ db[t] \in Row /\ Sound(t, db[t], origin)
  BY DEF Rows, AllSound, TableSound, MultiSigTypeOK
<1>3. /\ list.page = run[j].page + 1
      /\ list.toSubmit = [t \in Tx |-> IF t \in ToSubmit(items) THEN db[t]
                                       ELSE run[j].toSubmit[t]]
      /\ list.toExpire = run[j].toExpire \cup ToExpire(items)
      /\ list = [page |-> list.page, toSubmit |-> list.toSubmit, toExpire |-> list.toExpire]
  BY DEF Listed
<1>4. ToSubmit(items) \subseteq items /\ ToExpire(items) \subseteq items
  BY DEF ToSubmit, ToExpire
<1>5. list \in Run
  <2> HIDE DEF list
  <2> QED
    BY <1>1, <1>2, <1>3, <1>4 DEF Run
<1>6. ASSUME NEW t \in Tx, list.toSubmit[t] # NoRow
      PROVE  /\ Sound(t, list.toSubmit[t], origin)
             /\ t \notin tangled => Signed(list.toSubmit[t])
  <2>1. CASE t \in ToSubmit(items)
    <3>1. list.toSubmit[t] = db[t] /\ db[t].status = "SIGNED"
      BY <1>3, <2>1 DEF ToSubmit
    <3> QED
      BY <1>2, <1>4, <2>1, <3>1 DEF Sound, Agrees
  <2>2. CASE t \notin ToSubmit(items)
    <3>1. list.toSubmit[t] = run[j].toSubmit[t]
      BY <1>3, <2>2
    <3> HIDE DEF list
    <3> QED
      BY <1>1, <1>6, <3>1 DEF RunSound
  <2> QED
    BY <2>1, <2>2
<1>7. ASSUME NEW t \in list.toExpire
      PROVE  MayExpire(t, origin)
  <2>1. CASE t \in ToExpire(items)
    BY <1>2, <1>4, <2>1 DEF ToExpire, Sound, Late, MayExpire
  <2>2. CASE t \in run[j].toExpire
    BY <1>1, <2>2 DEF RunSound
  <2> QED
    BY <1>3, <1>7, <2>1, <2>2
<1> QED
  <2> HIDE DEF list
  <2>1. list \in Run /\ RunSound(list, origin)
    BY <1>5, <1>6, <1>7 DEF RunSound
  <2> QED
    BY <2>1 DEF list

(* The tasks a finished list becomes are sound.                            *)
LEMMA SpawnedSound ==
  ASSUME MultiSigTypeOK, NEW origin \in [Tx -> Origin], NEW list \in Run,
         RunSound(list, origin), NEW t \in Tx,
         NEW code, code = IF list.toSubmit[t] # NoRow THEN Submitting(t, list.toSubmit[t])
                          ELSE IF t \in list.toExpire THEN Updating(t, "EXPIRED")
                          ELSE Idle
  PROVE  code \in Flow /\ FlowSound(code, origin)
<1>1. CASE list.toSubmit[t] # NoRow
  <2>1. PICK row : row = list.toSubmit[t]
    OBVIOUS
  <2>2. row \in Row /\ Sound(t, row, origin) /\ (t \notin tangled => Signed(row))
    BY <1>1, <2>1 DEF Run, RunSound
  <2>3. code = Submitting(t, row)
    BY <1>1, <2>1
  <2> QED
    BY <2>2, <2>3 DEF Flow, Submitting, FlowSound
<1>2. CASE list.toSubmit[t] = NoRow /\ t \in list.toExpire
  BY <1>2 DEF Flow, Updating, FlowSound, RunSound
<1>3. CASE list.toSubmit[t] = NoRow /\ t \notin list.toExpire
  BY <1>3 DEF Flow, Idle, FlowSound
<1> QED
  BY <1>1, <1>2, <1>3

(* A run reads a page, or reads the last one and starts its tasks.         *)
LEMMA ListPageSafe ==
  ASSUME MultiSigTypeOK, Grows, NEW origin \in [Tx -> Origin], AllSound(origin),
         NEW j \in Job, ListPage(j)
  PROVE  MultiSigTypeOK' /\ AllSound(origin)'
<1>1. PICK items \in ItemsOf(run[j].page) :
        LET listed == Listed(j, items)
        IN \/ /\ run' = [run EXCEPT ![j] = listed]
              /\ UNCHANGED flow
           \/ /\ run' = [run EXCEPT ![j] = NotRunning]
              /\ flow' = [f \in Request \cup Task |->
                   IF f \notin {<<j, t>> : t \in Tx} THEN flow[f]
                   ELSE IF listed.toSubmit[f[2]] # NoRow
                          THEN Submitting(f[2], listed.toSubmit[f[2]])
                   ELSE IF f[2] \in listed.toExpire THEN Updating(f[2], "EXPIRED")
                   ELSE Idle]
  BY DEF ListPage
<1>2. items \in SUBSET Rows
  BY DEF ItemsOf
<1>3. PICK list : list = Listed(j, items)
  OBVIOUS
<1>4. list \in Run /\ RunSound(list, origin)
  BY <1>2, <1>3, ListedSound
<1>5. RunSound(list, origin)'
  BY <1>4, CarriedStable
<1>6. UNCHANGED <<db, created, network, now, restarts>>
  BY DEF ListPage
<1>7. TableSound(origin)'
  BY <1>6, RestStable DEF TableSound
<1>8. NotRunning \in Run /\ RunSound(NotRunning, origin)'
  BY DEF NotRunning, Run, RunSound
<1>9. PICK own \in Run : run' = [run EXCEPT ![j] = own] /\ RunSound(own, origin)'
  <2>1. CASE run' = [run EXCEPT ![j] = list]
    BY <1>4, <1>5, <2>1
  <2>2. CASE run' = [run EXCEPT ![j] = NotRunning]
    BY <1>8, <2>2
  <2> QED
    BY <1>1, <1>3, <2>1, <2>2
<1>10. ASSUME NEW k \in Job
       PROVE  RunSound(run[k], origin)'
  <2>1. CASE k = j
    <3>1. run'[k] = own
      BY <1>9, <2>1 DEF MultiSigTypeOK
    <3> QED
      BY <1>9, <3>1 DEF RunSound
  <2>2. CASE k # j
    BY <1>9, <2>2, RestStable DEF MultiSigTypeOK
  <2> QED
    BY <2>1, <2>2
<1>11. ASSUME NEW f \in Request \cup Task
       PROVE  flow'[f] \in Flow /\ FlowSound(flow[f], origin)'
  <2>1. CASE flow'[f] = flow[f]
    BY <2>1, RestStable DEF MultiSigTypeOK
  <2>2. CASE flow'[f] # flow[f]
    <3>1. f \in {<<j, t>> : t \in Tx}
      BY <1>1, <2>2 DEF MultiSigTypeOK
    <3>2. PICK t \in Tx : f = <<j, t>>
      BY <3>1
    <3>3. PICK code : code = IF list.toSubmit[t] # NoRow
                               THEN Submitting(t, list.toSubmit[t])
                             ELSE IF t \in list.toExpire THEN Updating(t, "EXPIRED")
                             ELSE Idle
      OBVIOUS
    <3>4. f[2] = t
      BY <3>2
    <3>5. flow'[f] = code
      BY <1>1, <1>3, <2>2, <3>1, <3>3, <3>4
    <3>6. code \in Flow /\ FlowSound(code, origin)
      BY <1>4, <3>3, SpawnedSound
    <3>7. FlowSound(code, origin)'
      BY <3>6, CarriedStable
    <3> QED
      BY <3>5, <3>6, <3>7 DEF FlowSound
  <2> QED
    BY <2>1, <2>2
<1>12. flow' \in [Request \cup Task -> Flow]
  <2>1. flow' = [f \in Request \cup Task |-> flow'[f]]
    BY <1>1 DEF MultiSigTypeOK
  <2> QED
    BY <1>11, <2>1
<1>13. MultiSigTypeOK'
  BY <1>6, <1>9, <1>12 DEF MultiSigTypeOK, Grows
<1> QED
  BY <1>7, <1>10, <1>11, <1>13 DEF AllSound

(* The clock ticks.                                                        *)
LEMMA TickSafe ==
  ASSUME MultiSigTypeOK, Grows, NEW origin \in [Tx -> Origin], AllSound(origin), Tick
  PROVE  MultiSigTypeOK' /\ AllSound(origin)'
<1>1. now' = now + 1 /\ UNCHANGED <<db, created, flow, run, network, restarts>>
  BY DEF Tick
<1>2. MultiSigTypeOK'
  BY <1>1 DEF MultiSigTypeOK, Grows
<1>3. TableSound(origin)'
  BY <1>1, RestStable DEF TableSound
<1> QED
  BY <1>1, <1>2, <1>3, RestStable DEF AllSound

-----------------------------------------------------------------------------
(* Overlapping changes                                                     *)

(* Nothing gets tangled by a step that begins no change and leaves the row *)
(* of every change under way as it was, or without one.                    *)
LEMMA StillUntangled ==
  ASSUME MultiSigTypeOK, Untangled, Grows,
         \A f \in Request \cup Task :
           \/ flow'[f].step \notin {"save", "write"}
           \/ /\ flow'[f] = flow[f]
              /\ flow[f].step \in {"save", "write"} /\ flow[f].tx \notin tangled
                   => db'[flow[f].tx] \in {db[flow[f].tx], NoRow}
  PROVE  Untangled'
<1>1. ASSUME NEW f \in Request \cup Task, NEW g \in Request \cup Task, NEW t \in Tx,
             f # g, Changing(f, t)', Changing(g, t)'
      PROVE  t \in tangled'
  <2>1. Changing(f, t) /\ Changing(g, t)
    BY <1>1 DEF Changing
  <2> QED
    BY <1>1, <2>1 DEF Untangled, Grows
<1>2. ASSUME NEW f \in Request \cup Task
      PROVE  Grounded(flow[f])'
  <2>1. CASE flow'[f].step \notin {"save", "write"}
    BY <2>1 DEF Grounded
  <2>2. CASE /\ flow'[f] = flow[f]
             /\ flow[f].step \in {"save", "write"} /\ flow[f].tx \notin tangled
                  => db'[flow[f].tx] \in {db[flow[f].tx], NoRow}
    <3>1. Grounded(flow[f])
      BY DEF Untangled
    <3> QED
      BY <2>2, <3>1 DEF Grounded, Grows
  <2> QED
    BY <2>1, <2>2
<1> QED
  BY <1>1, <1>2 DEF Untangled

(* A change begins with what was just read, or the transaction is tangled. *)
LEMMA BegunUntangled ==
  ASSUME MultiSigTypeOK, Untangled, Grows, NEW f \in Request \cup Task, NEW t \in Tx,
         NEW row, db[t].signed \subseteq row.signed,
         Become(f, Saving(t, row)), BeginChange(f, t), UNCHANGED db
  PROVE  Untangled'
<1>1. /\ flow'[f] = Saving(t, row)
      /\ \A g \in Request \cup Task : g # f => flow'[g] = flow[g]
  BY DEF Become, MultiSigTypeOK
<1>2. ASSUME NEW g \in Request \cup Task, g # f, Changing(g, t)
      PROVE  t \in tangled'
  BY <1>2 DEF BeginChange
<1>3. ASSUME NEW g \in Request \cup Task, NEW h \in Request \cup Task, NEW u \in Tx,
             g # h, Changing(g, u)', Changing(h, u)'
      PROVE  u \in tangled'
  <2>1. CASE g # f /\ h # f
    <3>1. Changing(g, u) /\ Changing(h, u)
      BY <1>1, <1>3, <2>1 DEF Changing
    <3> QED
      BY <1>3, <3>1 DEF Untangled, Grows
  <2>2. ASSUME NEW other \in Request \cup Task, other # f,
               Changing(f, u)', Changing(other, u)'
        PROVE  u \in tangled'
    <3>1. u = t /\ Changing(other, t)
      BY <1>1, <2>2 DEF Changing, Saving
    <3> QED
      BY <1>2, <2>2, <3>1
  <2> QED
    BY <1>3, <2>1, <2>2
<1>4. ASSUME NEW g \in Request \cup Task
      PROVE  Grounded(flow[g])'
  <2>1. CASE g = f
    BY <1>1, <2>1 DEF Grounded, Saving
  <2>2. CASE g # f
    <3>1. Grounded(flow[g])
      BY DEF Untangled
    <3> QED
      BY <1>1, <2>2, <3>1 DEF Grounded, Grows
  <2> QED
    BY <2>1, <2>2
<1> QED
  BY <1>3, <1>4 DEF Untangled

(* A select finds the row as it was read.                                  *)
LEMMA SelectUntangled ==
  ASSUME MultiSigTypeOK, Untangled, Grows, NEW f \in Request \cup Task, Select(f)
  PROVE  Untangled'
<1>1. PICK t, row : t = flow[f].tx /\ row = flow[f].row
  OBVIOUS
<1>2. /\ flow[f].step = "save" /\ UNCHANGED <<db, tangled>>
      /\ flow'[f] = IF db[t] = row THEN Idle ELSE Writing(t, row, db[t])
      /\ \A g \in Request \cup Task : g # f => flow'[g] = flow[g]
  BY <1>1 DEF Select, Become, MultiSigTypeOK
<1>3. ASSUME NEW g \in Request \cup Task, NEW u \in Tx, Changing(g, u)'
      PROVE  Changing(g, u)
  BY <1>1, <1>2, <1>3 DEF Changing, Idle, Writing
<1>4. ASSUME NEW g \in Request \cup Task
      PROVE  Grounded(flow[g])'
  <2>1. Grounded(flow[g])
    BY DEF Untangled
  <2>2. CASE g = f
    BY <1>1, <1>2, <2>1, <2>2 DEF Grounded, Idle, Writing
  <2>3. CASE g # f
    BY <1>2, <2>1, <2>3 DEF Grounded
  <2> QED
    BY <2>2, <2>3
<1> QED
  BY <1>2, <1>3, <1>4 DEF Untangled

(* A write touches one row, and no other change of it is under way unless  *)
(* it is tangled.                                                          *)
LEMMA WriteUntangled ==
  ASSUME MultiSigTypeOK, Untangled, Grows, NEW f \in Request \cup Task, Write(f)
  PROVE  Untangled'
<1>1. CASE ForgetEverything
  BY <1>1, StillUntangled DEF ForgetEverything, Idle
<1>2. CASE Become(f, Idle)
  <2>1. flow[f] \in Flow /\ flow[f].step = "write"
    BY DEF Write, MultiSigTypeOK
  <2>2. PICK t \in Tx : t = flow[f].tx
    BY <2>1 DEF Flow, Idle
  <2>3. \A u \in Tx : u # t => db'[u] = db[u]
    BY <1>2, <2>2 DEF Write, MultiSigTypeOK, ForgetEverything
  <2>4. flow'[f] = Idle /\ \A g \in Request \cup Task : g # f => flow'[g] = flow[g]
    BY <1>2 DEF Become, MultiSigTypeOK
  <2>5. ASSUME NEW g \in Request \cup Task, g # f,
               flow[g].step \in {"save", "write"}, flow[g].tx \notin tangled
        PROVE  db'[flow[g].tx] = db[flow[g].tx]
    <3>1. flow[g].tx \in Tx
      BY <2>5 DEF MultiSigTypeOK, Flow, Idle
    <3>2. flow[g].tx # t
      BY <2>1, <2>2, <2>5 DEF Untangled, Changing
    <3> QED
      BY <2>3, <3>1, <3>2
  <2> QED
    BY <2>4, <2>5, StillUntangled DEF Idle
<1> QED
  BY <1>1, <1>2 DEF Write

(* No other step begins a change, and none but a new id gets a row.        *)
LEMMA NextUntangled ==
  ASSUME MultiSigTypeOK, Untangled, Grows, NEW origin \in [Tx -> Origin], AllSound(origin),
         Next
  PROVE  Untangled'
<1>1. ASSUME NEW t \in Tx, NEW new \in NewRows, Create(t, new)
      PROVE  Untangled'
  <2>1. /\ t \notin created /\ UNCHANGED flow
        /\ \A u \in Tx : u # t => db'[u] = db[u]
    BY <1>1 DEF Create, MultiSigTypeOK
  <2>2. ASSUME NEW f \in Request \cup Task, flow[f].step \in {"save", "write"}
        PROVE  db'[flow[f].tx] = db[flow[f].tx]
    <3>1. flow[f].tx \in Tx
      BY <2>2 DEF MultiSigTypeOK, Flow, Idle
    <3>2. flow[f].tx \in created
      BY <2>2 DEF AllSound, FlowSound, Sound
    <3> QED
      BY <2>1, <3>1, <3>2
  <2> QED
    BY <2>1, <2>2, StillUntangled
<1>2. ASSUME NEW r \in Signer, SignerNext(r)
      PROVE  Untangled'
  <2>1. r \in Request
    BY DEF Request
  <2>2. ASSUME NEW t \in Tx, NEW key \in Key, Sign(r, t, key)
        PROVE  Untangled'
    <3>1. PICK row : row = WithSignature(db[t], key)
      OBVIOUS
    <3>2. db[t] \in Fields
      BY <2>2 DEF Sign, MultiSigTypeOK, Row
    <3>3. db[t].signed \subseteq row.signed
      BY <3>1, <3>2 DEF WithSignature, Fields
    <3> QED
      BY <2>1, <2>2, <3>1, <3>3, BegunUntangled DEF Sign
  <2> QED
    BY <1>2, <2>1, <2>2, SelectUntangled, WriteUntangled DEF SignerNext
<1>3. ASSUME NEW r \in Deleter, DeleterNext(r)
      PROVE  Untangled'
  <2>1. r \in Request
    BY DEF Request
  <2>2. /\ \A f \in Request \cup Task : flow'[f] = flow[f] \/ flow'[f].step \in {"idle", "delete"}
        /\ \A u \in Tx : db'[u] \in {db[u], NoRow}
    BY <1>3, <2>1
      DEF DeleterNext, Delete, DeleteRow, Become, MultiSigTypeOK, Idle, Deleting
  <2>3. ASSUME NEW f \in Request \cup Task, flow[f].step \in {"save", "write"}
        PROVE  flow[f].tx \in Tx
    BY <2>3 DEF MultiSigTypeOK, Flow, Idle
  <2> QED
    BY <2>2, <2>3, StillUntangled
<1>4. ASSUME NEW j \in Job, StartRun(j) \/ ListPage(j)
      PROVE  Untangled'
  <2>1. UNCHANGED db
    BY <1>4 DEF StartRun, ListPage
  <2>2. ASSUME NEW f \in Request \cup Task
        PROVE  flow'[f] = flow[f] \/ flow'[f].step \in {"idle", "submit", "update"}
    <3>1. CASE UNCHANGED flow
      BY <3>1
    <3>2. CASE \E listed : flow' = [g \in Request \cup Task |->
                   IF g \notin {<<j, t>> : t \in Tx} THEN flow[g]
                   ELSE IF listed.toSubmit[g[2]] # NoRow
                          THEN Submitting(g[2], listed.toSubmit[g[2]])
                   ELSE IF g[2] \in listed.toExpire THEN Updating(g[2], "EXPIRED")
                   ELSE Idle]
      BY <3>2 DEF Submitting, Updating, Idle
    <3> QED
      BY <1>4, <3>1, <3>2 DEF StartRun, ListPage
  <2> QED
    BY <2>1, <2>2, StillUntangled
<1>5. ASSUME NEW task \in Task, TaskNext(task)
      PROVE  Untangled'
  <2>1. CASE Submit(task)
    <3>1. UNCHANGED db /\ \A f \in Request \cup Task : f # task => flow'[f] = flow[f]
      BY <2>1 DEF Submit, Become, MultiSigTypeOK
    <3>2. flow'[task].step = "update"
      BY <2>1 DEF Submit, Become, Updating, MultiSigTypeOK
    <3> QED
      BY <3>1, <3>2, StillUntangled
  <2>2. CASE UpdateStatus(task)
    <3>1. CASE ForgetEverything
      BY <3>1, StillUntangled DEF ForgetEverything, Idle
    <3>2. CASE /\ db[flow[task].tx] # NoRow
               /\ Become(task, Saving(flow[task].tx,
                                      [db[flow[task].tx] EXCEPT !.status = flow[task].status]))
               /\ BeginChange(task, flow[task].tx) /\ UNCHANGED db
      <4>1. flow[task] \in Flow /\ flow[task].step = "update"
        BY <2>2 DEF UpdateStatus, MultiSigTypeOK
      <4>2. PICK t \in Tx : t = flow[task].tx
        BY <4>1 DEF Flow, Idle
      <4>3. PICK row : row = [db[t] EXCEPT !.status = flow[task].status]
        OBVIOUS
      <4>4. db[t] \in Fields
        BY <3>2, <4>2 DEF MultiSigTypeOK, Row
      <4>5. db[t].signed \subseteq row.signed
        BY <4>3, <4>4 DEF Fields
      <4> QED
        BY <3>2, <4>2, <4>3, <4>5, BegunUntangled
    <3> QED
      BY <2>2, <3>1, <3>2 DEF UpdateStatus
  <2> QED
    BY <1>5, <2>1, <2>2, SelectUntangled, WriteUntangled DEF TaskNext
<1>6. CASE Restart
  BY <1>6, StillUntangled DEF Restart, ForgetEverything, Idle
<1>7. CASE Tick
  BY <1>7, StillUntangled DEF Tick
<1> QED
  BY <1>1, <1>2, <1>3, <1>4, <1>5, <1>6, <1>7 DEF Next

-----------------------------------------------------------------------------
(* The invariant                                                           *)

(* The empty table, with no code running, is sound.                        *)
LEMMA InitInv == Init => Inv
<1> SUFFICES ASSUME Init PROVE Inv
  OBVIOUS
<1>1. NotRunning \in Run /\ Idle \in Flow
  BY DEF NotRunning, Run, Flow
<1>2. MultiSigTypeOK
  BY <1>1 DEF Init, MultiSigTypeOK
<1>3. PICK origin \in [Tx -> Origin] :
        origin = [t \in Tx |-> [keys |-> {}, threshold |-> 0, start |-> 0]]
  BY DEF Origin
<1>4. AllSound(origin)
  BY DEF Init, AllSound, TableSound, FlowSound, RunSound, Idle, NotRunning
<1>5. Untangled
  BY DEF Init, Untangled, Changing, Grounded, Idle
<1> QED
  BY <1>2, <1>3, <1>4, <1>5 DEF Inv

(* Every step keeps the invariant, whatever the code was waiting for.      *)
LEMMA NextInv == Inv /\ [Next]_vars => Inv'
<1> SUFFICES ASSUME Inv, [Next]_vars PROVE Inv'
  OBVIOUS
<1>1. MultiSigTypeOK /\ Untangled
  BY DEF Inv
<1>2. PICK origin \in [Tx -> Origin] : AllSound(origin)
  BY DEF Inv
<1>3. CASE Next
  <2>1. Grows
    BY <1>1, <1>3, StepGrows
  <2>2. Untangled'
    BY <1>1, <1>2, <1>3, <2>1, NextUntangled
  <2>3. ASSUME NEW t \in Tx, NEW new \in NewRows, Create(t, new)
        PROVE  Inv'
    <3>1. MultiSigTypeOK' /\ \E later \in [Tx -> Origin] : AllSound(later)'
      BY <1>1, <1>2, <2>1, <2>3, CreateSafe
    <3> QED
      BY <2>2, <3>1 DEF Inv
  <2>4. SUFFICES (MultiSigTypeOK' /\ AllSound(origin)') \/ Inv'
    BY <2>2 DEF Inv
  <2>5. ASSUME NEW r \in Signer, SignerNext(r)
        PROVE  MultiSigTypeOK' /\ AllSound(origin)'
    <3>1. r \in Request
      BY DEF Request
    <3>2. CASE \E t \in Tx, key \in Key : Sign(r, t, key)
      BY <1>1, <1>2, <2>1, <3>1, <3>2, SignSafe
    <3>3. CASE Select(r)
      BY <1>1, <1>2, <2>1, <3>1, <3>3, SelectSafe
    <3>4. CASE Write(r)
      BY <1>1, <1>2, <2>1, <3>1, <3>4, WriteSafe
    <3> QED
      BY <2>5, <3>2, <3>3, <3>4 DEF SignerNext
  <2>6. ASSUME NEW r \in Deleter, DeleterNext(r)
        PROVE  MultiSigTypeOK' /\ AllSound(origin)'
    <3>1. r \in Request
      BY DEF Request
    <3> QED
      BY <1>1, <1>2, <2>1, <2>6, <3>1, DeleteSafe, DeleteRowSafe DEF DeleterNext
  <2>7. ASSUME NEW j \in Job, StartRun(j) \/ ListPage(j)
        PROVE  MultiSigTypeOK' /\ AllSound(origin)'
    BY <1>1, <1>2, <2>1, <2>7, StartRunSafe, ListPageSafe
  <2>8. ASSUME NEW task \in Task, TaskNext(task)
        PROVE  MultiSigTypeOK' /\ AllSound(origin)'
    <3>1. CASE Submit(task)
      BY <1>1, <1>2, <2>1, <3>1, SubmitSafe
    <3>2. CASE UpdateStatus(task)
      BY <1>1, <1>2, <2>1, <3>2, UpdateSafe
    <3>3. CASE Select(task)
      BY <1>1, <1>2, <2>1, <3>3, SelectSafe
    <3>4. CASE Write(task)
      BY <1>1, <1>2, <2>1, <3>4, WriteSafe
    <3> QED
      BY <2>8, <3>1, <3>2, <3>3, <3>4 DEF TaskNext
  <2>9. ASSUME Restart
        PROVE  MultiSigTypeOK' /\ AllSound(origin)'
    BY <1>1, <1>2, <2>1, <2>9, ForgetSafe DEF Restart, MultiSigTypeOK
  <2>10. ASSUME Tick
        PROVE  MultiSigTypeOK' /\ AllSound(origin)'
    BY <1>1, <1>2, <2>1, <2>10, TickSafe
  <2> QED
    BY <1>3, <2>3, <2>5, <2>6, <2>7, <2>8, <2>9, <2>10 DEF Next
<1>4. CASE UNCHANGED vars
  <2>1. Grows
    BY <1>1, <1>4 DEF vars, Grows, MultiSigTypeOK
  <2>2. AllSound(origin)'
    BY <1>1, <1>2, <1>4, <2>1, RestStable DEF vars, AllSound, TableSound
  <2>3. MultiSigTypeOK'
    BY <1>1, <1>4 DEF vars, MultiSigTypeOK
  <2>4. Untangled'
    BY <1>1, <1>4 DEF vars, Untangled, Changing, Grounded
  <2> QED
    BY <2>2, <2>3, <2>4 DEF Inv
<1> QED
  BY <1>3, <1>4

(* The invariant holds in every state of every behaviour.                  *)
THEOREM Invariance == Spec => []Inv
  BY InitInv, NextInv, PTL DEF Spec

(* Every variable keeps its type: a row never asks for more signatures     *)
(* than it has keys, nor for none, whatever request created it.            *)
THEOREM TypeCorrect == Spec => []MultiSigTypeOK
<1>1. Inv => MultiSigTypeOK
  BY DEF Inv
<1> QED
  BY <1>1, Invariance, PTL

(* Where changes do not overlap, the status of a row agrees with its       *)
(* signatures (sign, updateStatus, save).                                  *)
THEOREM StatusCorrect == Spec => []StatusTellsSignatures
<1>1. Inv => StatusTellsSignatures
  BY DEF Inv, AllSound, TableSound, Sound, Agrees, StatusTellsSignatures
<1> QED
  BY <1>1, Invariance, PTL

(* Nor does the job send such a row to the network with too few signatures.*)
THEOREM SubmissionsCorrect == Spec => []SubmissionsAreSigned
<1>1. Inv => SubmissionsAreSigned
  BY DEF Inv, AllSound, FlowSound, SubmissionsAreSigned
<1> QED
  BY <1>1, Invariance, PTL

(* And no save of such a row loses a signature (WithChanges).              *)
THEOREM SignaturesCorrect == Spec => SignaturesAreKept
<1> DEFINE Kept == \A t \in Tx : db[t] # NoRow /\ db'[t] # NoRow /\ t \notin tangled'
                     => db[t].signed \subseteq db'[t].signed
<1>1. Inv /\ [Next]_vars => [Kept]_vars
  <2> SUFFICES ASSUME Inv, Next PROVE Kept
    BY DEF Inv
  <2>1. MultiSigTypeOK /\ Untangled
    BY DEF Inv
  <2>2. PICK origin \in [Tx -> Origin] : AllSound(origin)
    BY DEF Inv
  <2>3. ASSUME NEW t \in Tx, NEW new \in NewRows, Create(t, new)
        PROVE  Kept
    <3>1. db[t] = NoRow
      BY <2>2, <2>3 DEF Create, AllSound, TableSound, Sound
    <3>2. \A u \in Tx : u # t => db'[u] = db[u]
      BY <2>1, <2>3 DEF Create, MultiSigTypeOK
    <3> QED
      BY <3>1, <3>2
  <2>4. ASSUME NEW f \in Request \cup Task, Write(f)
        PROVE  Kept
    <3>1. PICK t, row, found : t = flow[f].tx /\ row = flow[f].row /\ found = flow[f].found
      OBVIOUS
    <3>2. flow[f] \in Flow /\ flow[f].step = "write"
      BY <2>1, <2>4 DEF Write, MultiSigTypeOK
    <3>3. t \in Tx /\ tangled' = tangled
      BY <2>4, <3>1, <3>2 DEF Flow, Idle, Write, ForgetEverything
    <3>4. CASE db[t] # NoRow /\ db' = [db EXCEPT ![t] = WithChanges(@, row, found)]
      <4>1. Sound(t, row, origin) /\ Sound(t, db[t], origin)
        BY <2>2, <3>1, <3>2, <3>3, <3>4 DEF AllSound, FlowSound, TableSound
      <4>2. t \notin tangled => db[t] = found /\ found.signed \subseteq row.signed
        BY <2>1, <3>1, <3>2, <3>4 DEF Untangled, Grounded
      <4>3. t \notin tangled => db[t].signed \subseteq WithChanges(db[t], row, found).signed
        BY <2>1, <3>3, <4>1, <4>2, WithChangesSound
      <4> QED
        BY <2>1, <3>3, <3>4, <4>3 DEF MultiSigTypeOK
    <3>5. CASE UNCHANGED db
      BY <3>5
    <3>6. CASE db[t] = NoRow /\ db' = [db EXCEPT ![t] = row]
      BY <2>1, <3>3, <3>6 DEF MultiSigTypeOK
    <3> QED
      BY <2>4, <3>1, <3>4, <3>5, <3>6 DEF Write, ForgetEverything
  <2>5. ASSUME NEW r \in Deleter, DeleterNext(r)
        PROVE  Kept
    <3>1. \A u \in Tx : db'[u] \in {db[u], NoRow}
      BY <2>1, <2>5 DEF DeleterNext, Delete, DeleteRow, MultiSigTypeOK
    <3> QED
      BY <3>1
  <2>6. ASSUME NEW r \in Signer, SignerNext(r)
        PROVE  Kept
    <3>1. CASE Write(r)
      BY <2>4, <3>1 DEF Request
    <3>2. CASE UNCHANGED db
      BY <3>2
    <3> QED
      BY <2>6, <3>1, <3>2 DEF SignerNext, Sign, Select
  <2>7. ASSUME NEW task \in Task, TaskNext(task)
        PROVE  Kept
    <3>1. CASE Write(task)
      BY <2>4, <3>1
    <3>2. CASE UNCHANGED db
      BY <3>2
    <3> QED
      BY <2>7, <3>1, <3>2 DEF TaskNext, Submit, UpdateStatus, ForgetEverything, Select
  <2>8. CASE \/ \E j \in Job : StartRun(j) \/ ListPage(j)
             \/ Restart \/ Tick
    <3>1. UNCHANGED db
      BY <2>8 DEF StartRun, ListPage, Restart, Tick, ForgetEverything
    <3> QED
      BY <3>1
  <2> QED
    BY <2>3, <2>5, <2>6, <2>7, <2>8 DEF Next
<1> QED
  BY <1>1, Invariance, PTL DEF Spec, SignaturesAreKept

(* What the table calls EXECUTED, the network executed.                    *)
THEOREM ExecutedCorrect == Spec => []ExecutedIsTrue
<1>1. Inv => ExecutedIsTrue
  BY DEF Inv, AllSound, TableSound, Sound, ExecutedIsTrue
<1> QED
  BY <1>1, Invariance, PTL

(* What the table calls EXPIRED is past its window.                        *)
THEOREM ExpiredCorrect == Spec => []ExpiredAfterWindow
<1>1. Inv => ExpiredAfterWindow
  BY DEF Inv, AllSound, TableSound, Sound, ExpiredAfterWindow
<1> QED
  BY <1>1, Invariance, PTL
=============================================================================

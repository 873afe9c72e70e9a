------------------------- MODULE RoleRegistryProofs -------------------------
(***************************************************************************)
(* The role registry, for any accounts, roles and call data: the arrays    *)
(* and the positions stay two views of one set, an administrator is always *)
(* left, and the loops of a transaction amount to one atomic grant or      *)
(* revocation, or to nothing.                                              *)
(*                                                                         *)
(* The invariant says the first two of the storage and also of the copy a  *)
(* revert goes back to.  For the last it says how far the loops of the     *)
(* running transaction are: the members are those of that copy, with or    *)
(* without the pairs of role and account gone through so far.              *)
(***************************************************************************)
EXTENDS RoleRegistry, SequenceTheorems, TLAPS

(* The array and the member data of one role are two views of one set.     *)
TwoViews(list, mem) ==
  /\ \A a \in Account : mem[a].active =>
       /\ mem[a].pos < Len(list)
       /\ list[mem[a].pos + 1] = a
  /\ \A k \in 1..Len(list) :
       /\ mem[list[k]].active
       /\ mem[list[k]].pos = k - 1

(* Storage a transaction may start from or a revert go back to.            *)
StorageOK(acc, mem) ==
  /\ acc \in [Role -> Seq(Account)]
  /\ mem \in [Role -> [Account -> MemberData]]
  /\ \A r \in Role : TwoViews(acc[r], mem[r])
  /\ acc[ADMIN_ROLE] # <<>>

(* The counters are in the loops or just past their end.                   *)
CountersOK ==
  /\ tx.i \in 1..(Len(tx.roles) + 1)
  /\ tx.j = 1 \/ tx.j <= Len(tx.accts)
  /\ tx.j >= 1

(* The running transaction has been through the pair of role and account.  *)
Processed(role, account) ==
  \E x \in 1..Len(tx.roles), y \in 1..Len(tx.accts) :
    /\ tx.roles[x] = role /\ tx.accts[y] = account
    /\ x < tx.i \/ (x = tx.i /\ y < tx.j)

(* What the running transaction has made of the members.                   *)
SoFar ==
  \A r \in Role, a \in Account :
    members[r][a].active <=>
      \/ tx.op = "grant" /\ (tx.savedMembers[r][a].active \/ Processed(r, a))
      \/ tx.op = "revoke" /\ tx.savedMembers[r][a].active /\ ~Processed(r, a)

TransactionOK ==
  /\ StorageOK(tx.savedAccounts, tx.savedMembers)
  /\ CountersOK
  /\ SoFar

Inv ==
  /\ StorageOK(accounts, members)
  /\ tx \in Transaction \cup {Idle}
  /\ Running => TransactionOK

-----------------------------------------------------------------------------
(* One role                                                                *)

(* Pushing an account that is no member keeps the two views together.      *)
LEMMA PushKeepsViews ==
  ASSUME NEW list \in Seq(Account), NEW mem \in [Account -> MemberData],
         TwoViews(list, mem), NEW account \in Account, ~mem[account].active
  PROVE  LET pushed == [mem EXCEPT ![account] = [active |-> TRUE, pos |-> Len(list)]]
         IN  /\ Append(list, account) \in Seq(Account)
             /\ pushed \in [Account -> MemberData]
             /\ TwoViews(Append(list, account), pushed)
             /\ \A a \in Account : pushed[a].active <=> mem[a].active \/ a = account
<1> DEFINE longer == Append(list, account)
           pushed == [mem EXCEPT ![account] = [active |-> TRUE, pos |-> Len(list)]]
<1>1. /\ longer \in Seq(Account)
      /\ Len(longer) = Len(list) + 1
      /\ longer[Len(list) + 1] = account
      /\ \A k \in 1..Len(list) : longer[k] = list[k]
  OBVIOUS
<1>2. Len(list) \in Nat
  OBVIOUS
<1>3. pushed \in [Account -> MemberData]
  BY <1>2 DEF MemberData
<1>4. /\ pushed[account].active /\ pushed[account].pos = Len(list)
      /\ \A a \in Account \ {account} : pushed[a] = mem[a]
  OBVIOUS
<1>5. \A k \in 1..Len(list) : list[k] \in Account /\ list[k] # account
  BY DEF TwoViews
<1> HIDE DEF longer, pushed
<1>6. TwoViews(longer, pushed)
  <2>1. ASSUME NEW a \in Account, pushed[a].active
        PROVE  pushed[a].pos < Len(longer) /\ longer[pushed[a].pos + 1] = a
    <3>1. CASE a = account
      BY <1>1, <1>2, <1>4, <3>1
    <3>2. CASE a # account
      <4>1. pushed[a] = mem[a] /\ mem[a].pos \in Nat
        BY <1>4, <3>2 DEF MemberData
      <4>2. mem[a].pos < Len(list) /\ list[mem[a].pos + 1] = a
        BY <2>1, <4>1 DEF TwoViews
      <4> QED
        BY <1>1, <1>2, <4>1, <4>2
    <3> QED
      BY <3>1, <3>2
  <2>2. ASSUME NEW k \in 1..Len(longer)
        PROVE  pushed[longer[k]].active /\ pushed[longer[k]].pos = k - 1
    <3>1. CASE k = Len(list) + 1
      BY <1>1, <1>2, <1>4, <3>1
    <3>2. CASE k \in 1..Len(list)
      BY <1>1, <1>4, <1>5, <3>2 DEF TwoViews
    <3> QED
      BY <1>1, <1>2, <2>2, <3>1, <3>2
  <2> QED
    BY <2>1, <2>2 DEF TwoViews
<1>7. \A a \in Account : pushed[a].active <=> mem[a].active \/ a = account
  BY <1>4
<1> QED
  BY <1>1, <1>3, <1>6, <1>7 DEF longer, pushed

(* So does the swap and pop of a member: the moved account is found again  *)
(* at its new position, and nobody else lost its place.                    *)
LEMMA PopKeepsViews ==
  ASSUME NEW list \in Seq(Account), NEW mem \in [Account -> MemberData],
         TwoViews(list, mem), NEW account \in Account, mem[account].active
  PROVE  LET popped == SwapAndPop(list, mem[account].pos)
             left == RevokedMembers(mem, list, account)
         IN  /\ popped \in Seq(Account)
             /\ Len(popped) = Len(list) - 1
             /\ left \in [Account -> MemberData]
             /\ TwoViews(popped, left)
             /\ \A a \in Account : left[a].active <=> mem[a].active /\ a # account
<1> DEFINE n == Len(list)
           position == mem[account].pos
           moved == list[n]
           popped == SwapAndPop(list, position)
           left == RevokedMembers(mem, list, account)
<1>1. n \in Nat /\ position \in Nat /\ position < n /\ list[position + 1] = account
  BY DEF TwoViews, MemberData
<1>2. \A k \in 1..n : /\ list[k] \in Account
                      /\ mem[list[k]].active /\ mem[list[k]].pos = k - 1
  BY DEF TwoViews
<1>3. moved \in Account /\ mem[moved].active /\ mem[moved].pos = n - 1
  BY <1>1, <1>2
<1>4. /\ popped \in Seq(Account)
      /\ Len(popped) = n - 1
      /\ \A k \in 1..(n - 1) :
           popped[k] = IF k = position + 1 THEN moved ELSE list[k]
  BY <1>1, <1>2 DEF SwapAndPop
<1>5. /\ left \in [Account -> MemberData]
      /\ left[account] = NoMember
      /\ \A a \in Account \ {account, moved} : left[a] = mem[a]
      /\ moved # account => left[moved] = [active |-> TRUE, pos |-> position]
  <2>1. CASE position < n - 1
    <3> DEFINE relocated == [mem EXCEPT ![moved].pos = position]
    <3>1. relocated \in [Account -> MemberData]
      BY <1>1, <1>3 DEF MemberData
    <3>2. left = [relocated EXCEPT ![account] = NoMember]
      BY <2>1 DEF RevokedMembers
    <3>3. NoMember \in MemberData
      BY DEF NoMember, MemberData
    <3>4. /\ relocated[moved] = [active |-> TRUE, pos |-> position]
          /\ \A a \in Account \ {moved} : relocated[a] = mem[a]
      BY <1>3 DEF MemberData
    <3> HIDE DEF relocated, left
    <3> QED
      BY <3>1, <3>2, <3>3, <3>4, <1>3
  <2>2. CASE ~(position < n - 1)
    <3>1. moved = account
      BY <1>1, <2>2
    <3>2. left = [mem EXCEPT ![account] = NoMember]
      BY <2>2 DEF RevokedMembers
    <3>3. NoMember \in MemberData
      BY DEF NoMember, MemberData
    <3> HIDE DEF left
    <3> QED
      BY <3>1, <3>2, <3>3
  <2> QED
    BY <2>1, <2>2
<1>6. /\ ~left[account].active
      /\ moved # account => left[moved].active /\ left[moved].pos = position
  BY <1>3, <1>5 DEF NoMember, MemberData
<1> HIDE DEF popped, left
<1>7. TwoViews(popped, left)
  <2>1. ASSUME NEW a \in Account, left[a].active
        PROVE  left[a].pos < Len(popped) /\ popped[left[a].pos + 1] = a
    <3>1. a # account
      BY <1>6, <2>1
    <3>2. CASE a = moved
      <4>1. position # n - 1
        BY <1>1, <3>1, <3>2
      <4>2. left[a].pos = position /\ position < n - 1 /\ position + 1 \in 1..(n - 1)
        BY <1>1, <1>6, <3>1, <3>2, <4>1
      <4> QED
        BY <1>4, <3>2, <4>2
    <3>3. CASE a # moved
      <4>1. left[a] = mem[a] /\ mem[a].pos \in Nat
        BY <1>5, <3>1, <3>3 DEF MemberData
      <4>2. mem[a].pos < n /\ list[mem[a].pos + 1] = a
        BY <2>1, <4>1 DEF TwoViews
      <4>3. mem[a].pos + 1 # n /\ mem[a].pos # position
        BY <1>1, <3>1, <3>3, <4>2
      <4>4. mem[a].pos + 1 \in 1..(n - 1) /\ mem[a].pos + 1 # position + 1
        BY <1>1, <4>1, <4>2, <4>3
      <4>5. popped[mem[a].pos + 1] = a
        BY <1>4, <4>2, <4>4
      <4>6. mem[a].pos < Len(popped)
        BY <1>1, <1>4, <4>1, <4>4
      <4> QED
        BY <4>1, <4>5, <4>6
    <3> QED
      BY <3>2, <3>3
  <2>2. ASSUME NEW k \in 1..Len(popped)
        PROVE  left[popped[k]].active /\ left[popped[k]].pos = k - 1
    <3>1. k \in 1..(n - 1) /\ k \in 1..n /\ k # n
      BY <1>1, <1>4, <2>2
    <3>2. CASE k = position + 1
      <4>1. popped[k] = moved
        BY <1>4, <3>1, <3>2
      <4>2. moved # account
        BY <1>1, <1>3, <3>1, <3>2
      <4> QED
        BY <1>1, <1>6, <3>2, <4>1, <4>2
    <3>3. CASE k # position + 1
      <4>1. popped[k] = list[k]
        BY <1>4, <3>1, <3>3
      <4>2. list[k] \in Account /\ mem[list[k]].active /\ mem[list[k]].pos = k - 1
        BY <1>2, <3>1
      <4>3. list[k] # account /\ list[k] # moved
        BY <1>1, <1>3, <3>1, <3>3, <4>2
      <4> QED
        BY <1>5, <4>1, <4>2, <4>3
    <3> QED
      BY <3>2, <3>3
  <2> QED
    BY <2>1, <2>2 DEF TwoViews
<1>8. \A a \in Account : left[a].active <=> mem[a].active /\ a # account
  BY <1>3, <1>5, <1>6
<1> QED
  BY <1>4, <1>5, <1>7, <1>8 DEF popped, left

-----------------------------------------------------------------------------
(* The storage                                                             *)

(* A push on the array of a role keeps the storage in order and makes one  *)
(* account a member of one role.                                           *)
LEMMA PushKeepsStorage ==
  ASSUME StorageOK(accounts, members), NEW role \in Role, NEW account \in Account,
         ~members[role][account].active,
         members' = [members EXCEPT ![role][account] =
                       [active |-> TRUE, pos |-> Len(accounts[role])]],
         accounts' = [accounts EXCEPT ![role] = Append(@, account)]
  PROVE  /\ StorageOK(accounts, members)'
         /\ \A r \in Role, a \in Account :
              members'[r][a].active <=> members[r][a].active \/ (r = role /\ a = account)
<1> DEFINE longer == Append(accounts[role], account)
           pushed == [members[role] EXCEPT ![account] =
                        [active |-> TRUE, pos |-> Len(accounts[role])]]
<1>1. /\ accounts \in [Role -> Seq(Account)]
      /\ members \in [Role -> [Account -> MemberData]]
      /\ \A r \in Role : TwoViews(accounts[r], members[r])
  BY DEF StorageOK
<1>2. accounts[role] \in Seq(Account) /\ members[role] \in [Account -> MemberData]
  BY <1>1
<1>3. /\ longer \in Seq(Account)
      /\ pushed \in [Account -> MemberData]
      /\ TwoViews(longer, pushed)
      /\ \A a \in Account : pushed[a].active <=> members[role][a].active \/ a = account
  BY <1>1, <1>2, PushKeepsViews
<1>4. longer # <<>>
  BY <1>2
<1>5. accounts' = [accounts EXCEPT ![role] = longer] /\ members' = [members EXCEPT ![role] = pushed]
  BY <1>1
<1> HIDE DEF longer, pushed
<1>6. \A r \in Role : /\ accounts'[r] = IF r = role THEN longer ELSE accounts[r]
                      /\ members'[r] = IF r = role THEN pushed ELSE members[r]
  BY <1>1, <1>5
<1>7. accounts'[ADMIN_ROLE] # <<>>
  BY <1>4, <1>6, RegistryAssumption DEF StorageOK
<1>8. /\ accounts' \in [Role -> Seq(Account)]
      /\ members' \in [Role -> [Account -> MemberData]]
  <2> DEFINE Lists == Seq(Account)
             Records == [Account -> MemberData]
  <2>1. /\ accounts \in [Role -> Lists] /\ longer \in Lists
        /\ members \in [Role -> Records] /\ pushed \in Records
    BY <1>1, <1>3
  <2> HIDE DEF Lists, Records
  <2>2. accounts' \in [Role -> Lists] /\ members' \in [Role -> Records]
    BY <1>5, <2>1
  <2> QED
    BY <2>2 DEF Lists, Records
<1>9. StorageOK(accounts, members)'
  BY <1>1, <1>3, <1>6, <1>7, <1>8 DEF StorageOK
<1> QED
  BY <1>3, <1>6, <1>9

(* What a step does that takes an account off a role.                      *)
Pops(role, account) ==
  LET popped == SwapAndPop(accounts[role], members[role][account].pos)
  IN  /\ AdminsAfter(role, popped) > 0
      /\ accounts' = [accounts EXCEPT ![role] = popped]
      /\ members' = [members EXCEPT ![role] =
                        RevokedMembers(members[role], accounts[role], account)]

(* A swap and pop that leaves an administrator keeps the storage in order  *)
(* and ends one membership.                                                *)
LEMMA PopKeepsStorage ==
  ASSUME StorageOK(accounts, members), NEW role \in Role, NEW account \in Account,
         members[role][account].active, Pops(role, account)
  PROVE  /\ StorageOK(accounts, members)'
         /\ \A r \in Role, a \in Account :
              members'[r][a].active <=> members[r][a].active /\ ~(r = role /\ a = account)
<1> DEFINE popped == SwapAndPop(accounts[role], members[role][account].pos)
           left == RevokedMembers(members[role], accounts[role], account)
<1>1. /\ accounts \in [Role -> Seq(Account)]
      /\ members \in [Role -> [Account -> MemberData]]
      /\ \A r \in Role : TwoViews(accounts[r], members[r])
  BY DEF StorageOK
<1>2. accounts[role] \in Seq(Account) /\ members[role] \in [Account -> MemberData]
  BY <1>1
<1>3. /\ popped \in Seq(Account)
      /\ left \in [Account -> MemberData]
      /\ TwoViews(popped, left)
      /\ \A a \in Account : left[a].active <=> members[role][a].active /\ a # account
  BY <1>1, <1>2, PopKeepsViews
<1>4. role = ADMIN_ROLE => Len(popped) > 0
  BY DEF AdminsAfter, Pops
<1> HIDE DEF popped, left
<1>5. \A r \in Role : /\ accounts'[r] = IF r = role THEN popped ELSE accounts[r]
                      /\ members'[r] = IF r = role THEN left ELSE members[r]
  BY <1>1 DEF popped, left, Pops
<1>6. accounts'[ADMIN_ROLE] # <<>>
  BY <1>3, <1>4, <1>5, RegistryAssumption DEF StorageOK
<1>7. /\ accounts' \in [Role -> Seq(Account)]
      /\ members' \in [Role -> [Account -> MemberData]]
  BY <1>1, <1>3 DEF popped, left, Pops
<1>8. StorageOK(accounts, members)'
  BY <1>1, <1>3, <1>5, <1>6, <1>7 DEF StorageOK
<1> QED
  BY <1>3, <1>5, <1>8

-----------------------------------------------------------------------------
(* The loops                                                               *)

(* The same transaction a step later.                                      *)
SameCall ==
  /\ tx'.op = tx.op
  /\ tx'.roles = tx.roles /\ tx'.accts = tx.accts
  /\ tx'.savedAccounts = tx.savedAccounts /\ tx'.savedMembers = tx.savedMembers

(* An iteration goes through one more pair, the one at the two counters.   *)
LEMMA AdvanceProcesses ==
  ASSUME tx \in Transaction, CountersOK, NEW op, InLoop(op), Advance
  PROVE  /\ tx' \in Transaction
         /\ SameCall
         /\ CountersOK'
         /\ tx.roles[tx.i] \in Role /\ tx.accts[tx.j] \in Account
         /\ \A r, a : Processed(r, a)' <=>
              Processed(r, a) \/ (r = tx.roles[tx.i] /\ a = tx.accts[tx.j])
<1>1. /\ tx.roles \in Seq(Role) /\ tx.accts \in Seq(Account)
      /\ tx.i \in Nat /\ tx.j \in Nat
      /\ tx.savedAccounts \in [Role -> Seq(Account)]
      /\ tx.savedMembers \in [Role -> [Account -> MemberData]]
      /\ tx.op \in {"grant", "revoke"}
  BY DEF Transaction
<1>2. /\ tx.i \in 1..Len(tx.roles) /\ tx.j \in 1..Len(tx.accts)
      /\ Len(tx.roles) \in Nat /\ Len(tx.accts) \in Nat
  BY <1>1 DEF InLoop, CountersOK
<1>3. /\ tx' \in Transaction
      /\ SameCall
      /\ \/ tx.j < Len(tx.accts) /\ tx'.i = tx.i /\ tx'.j = tx.j + 1
         \/ tx.j = Len(tx.accts) /\ tx'.i = tx.i + 1 /\ tx'.j = 1
  <2>1. CASE tx.j < Len(tx.accts)
    <3>1. tx' = [op |-> tx.op, roles |-> tx.roles, accts |-> tx.accts,
                 i |-> tx.i, j |-> tx.j + 1,
                 savedAccounts |-> tx.savedAccounts, savedMembers |-> tx.savedMembers]
      BY <2>1 DEF Advance, Transaction
    <3>2. tx' \in Transaction
      BY <1>1, <3>1 DEF Transaction
    <3> QED
      BY <2>1, <3>1, <3>2 DEF SameCall
  <2>2. CASE tx.j = Len(tx.accts)
    <3>. ~(tx.j < Len(tx.accts))
      BY <1>2, <2>2
    <3>1. tx' = [op |-> tx.op, roles |-> tx.roles, accts |-> tx.accts,
                 i |-> tx.i + 1, j |-> 1,
                 savedAccounts |-> tx.savedAccounts, savedMembers |-> tx.savedMembers]
      BY DEF Advance, Transaction
    <3>2. tx' \in Transaction
      BY <1>1, <3>1 DEF Transaction
    <3> QED
      BY <2>2, <3>1, <3>2 DEF SameCall
  <2> QED
    BY <1>2, <2>1, <2>2
<1>4. CountersOK'
  <2>1. CASE tx.j < Len(tx.accts) /\ tx'.i = tx.i /\ tx'.j = tx.j + 1
    BY <1>2, <1>3, <2>1 DEF CountersOK, SameCall
  <2>2. CASE tx.j = Len(tx.accts) /\ tx'.i = tx.i + 1 /\ tx'.j = 1
    <3>1. tx'.i \in 1..(Len(tx'.roles) + 1)
      BY <1>2, <1>3, <2>2 DEF SameCall
    <3> QED
      BY <2>2, <3>1 DEF CountersOK
  <2> QED
    BY <1>3, <2>1, <2>2
<1>5. ASSUME NEW r, NEW a
      PROVE  Processed(r, a)' <=>
               Processed(r, a) \/ (r = tx.roles[tx.i] /\ a = tx.accts[tx.j])
  <2> DEFINE At(x, y) == tx.roles[x] = r /\ tx.accts[y] = a
             Before(x, y) == x < tx.i \/ (x = tx.i /\ y < tx.j)
  <2>1. Processed(r, a)' <=>
          \E x \in 1..Len(tx.roles), y \in 1..Len(tx.accts) :
            At(x, y) /\ (x < tx'.i \/ (x = tx'.i /\ y < tx'.j))
    BY <1>3 DEF Processed, SameCall
  <2>2. \A x \in 1..Len(tx.roles), y \in 1..Len(tx.accts) :
          (x < tx'.i \/ (x = tx'.i /\ y < tx'.j))
            <=> Before(x, y) \/ (x = tx.i /\ y = tx.j)
    BY <1>2, <1>3
  <2>3. Processed(r, a) <=>
          \E x \in 1..Len(tx.roles), y \in 1..Len(tx.accts) : At(x, y) /\ Before(x, y)
    BY DEF Processed
  <2>4. At(tx.i, tx.j) <=> r = tx.roles[tx.i] /\ a = tx.accts[tx.j]
    OBVIOUS
  <2> HIDE DEF At, Before
  <2> QED
    BY <1>2, <2>1, <2>2, <2>3, <2>4
<1>6. tx.roles[tx.i] \in Role /\ tx.accts[tx.j] \in Account
  BY <1>1, <1>2
<1> QED
  BY <1>3, <1>4, <1>5, <1>6

-----------------------------------------------------------------------------
(* One lemma for each action                                               *)

(* A transaction is not the value for none.                                *)
LEMMA TransactionIsRunning == \A t \in Transaction : t # Idle
<1>1. \A t \in Transaction : t.op \in {"grant", "revoke"}
  BY DEF Transaction
<1>2. Idle.op = "idle"
  BY DEF Idle
<1> QED
  BY <1>1, <1>2

(* A transaction starts with nothing gone through and the storage saved.   *)
LEMMA BeginSafe ==
  ASSUME Inv, NEW op \in {"grant", "revoke"}, NEW caller \in Account,
         NEW rs \in Arrays(Role), NEW as \in Arrays(Account), Begin(op, caller, rs, as)
  PROVE  Inv'
<1>1. rs \in Seq(Role) /\ as \in Seq(Account)
  <2>1. ASSUME NEW S, NEW list \in Arrays(S)
        PROVE  list \in Seq(S)
    <3>1. PICK n \in 0..MaxBatch : list \in [1..n -> S]
      BY DEF Arrays
    <3>2. n \in Nat
      BY RegistryAssumption
    <3> QED
      BY <3>1, <3>2, SeqDef
  <2> QED
    BY <2>1
<1>2. /\ tx' = [op |-> op, roles |-> rs, accts |-> as, i |-> 1, j |-> 1,
                savedAccounts |-> accounts, savedMembers |-> members]
      /\ accounts' = accounts /\ members' = members
  BY DEF Begin
<1>3. /\ tx'.op = op /\ tx'.roles = rs /\ tx'.accts = as /\ tx'.i = 1 /\ tx'.j = 1
      /\ tx'.savedAccounts = accounts /\ tx'.savedMembers = members
  BY <1>2
<1>4. tx' \in Transaction
  BY <1>1, <1>2 DEF Transaction, Inv, StorageOK
<1>5. CountersOK'
  BY <1>1, <1>3 DEF CountersOK
<1>6. ASSUME NEW r, NEW a
      PROVE  ~Processed(r, a)'
  <2>1. \A x \in 1..Len(rs), y \in 1..Len(as) : ~(x < 1 \/ (x = 1 /\ y < 1))
    BY <1>1
  <2> QED
    BY <1>3, <2>1 DEF Processed
<1>7. SoFar'
  BY <1>2, <1>3, <1>6 DEF SoFar
<1>8. StorageOK(tx.savedAccounts, tx.savedMembers)'
  BY <1>3 DEF Inv, StorageOK
<1> QED
  BY <1>2, <1>4, <1>5, <1>7, <1>8 DEF Inv, TransactionOK, StorageOK

(* What the lemmas about iterations start from.                            *)
LEMMA IterationIs ==
  ASSUME Inv, NEW op, InLoop(op)
  PROVE  tx \in Transaction /\ tx.op = op /\ TransactionOK /\ StorageOK(accounts, members)
BY DEF Inv, InLoop, Running

(* An iteration that leaves the storage in order, and the members as the   *)
(* pair it goes through demands, is safe.                                  *)
LEMMA IterationSafe ==
  ASSUME Inv, NEW op \in {"grant", "revoke"}, InLoop(op), Advance,
         StorageOK(accounts, members)',
         \A r \in Role, a \in Account :
           members'[r][a].active <=>
             IF r = tx.roles[tx.i] /\ a = tx.accts[tx.j] THEN op = "grant"
                                                        ELSE members[r][a].active
  PROVE  Inv'
<1>1. tx \in Transaction /\ tx.op = op /\ TransactionOK
  BY IterationIs
<1>2. /\ tx' \in Transaction /\ SameCall /\ CountersOK'
      /\ \A r, a : Processed(r, a)' <=>
           Processed(r, a) \/ (r = tx.roles[tx.i] /\ a = tx.accts[tx.j])
  BY <1>1, AdvanceProcesses DEF TransactionOK
<1>3. SoFar'
  <2> SUFFICES ASSUME NEW r \in Role, NEW a \in Account
               PROVE  members'[r][a].active <=>
                        \/ op = "grant" /\ (tx.savedMembers[r][a].active \/ Processed(r, a)')
                        \/ op = "revoke" /\ tx.savedMembers[r][a].active /\ ~Processed(r, a)'
    BY <1>1, <1>2 DEF SoFar, SameCall
  <2>1. members[r][a].active <=>
          \/ op = "grant" /\ (tx.savedMembers[r][a].active \/ Processed(r, a))
          \/ op = "revoke" /\ tx.savedMembers[r][a].active /\ ~Processed(r, a)
    BY <1>1 DEF TransactionOK, SoFar
  <2> QED
    BY <1>2, <2>1
<1>4. StorageOK(tx.savedAccounts, tx.savedMembers)'
  BY <1>1, <1>2 DEF TransactionOK, StorageOK, SameCall
<1> QED
  BY <1>2, <1>3, <1>4 DEF Inv, TransactionOK

(* A revert goes back to storage that was in order.                        *)
LEMMA RevertSafe ==
  ASSUME Inv, Running, Revert
  PROVE  Inv'
<1>1. StorageOK(tx.savedAccounts, tx.savedMembers)
  BY DEF Inv, TransactionOK
<1> QED
  BY <1>1 DEF Revert, Inv, StorageOK, Running

(* One account of grantRoles, whether or not it has the role already.      *)
LEMMA GrantIterationSafe ==
  ASSUME Inv, GrantIteration
  PROVE  Inv'
<1> DEFINE role == tx.roles[tx.i]
           account == tx.accts[tx.j]
<1>1. InLoop("grant") /\ Advance
  BY DEF GrantIteration
<1>2. tx \in Transaction /\ TransactionOK /\ StorageOK(accounts, members)
  BY <1>1, IterationIs
<1>3. role \in Role /\ account \in Account
  BY <1>1, <1>2, AdvanceProcesses DEF TransactionOK
<1>4. CASE members[role][account].active /\ UNCHANGED <<accounts, members>>
  BY <1>1, <1>2, <1>4, IterationSafe DEF StorageOK
<1>5. CASE /\ ~members[role][account].active
           /\ members' = [members EXCEPT ![role][account] =
                            [active |-> TRUE, pos |-> Len(accounts[role])]]
           /\ accounts' = [accounts EXCEPT ![role] = Append(@, account)]
  <2>1. /\ StorageOK(accounts, members)'
        /\ \A r \in Role, a \in Account :
             members'[r][a].active <=> members[r][a].active \/ (r = role /\ a = account)
    BY <1>2, <1>3, <1>5, PushKeepsStorage
  <2> QED
    BY <1>1, <2>1, IterationSafe
<1> QED
  BY <1>4, <1>5 DEF GrantIteration

(* One account of revokeRoles, taken off the list and out of the records.  *)
LEMMA RevokeIterationSafe ==
  ASSUME Inv, RevokeIteration
  PROVE  Inv'
<1> DEFINE role == tx.roles[tx.i]
           account == tx.accts[tx.j]
           list == SwapAndPop(accounts[role], members[role][account].pos)
<1>1. InLoop("revoke")
  BY DEF RevokeIteration
<1>2. tx \in Transaction /\ TransactionOK /\ StorageOK(accounts, members)
  BY <1>1, IterationIs
<1>3. CASE ~members[role][account].active /\ Advance /\ UNCHANGED <<accounts, members>>
  BY <1>1, <1>2, <1>3, IterationSafe DEF StorageOK
<1>4. CASE /\ members[role][account].active
           /\ AdminsAfter(role, list) > 0
           /\ accounts' = [accounts EXCEPT ![role] = list]
           /\ members' = [members EXCEPT ![role] =
                            RevokedMembers(members[role], accounts[role], account)]
           /\ Advance
  <2>1. role \in Role /\ account \in Account
    BY <1>1, <1>2, <1>4, AdvanceProcesses DEF TransactionOK
  <2>2. /\ StorageOK(accounts, members)'
        /\ \A r \in Role, a \in Account :
             members'[r][a].active <=> members[r][a].active /\ ~(r = role /\ a = account)
    <3>1. members[role][account].active /\ Pops(role, account)
      BY <1>4 DEF Pops
    <3> HIDE DEF role, account, list
    <3> QED
      BY <1>2, <2>1, <3>1, PopKeepsStorage
  <2> QED
    BY <1>1, <1>4, <2>2, IterationSafe
<1>5. CASE Revert
  BY <1>1, <1>5, RevertSafe DEF InLoop
<1> QED
  BY <1>3, <1>4, <1>5 DEF RevokeIteration

(* The end of a transaction keeps what it wrote.                           *)
LEMMA CommitSafe ==
  ASSUME Inv, Commit
  PROVE  Inv'
BY DEF Inv, Commit, StorageOK, Running

(* The initializer leaves one administrator and both lists in agreement.   *)
LEMMA InitSafe ==
  ASSUME Init
  PROVE  Inv
<1>1. PICK originalSender \in Account :
        /\ accounts = [r \in Role |-> IF r = ADMIN_ROLE THEN <<originalSender>> ELSE <<>>]
        /\ members = [r \in Role |-> [a \in Account |->
                       IF r = ADMIN_ROLE /\ a = originalSender
                         THEN [active |-> TRUE, pos |-> 0] ELSE NoMember]]
        /\ tx = Idle
  BY DEF Init
<1>2. accounts \in [Role -> Seq(Account)]
  BY <1>1
<1>3. members \in [Role -> [Account -> MemberData]]
  BY <1>1 DEF NoMember, MemberData
<1>4. ASSUME NEW r \in Role
      PROVE  TwoViews(accounts[r], members[r])
  <2>1. CASE r = ADMIN_ROLE
    <3>1. accounts[r] = <<originalSender>> /\ Len(accounts[r]) = 1
      BY <1>1, <2>1
    <3>2. \A a \in Account : members[r][a] = IF a = originalSender
                                THEN [active |-> TRUE, pos |-> 0] ELSE NoMember
      BY <1>1, <2>1
    <3> QED
      BY <3>1, <3>2 DEF TwoViews, NoMember
  <2>2. CASE r # ADMIN_ROLE
    BY <1>1, <2>2 DEF TwoViews, NoMember
  <2> QED
    BY <2>1, <2>2
<1>5. accounts[ADMIN_ROLE] # <<>>
  BY <1>1, RegistryAssumption
<1> QED
  BY <1>1, <1>2, <1>3, <1>4, <1>5 DEF Inv, StorageOK, Running

(* Every step keeps the invariant.                                         *)
LEMMA NextSafe ==
  ASSUME Inv, [Next]_vars
  PROVE  Inv'
<1>1. CASE \E op \in {"grant", "revoke"}, caller \in Account,
              rs \in Arrays(Role), as \in Arrays(Account) : Begin(op, caller, rs, as)
  BY <1>1, BeginSafe
<1>2. CASE GrantIteration
  BY <1>2, GrantIterationSafe
<1>3. CASE CashInReverts
  BY <1>3, RevertSafe DEF CashInReverts, InLoop
<1>4. CASE RevokeIteration
  BY <1>4, RevokeIterationSafe
<1>5. CASE Commit
  BY <1>5, CommitSafe
<1>6. CASE UNCHANGED vars
  BY <1>6 DEF vars, Inv, Running, TransactionOK, StorageOK, CountersOK, SoFar, Processed
<1> QED
  BY <1>1, <1>2, <1>3, <1>4, <1>5, <1>6 DEF Next

-----------------------------------------------------------------------------
(* The refinement                                                          *)

(* Storage in order has an administrator.                                  *)
LEMMA StorageHasAdmin ==
  ASSUME NEW acc, NEW mem, StorageOK(acc, mem)
  PROVE  \E a \in Account : mem[ADMIN_ROLE][a].active
<1>1. /\ acc[ADMIN_ROLE] \in Seq(Account) /\ acc[ADMIN_ROLE] # <<>>
      /\ TwoViews(acc[ADMIN_ROLE], mem[ADMIN_ROLE])
  BY RegistryAssumption DEF StorageOK
<1>2. 1 \in 1..Len(acc[ADMIN_ROLE])
  BY <1>1
<1>3. acc[ADMIN_ROLE][1] \in Account
  BY <1>1, <1>2
<1> QED
  BY <1>1, <1>2, <1>3 DEF TwoViews

(* What two moments commit to is the same if the members they commit to    *)
(* are.                                                                    *)
LEMMA SameCommitted ==
  ASSUME CommittedMembers' = CommittedMembers
  PROVE  CommittedRoles' = CommittedRoles
BY DEF CommittedRoles

(* Storage that is written in a transaction is not seen, and neither is    *)
(* what a revert undoes.                                                   *)
LEMMA UnseenSteps ==
  ASSUME \/ Running /\ Running' /\ tx'.savedMembers = tx.savedMembers
         \/ Running /\ Revert
         \/ ~Running /\ Running' /\ tx'.savedMembers = members
  PROVE  CommittedRoles' = CommittedRoles
<1>1. CASE Running /\ Running' /\ tx'.savedMembers = tx.savedMembers
  BY <1>1, SameCommitted DEF CommittedMembers
<1>2. CASE Running /\ Revert
  BY <1>2, SameCommitted DEF CommittedMembers, Revert, Running
<1>3. CASE ~Running /\ Running' /\ tx'.savedMembers = members
  BY <1>3, SameCommitted DEF CommittedMembers
<1> QED
  BY <1>1, <1>2, <1>3

(* A transaction that commits has been through every pair of a role and an *)
(* account of its call data.                                               *)
LEMMA CommitProcessedAll ==
  ASSUME Inv, Commit
  PROVE  \A r, a : Processed(r, a) <=>
           /\ \E x \in 1..Len(tx.roles) : tx.roles[x] = r
           /\ \E y \in 1..Len(tx.accts) : tx.accts[y] = a
<1>1. /\ tx.roles \in Seq(Role) /\ tx.accts \in Seq(Account)
      /\ tx.i \in Nat /\ tx.j \in Nat /\ CountersOK
      /\ tx.i > Len(tx.roles) \/ tx.j > Len(tx.accts)
  BY DEF Inv, Commit, Running, Transaction, TransactionOK
<1>2. Len(tx.roles) \in Nat /\ Len(tx.accts) \in Nat
  BY <1>1
<1>3. ASSUME NEW x \in 1..Len(tx.roles), NEW y \in 1..Len(tx.accts)
      PROVE  x < tx.i
  BY <1>1, <1>2 DEF CountersOK
<1> QED
  BY <1>3 DEF Processed

(* A commit publishes one grant or one revocation of all the roles of the  *)
(* call data for all its accounts, by somebody who was an administrator    *)
(* when the transaction began.                                             *)
LEMMA CommitRefines ==
  ASSUME Inv, Commit
  PROVE  Abstract!RolesNext
<1> DEFINE R == {tx.roles[x] : x \in 1..Len(tx.roles)}
           A == {tx.accts[y] : y \in 1..Len(tx.accts)}
<1>1. /\ tx \in Transaction /\ Running /\ ~Running'
      /\ members' = members /\ SoFar
      /\ StorageOK(accounts, members)
      /\ StorageOK(tx.savedAccounts, tx.savedMembers)
  BY DEF Inv, Commit, Running, TransactionOK
<1>2. R \in SUBSET Role /\ A \in SUBSET Account
  BY <1>1 DEF Transaction
<1>3. \A r, a : Processed(r, a) <=> r \in R /\ a \in A
  BY CommitProcessedAll
<1> HIDE DEF R, A
<1>4. /\ CommittedMembers = tx.savedMembers
      /\ CommittedMembers' = members
  BY <1>1 DEF CommittedMembers
<1>5. /\ CommittedRoles \in [Role -> SUBSET Account]
      /\ CommittedRoles' \in [Role -> SUBSET Account]
  BY DEF CommittedRoles
<1>6. \A r \in Role, a \in Account :
        /\ a \in CommittedRoles[r] <=> tx.savedMembers[r][a].active
        /\ a \in CommittedRoles'[r] <=> members[r][a].active
  BY <1>4 DEF CommittedRoles
<1>7. PICK caller \in Account : caller \in CommittedRoles[ADMIN_ROLE]
  BY <1>1, <1>6, StorageHasAdmin, RegistryAssumption
<1>8. CASE tx.op = "grant"
  <2>1. \A r \in Role, a \in Account :
          a \in CommittedRoles'[r] <=> a \in CommittedRoles[r] \/ (r \in R /\ a \in A)
    BY <1>1, <1>3, <1>6, <1>8 DEF SoFar
  <2>2. \A r \in Role :
          CommittedRoles'[r] = IF r \in R THEN CommittedRoles[r] \cup A ELSE CommittedRoles[r]
    BY <1>2, <1>5, <2>1
  <2>3. CommittedRoles' = Abstract!Granted(R, A)
    BY <1>5, <2>2 DEF Abstract!Granted
  <2>4. Abstract!GrantRoles(caller, R, A)
    BY <1>7, <2>3 DEF Abstract!GrantRoles, Abstract!HasRole
  <2> QED
    BY <1>2, <2>4 DEF Abstract!RolesNext
<1>9. CASE tx.op = "revoke"
  <2>1. \A r \in Role, a \in Account :
          a \in CommittedRoles'[r] <=> a \in CommittedRoles[r] /\ ~(r \in R /\ a \in A)
    BY <1>1, <1>3, <1>6, <1>9 DEF SoFar
  <2>2. \A r \in Role :
          CommittedRoles'[r] = IF r \in R THEN CommittedRoles[r] \ A ELSE CommittedRoles[r]
    BY <1>2, <1>5, <2>1
  <2>3. CommittedRoles' = Abstract!Revoked(R, A)
    BY <1>5, <2>2 DEF Abstract!Revoked
  <2>4. CommittedRoles'[ADMIN_ROLE] # {}
    BY <1>1, <1>6, StorageHasAdmin, RegistryAssumption
  <2>5. Abstract!RevokeRoles(caller, R, A)
    BY <1>7, <2>3, <2>4 DEF Abstract!RevokeRoles, Abstract!HasRole
  <2> QED
    BY <1>2, <2>5 DEF Abstract!RolesNext
<1> QED
  BY <1>1, <1>8, <1>9 DEF Transaction

(* Every step is a step of Roles or is not seen.                           *)
LEMMA NextRefines ==
  ASSUME Inv, [Next]_vars
  PROVE  [Abstract!RolesNext]_CommittedRoles
<1>1. ASSUME NEW op, InLoop(op), Advance
      PROVE  UNCHANGED CommittedRoles
  <2>1. tx \in Transaction /\ Running /\ CountersOK
    BY <1>1, IterationIs DEF InLoop, TransactionOK
  <2>2. tx' \in Transaction /\ SameCall
    BY <1>1, <2>1, AdvanceProcesses
  <2>3. Running'
    BY <2>2, TransactionIsRunning DEF Running
  <2> QED
    BY <2>1, <2>2, <2>3, UnseenSteps DEF SameCall
<1>2. CASE \E op \in {"grant", "revoke"}, caller \in Account,
              rs \in Arrays(Role), as \in Arrays(Account) : Begin(op, caller, rs, as)
  <2>1. PICK op \in {"grant", "revoke"}, rs \in Arrays(Role), as \in Arrays(Account) :
          /\ ~Running
          /\ tx' = [op |-> op, roles |-> rs, accts |-> as, i |-> 1, j |-> 1,
                    savedAccounts |-> accounts, savedMembers |-> members]
    BY <1>2 DEF Begin
  <2>2. tx'.op = op /\ tx'.savedMembers = members
    BY <2>1
  <2>3. Running'
    BY <2>2 DEF Running, Idle
  <2> QED
    BY <2>1, <2>2, <2>3, UnseenSteps
<1>3. CASE GrantIteration
  BY <1>1, <1>3 DEF GrantIteration
<1>4. CASE CashInReverts
  BY <1>4, UnseenSteps DEF CashInReverts, InLoop
<1>5. CASE RevokeIteration
  <2>1. CASE Advance
    BY <1>1, <1>5, <2>1 DEF RevokeIteration
  <2>2. CASE Revert
    BY <1>5, <2>2, UnseenSteps DEF RevokeIteration, InLoop
  <2> QED
    BY <1>5, <2>1, <2>2 DEF RevokeIteration
<1>6. CASE Commit
  BY <1>6, CommitRefines
<1>7. CASE UNCHANGED vars
  BY <1>7, SameCommitted DEF vars, CommittedMembers, Running
<1> QED
  BY <1>2, <1>3, <1>4, <1>5, <1>6, <1>7 DEF Next

(* At first nobody but an administrator has a role.                        *)
LEMMA InitRefines ==
  ASSUME Init
  PROVE  Abstract!RolesInit
<1>1. PICK originalSender \in Account :
        /\ members = [r \in Role |-> [a \in Account |->
                       IF r = ADMIN_ROLE /\ a = originalSender
                         THEN [active |-> TRUE, pos |-> 0] ELSE NoMember]]
        /\ tx = Idle
  BY DEF Init
<1>2. CommittedMembers = members
  BY <1>1 DEF CommittedMembers, Running
<1>3. \A r \in Role, a \in Account :
        members[r][a].active <=> r = ADMIN_ROLE /\ a = originalSender
  BY <1>1 DEF NoMember
<1>4. CommittedRoles = [r \in Role |-> IF r = ADMIN_ROLE THEN {originalSender} ELSE {}]
  BY <1>2, <1>3 DEF CommittedRoles
<1> QED
  BY <1>4 DEF Abstract!RolesInit

-----------------------------------------------------------------------------
(* Theorems                                                                *)

(* The inductive invariant holds in every state: the storage and the copy  *)
(* a revert goes back to are in order, and the members are that copy's up  *)
(* to the pairs the loops have been through (RolesStorageWrapper).         *)
THEOREM Invariance == Spec => []Inv
<1>1. Init => Inv
  BY InitSafe
<1>2. Inv /\ [Next]_vars => Inv'
  BY NextSafe
<1> QED
  BY <1>1, <1>2, PTL DEF Spec

(* Types: arrays of accounts, member data, and the state of the loops.     *)
THEOREM TypeCorrect == Spec => []RegistryTypeOK
<1>1. Inv => RegistryTypeOK
  BY DEF Inv, StorageOK, RegistryTypeOK
<1> QED
  BY <1>1, Invariance, PTL

(* The array of a role and the positions of its members agree after every  *)
(* push and every swap and pop (_grantRole, _revokeRole).                  *)
THEOREM ConsistencyCorrect == Spec => []RegistryConsistent
<1>1. Inv => RegistryConsistent
  BY DEF Inv, StorageOK, TwoViews, RegistryConsistent
<1> QED
  BY <1>1, Invariance, PTL

(* An administrator is left at every step of every transaction             *)
(* (NoAdminsLeft in _revokeRole).                                          *)
THEOREM AdminCorrect == Spec => []AdminListNeverEmpty
<1>1. Inv => AdminListNeverEmpty
  BY DEF Inv, StorageOK, AdminListNeverEmpty
<1> QED
  BY <1>1, Invariance, PTL

(* The storage implements Roles: a transaction of grantRoles or revokeRoles*)
(* is seen as one atomic change, whatever the duplicates and the order of  *)
(* its call data, or not at all (grantRoles, revokeRoles).                 *)
THEOREM RolesRefined == Spec => ImplementsRoles
<1>1. Init => Abstract!RolesInit
  BY InitRefines
<1>2. Inv /\ [Next]_vars => [Abstract!RolesNext]_CommittedRoles
  BY NextRefines
<1> QED
  BY <1>1, <1>2, Invariance, PTL DEF Spec, ImplementsRoles, Abstract!RolesSpec
=============================================================================

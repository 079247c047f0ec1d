---------------------------- MODULE InventoryProofs -----------------------------
(***************************************************************************)
(* Proofs about Inventory: what addIPv4 computes, the inductive invariant, *)
(* and the three safety properties, for any number of requests, any range  *)
(* of vmids and any bounds.                                                *)
(***************************************************************************)
EXTENDS Inventory, TLAPS

--------------------------------------------------------------------------------
(* addIPv4                                                                 *)

\* One octet: what is left in it and what is carried on make up the sum.
LEMMA OneOctet ==
  ASSUME NEW octet \in Octet, NEW carry \in Nat
  PROVE  /\ CarryOut(octet, carry) \in Nat
         /\ Digit(octet, carry) \in Octet
         /\ octet + carry = 256 * CarryOut(octet, carry) + Digit(octet, carry)
<1> DEFINE q == carry \div 256
           m == carry % 256
           q2 == (octet + m) \div 256
           m2 == (octet + m) % 256
<1>1. q \in Nat /\ m \in 0 .. 255 /\ carry = 256 * q + m
  OBVIOUS
<1>2. octet + m \in Nat
  BY <1>1 DEF Octet
<1>3. q2 \in Nat /\ m2 \in 0 .. 255 /\ octet + m = 256 * q2 + m2
  BY <1>2
<1>4. CarryOut(octet, carry) = q + q2 /\ Digit(octet, carry) = m2
  BY DEF CarryOut, Digit
<1> HIDE DEF q, m, q2, m2
<1> QED BY <1>1, <1>3, <1>4 DEF Octet

\* How many addresses there are.
Two32 == 256 * 256 * 256 * 256

\* addIPv4 adds: the result is the address that lies offset further, and
\* there is none exactly if that would need a fifth octet.
THEOREM AddIPv4Adds ==
  ASSUME NEW base \in Address, NEW offset \in Nat
  PROVE  /\ AddIPv4(base, offset) = NoIP <=> Number(base) + offset >= Two32
         /\ AddIPv4(base, offset) # NoIP =>
              /\ AddIPv4(base, offset) \in Address
              /\ Number(AddIPv4(base, offset)) = Number(base) + offset
<1>0. base[1] \in Octet /\ base[2] \in Octet /\ base[3] \in Octet /\ base[4] \in Octet
  BY DEF Address
<1>1. PICK c3 \in Nat, d4 \in Octet : /\ c3 = CarryOut(base[4], offset)
                                      /\ d4 = Digit(base[4], offset)
                                      /\ base[4] + offset = 256 * c3 + d4
  <2>1. /\ CarryOut(base[4], offset) \in Nat /\ Digit(base[4], offset) \in Octet
        /\ base[4] + offset = 256 * CarryOut(base[4], offset) + Digit(base[4], offset)
    BY <1>0, OneOctet, Zenon
  <2> QED BY <2>1, Zenon
<1>2. PICK c2 \in Nat, d3 \in Octet : /\ c2 = CarryOut(base[3], c3)
                                      /\ d3 = Digit(base[3], c3)
                                      /\ base[3] + c3 = 256 * c2 + d3
  <2>1. /\ CarryOut(base[3], c3) \in Nat /\ Digit(base[3], c3) \in Octet
        /\ base[3] + c3 = 256 * CarryOut(base[3], c3) + Digit(base[3], c3)
    BY <1>0, OneOctet, Zenon
  <2> QED BY <2>1, Zenon
<1>3. PICK c1 \in Nat, d2 \in Octet : /\ c1 = CarryOut(base[2], c2)
                                      /\ d2 = Digit(base[2], c2)
                                      /\ base[2] + c2 = 256 * c1 + d2
  <2>1. /\ CarryOut(base[2], c2) \in Nat /\ Digit(base[2], c2) \in Octet
        /\ base[2] + c2 = 256 * CarryOut(base[2], c2) + Digit(base[2], c2)
    BY <1>0, OneOctet, Zenon
  <2> QED BY <2>1, Zenon
<1>4. PICK c0 \in Nat, d1 \in Octet : /\ c0 = CarryOut(base[1], c1)
                                      /\ d1 = Digit(base[1], c1)
                                      /\ base[1] + c1 = 256 * c0 + d1
  <2>1. /\ CarryOut(base[1], c1) \in Nat /\ Digit(base[1], c1) \in Octet
        /\ base[1] + c1 = 256 * CarryOut(base[1], c1) + Digit(base[1], c1)
    BY <1>0, OneOctet, Zenon
  <2> QED BY <2>1, Zenon
<1>5. AddIPv4(base, offset) = IF c0 # 0 THEN NoIP ELSE <<d1, d2, d3, d4>>
  BY <1>1, <1>2, <1>3, <1>4 DEF AddIPv4
<1> DEFINE N == 256 * (256 * (256 * d1 + d2) + d3) + d4
<1>6. Number(<<d1, d2, d3, d4>>) = N /\ <<d1, d2, d3, d4>> # NoIP
  BY DEF Number, NoIP
<1>7. <<d1, d2, d3, d4>> \in Address
  BY DEF Address
<1>8. N \in Nat /\ N < Two32
  BY DEF Octet, Two32
<1> DEFINE b1 == base[1]
           b2 == base[2]
           b3 == base[3]
           b4 == base[4]
<1>9. b1 \in Nat /\ b2 \in Nat /\ b3 \in Nat /\ b4 \in Nat
  BY <1>0 DEF Octet
<1>10. /\ Number(base) \in Nat
       /\ Number(base) + offset = Two32 * c0 + N
  <2>1. b4 + offset = 256 * c3 + d4 /\ b3 + c3 = 256 * c2 + d3
        /\ b2 + c2 = 256 * c1 + d2 /\ b1 + c1 = 256 * c0 + d1
    BY <1>1, <1>2, <1>3, <1>4
  <2>2. Number(base) = 256 * (256 * (256 * b1 + b2) + b3) + b4
    BY DEF Number
  <2> HIDE DEF b1, b2, b3, b4
  <2>3. 256 * (256 * (256 * b1 + b2) + b3) + b4 + offset = Two32 * c0 + N
    BY <1>9, <2>1 DEF Octet, Two32
  <2>4. 256 * (256 * (256 * b1 + b2) + b3) + b4 \in Nat
    BY <1>9
  <2> QED BY <2>2, <2>3, <2>4
<1> HIDE DEF N
<1>11. Number(base) + offset >= Two32 <=> c0 # 0
  BY <1>8, <1>10 DEF Two32
<1>12. c0 = 0 => Number(base) + offset = N
  BY <1>8, <1>10 DEF Two32
<1> QED
  <2>1. CASE c0 = 0
    BY <1>5, <1>6, <1>7, <1>11, <1>12, <2>1
  <2>2. CASE c0 # 0
    BY <1>5, <1>11, <2>2
  <2> QED BY <2>1, <2>2

--------------------------------------------------------------------------------
(* Types.                                                                  *)

\* The field names of the requests tell them apart.
LEMMA Requests ==
  ASSUME NEW q \in Request \union {NoRequest}
  PROVE  /\ q.op = "create" => q \in CreateRequest
         /\ q.op = "adopt" => q \in AdoptRequest
         /\ q.op \in {"ip", "checkedIP"} => q \in IPRequest
BY DEF Request, CreateRequest, AdoptRequest, IPRequest, NoRequest

\* What Origins says of every row.
Fine(x) == /\ x.ipFrom = "derived" => /\ x.ip = DeriveIPv4(x.vmid)
                                      /\ x.vmid \in Allocatable
                                      /\ x.ip # NoIP
           /\ ~x.managed => ~x.template

\* Overwriting a row leaves it what Origins says it is.
LEMMA StaysFine ==
  ASSUME NEW x \in Row, Fine(x)
  PROVE  /\ \A a : Fine(Adopted(x, a))
         /\ \A q : Fine(Addressed(x, q))
         /\ Fine(Rescanned(x))
         /\ \A t : Fine([x EXCEPT !.todo = t])
         /\ Fine([x EXCEPT !.gone = TRUE])
<1>1. ASSUME NEW a PROVE Fine(Adopted(x, a))
  BY DEF Fine, Row, Adopted
<1>2. ASSUME NEW q PROVE Fine(Addressed(x, q))
  BY DEF Fine, Row, Addressed
<1>3. Fine(Rescanned(x))
  BY DEF Fine, Row, Rescanned
<1>4. ASSUME NEW t PROVE Fine([x EXCEPT !.todo = t])
  BY DEF Fine, Row
<1>5. Fine([x EXCEPT !.gone = TRUE])
  BY DEF Fine, Row
<1> QED BY <1>1, <1>2, <1>3, <1>4, <1>5

\* The rows that are written are rows.
LEMMA RowsWritten ==
  ASSUME TypeOK, NEW x \in Row
  PROVE  /\ \A a \in Chosen : Adopted(x, a) \in Row
         /\ \A q \in IPRequest : Addressed(x, q) \in Row
         /\ cur # NoHit => Rescanned(x) \in Row
         /\ \A t \in {"none", "apply", "delete"} : [x EXCEPT !.todo = t] \in Row
         /\ [x EXCEPT !.gone = TRUE] \in Row
<1>1. ASSUME NEW a \in Chosen PROVE Adopted(x, a) \in Row
  BY <1>1, ChosenAssumption DEF Adopted, Row
<1>2. ASSUME NEW q \in IPRequest PROVE Addressed(x, q) \in Row
  BY <1>2, ChosenAssumption DEF Addressed, Row, IPRequest
<1>3. ASSUME cur # NoHit PROVE Rescanned(x) \in Row
  <2>1. ScannedIP \in Address \union {NoIP}
    BY <1>3 DEF TypeOK, ScannedIP
  <2> QED BY <2>1 DEF Rescanned, Row
<1>4. \A t \in {"none", "apply", "delete"} : [x EXCEPT !.todo = t] \in Row
  BY DEF Row
<1>5. [x EXCEPT !.gone = TRUE] \in Row
  BY DEF Row
<1> QED BY <1>1, <1>2, <1>3, <1>4, <1>5

LEMMA RowsInserted ==
  ASSUME TypeOK
  PROVE  /\ \A v \in Allocatable : DeriveIPv4(v) # NoIP => NewRow(v) \in Row /\ Fine(NewRow(v))
         /\ cur # NoHit => Unmanaged(cur.vmid) \in Row
         /\ Fine(Unmanaged(cur.vmid))
<1>1. ASSUME NEW v \in Allocatable, DeriveIPv4(v) # NoIP PROVE NewRow(v) \in Row /\ Fine(NewRow(v))
  <2>1. v - StartVMID \in Nat /\ v \in VMIDs
    BY VmidAssumption DEF Allocatable, VMIDs
  <2>2. DeriveIPv4(v) \in Address
    BY <1>1, <2>1, AddIPv4Adds, StartAssumption DEF DeriveIPv4
  <2> QED BY <1>1, <2>1, <2>2 DEF NewRow, Row, Fine
<1>2. ASSUME cur # NoHit PROVE Unmanaged(cur.vmid) \in Row
  BY <1>2 DEF TypeOK, ScannedIP, Unmanaged, Row
<1>3. Fine(Unmanaged(cur.vmid))
  BY DEF Unmanaged, Fine
<1> QED BY <1>1, <1>2, <1>3

\* What a step may do to the table: nothing, overwrite a row, or add one.
Overwrites(r, x) == r \in DOMAIN rows /\ x \in Row /\ Fine(x) /\ rows' = [rows EXCEPT ![r] = x]
Appends(x)       == x \in Row /\ Fine(x) /\ rows' = Append(rows, x)

LEMMA TableStep ==
  ASSUME rows \in Seq(Row), \A r \in DOMAIN rows : Fine(rows[r]),
         \/ rows' = rows
         \/ \E r, x : Overwrites(r, x)
         \/ \E x : Appends(x)
  PROVE  /\ rows' \in Seq(Row) /\ DOMAIN rows \subseteq DOMAIN rows'
         /\ \A r \in DOMAIN rows' : Fine(rows'[r])
<1>1. CASE rows' = rows
  BY <1>1
<1>2. ASSUME NEW r, NEW x, Overwrites(r, x)
      PROVE  /\ rows' \in Seq(Row) /\ DOMAIN rows' = DOMAIN rows
             /\ \A s \in DOMAIN rows' : rows'[s] = rows[s] \/ Fine(rows'[s])
  BY <1>2 DEF Overwrites
<1>3. ASSUME NEW x, Appends(x)
      PROVE  /\ rows' \in Seq(Row) /\ DOMAIN rows' = DOMAIN rows \union {Len(rows) + 1}
             /\ \A s \in DOMAIN rows' : (s \in DOMAIN rows /\ rows'[s] = rows[s]) \/ Fine(rows'[s])
  BY <1>3 DEF Appends
<1> QED BY <1>1, <1>2, <1>3

\* The worker's and the requests' writes are of these kinds.
LEMMA Writes ==
  ASSUME TypeOK, References, Origins, [Next]_vars
  PROVE  \/ rows' = rows
         \/ \E r, x : Overwrites(r, x)
         \/ \E x : Appends(x)
<1>1. ASSUME NEW c \in Clients, CommitCreate(c) PROVE rows' = rows \/ \E x : Appends(x)
  <2>1. req[c].vmid \in Allocatable /\ DeriveIPv4(req[c].vmid) # NoIP
    BY <1>1, Requests DEF TypeOK, CommitCreate, CreateRequest, Origins
  <2>2. NewRow(req[c].vmid) \in Row /\ Fine(NewRow(req[c].vmid))
    BY <2>1, RowsInserted
  <2> QED BY <1>1, <2>2 DEF CommitCreate, Appends
<1>2. ASSUME NEW c \in Clients, CommitAdopt(c) PROVE \E r, x : Overwrites(r, x)
  <2>1. req[c].id \in DOMAIN rows /\ req[c].ip \in Chosen
    BY <1>2, Requests DEF TypeOK, CommitAdopt, AdoptRequest, References
  <2>3. rows[req[c].id] \in Row
    BY <2>1 DEF TypeOK
  <2>4. Fine(rows[req[c].id])
    BY <2>1 DEF Origins, Fine
  <2>2. /\ Adopted(rows[req[c].id], req[c].ip) \in Row
        /\ Fine(Adopted(rows[req[c].id], req[c].ip))
    BY <2>1, <2>3, <2>4, RowsWritten, StaysFine
  <2> QED BY <1>2, <2>1, <2>2 DEF CommitAdopt, Overwrites
<1>3. ASSUME NEW c \in Clients, CommitAddress(c) PROVE \E r, x : Overwrites(r, x)
  <2>1. req[c].id \in DOMAIN rows /\ req[c] \in IPRequest
    BY <1>3, Requests DEF TypeOK, CommitAddress, References
  <2>3. rows[req[c].id] \in Row
    BY <2>1 DEF TypeOK
  <2>4. Fine(rows[req[c].id])
    BY <2>1 DEF Origins, Fine
  <2>2. /\ Addressed(rows[req[c].id], req[c]) \in Row
        /\ Fine(Addressed(rows[req[c].id], req[c]))
    BY <2>1, <2>3, <2>4, RowsWritten, StaysFine
  <2> QED BY <1>3, <2>1, <2>2 DEF CommitAddress, Overwrites
<1>4. ASSUME NEW r \in DOMAIN rows, DeleteVM(r) \/ ApplyTask(r) \/ DeleteTask(r) \/ SweepRow(r)
      PROVE  rows' = rows \/ \E x : Overwrites(r, x)
  <2>1. rows[r] \in Row /\ Fine(rows[r])
    BY DEF TypeOK, Origins, Fine
  <2>2. [rows[r] EXCEPT !.todo = "none"] \in Row /\ [rows[r] EXCEPT !.todo = "delete"] \in Row
        /\ [rows[r] EXCEPT !.gone = TRUE] \in Row
    BY <2>1, RowsWritten
  <2>3. Fine([rows[r] EXCEPT !.todo = "none"]) /\ Fine([rows[r] EXCEPT !.todo = "delete"])
        /\ Fine([rows[r] EXCEPT !.gone = TRUE])
    BY <2>1, StaysFine
  <2> QED BY <1>4, <2>2, <2>3 DEF DeleteVM, ApplyTask, DeleteTask, SweepRow, Overwrites
<1>5. CASE UpdateUnmanaged
  <2>1. cur.id \in DOMAIN rows /\ cur # NoHit
    BY <1>5 DEF UpdateUnmanaged, References, Holders
  <2>3. rows[cur.id] \in Row
    BY <2>1 DEF TypeOK
  <2>4. Fine(rows[cur.id])
    BY <2>1 DEF Origins, Fine
  <2>2. Rescanned(rows[cur.id]) \in Row /\ Fine(Rescanned(rows[cur.id]))
    BY <2>1, <2>3, <2>4, RowsWritten, StaysFine
  <2> QED BY <1>5, <2>1, <2>2 DEF UpdateUnmanaged, Overwrites
<1>6. CASE InsertUnmanaged
  <2>1. Unmanaged(cur.vmid) \in Row /\ Fine(Unmanaged(cur.vmid))
    BY <1>6, RowsInserted DEF InsertUnmanaged, References
  <2> QED BY <1>6, <2>1 DEF InsertUnmanaged, Appends
<1>7. ASSUME NEW r \in missing, SweepRow(r) PROVE r \in DOMAIN rows
  BY DEF TypeOK
<1> QED
  BY <1>1, <1>2, <1>3, <1>4, <1>5, <1>6, <1>7
  DEF Next, vars, Server, Tasks, Scan, Cluster, ChooseVMID, LoadAdopt, LoadAddress, CheckAddress,
      ListVMs, LookUp, SelectMissing, ScanDone, ScanFails, VMAppears, VMVanishes

LEMMA TableChanges ==
  ASSUME TypeOK, References, Origins, [Next]_vars
  PROVE  /\ rows' \in Seq(Row) /\ DOMAIN rows \subseteq DOMAIN rows'
         /\ \A r \in DOMAIN rows' : Fine(rows'[r])
<1>1. rows \in Seq(Row) /\ \A r \in DOMAIN rows : Fine(rows[r])
  BY DEF TypeOK, Origins, Fine
<1> QED BY <1>1, Writes, TableStep

LEMMA TypeInit == Init => TypeOK
<1>1. StartVMID \in VMIDs
  BY VmidAssumption DEF VMIDs, Allocatable
<1> QED BY <1>1, BirthsAssumption DEF Init, TypeOK

\* Every step keeps the state well typed.
LEMMA TypeStep == TypeOK /\ References /\ Origins /\ [Next]_vars => TypeOK'
<1> SUFFICES ASSUME TypeOK, References, Origins, [Next]_vars PROVE TypeOK'
  OBVIOUS
<1>1. rows' \in Seq(Row)
  BY TableChanges
<1>0. Born => births' \in 0 .. MaxBirths
  BY BirthsAssumption DEF TypeOK, Born
<1> USE DEF TypeOK
<1>2. CASE UNCHANGED vars
  BY <1>2 DEF vars
<1>3. ASSUME NEW c \in Clients, NEW v \in Allocatable, ChooseVMID(c, v) PROVE TypeOK'
  <2>1. [op |-> "create", vmid |-> v] \in Request
    BY DEF Request, CreateRequest
  <2> QED BY <1>0, <1>1, <1>3, <2>1 DEF ChooseVMID, Begins, scanVars
<1>4. ASSUME NEW c \in Clients, CommitCreate(c) \/ CommitAdopt(c) \/ CheckAddress(c) \/ CommitAddress(c)
      PROVE  TypeOK'
  <2>1. req' \in [Clients -> Request \union {NoRequest}]
    <3>1. CASE Ends(c)
      BY <3>1 DEF Ends
    <3>2. CASE req[c].op = "ip" /\ req' = [req EXCEPT ![c].op = "checkedIP"]
      <4>1. req[c] \in IPRequest
        BY <3>2, Requests
      <4>2. [req[c] EXCEPT !.op = "checkedIP"] \in Request
        BY <4>1 DEF Request, IPRequest
      <4> QED BY <3>2, <4>2
    <3> QED BY <1>4, <3>1, <3>2 DEF CommitCreate, CommitAdopt, CheckAddress, CommitAddress
  <2> QED BY <1>1, <1>4, <2>1 DEF CommitCreate, CommitAdopt, CheckAddress, CommitAddress, scanVars
<1>5. ASSUME NEW c \in Clients, NEW r \in DOMAIN rows, NEW a \in Chosen,
             LoadAdopt(c, r, a) \/ LoadAddress(c, r, a)
      PROVE  TypeOK'
  <2>3. r \in Nat /\ rows[r] \in Row
    OBVIOUS
  <2>1. r \in Nat /\ rows[r].config \in {"user", "scan"}
    BY <2>3 DEF Row
  <2>2. /\ [op |-> "adopt", id |-> r, ip |-> a] \in Request
        /\ [op |-> "ip", id |-> r, ip |-> a, config |-> rows[r].config] \in Request
    BY <2>1 DEF Request, AdoptRequest, IPRequest
  <2> QED BY <1>1, <1>5, <2>2 DEF LoadAdopt, LoadAddress, Begins, scanVars
<1>6. ASSUME NEW r \in DOMAIN rows, DeleteVM(r) \/ ApplyTask(r) \/ DeleteTask(r) PROVE TypeOK'
  <2>3. rows[r] \in Row
    OBVIOUS
  <2>1. rows[r].ip \in Address \union {NoIP}
    BY <2>3 DEF Row
  <2>2. pve' \in [VMIDs -> Address \union {NoIP, Absent}] /\ found' \subseteq VMIDs
    BY <1>6, <2>1 DEF DeleteVM, ApplyTask, DeleteTask
  <2> QED BY <1>1, <1>6, <2>2 DEF DeleteVM, ApplyTask, DeleteTask, scanVars
<1>7. CASE ListVMs
  BY <1>1, <1>7 DEF ListVMs
<1>8. ASSUME NEW v \in left, LookUp(v) PROVE TypeOK'
  <2>1. cur' \in [vmid : VMIDs, id : Nat] \union {NoHit}
    BY <1>8 DEF LookUp, Holders
  <2> QED BY <1>1, <1>8, <2>1 DEF LookUp
<1>9. CASE UpdateUnmanaged \/ InsertUnmanaged
  <2>1. found' \subseteq VMIDs
    BY <1>9 DEF UpdateUnmanaged, InsertUnmanaged, Find, References
  <2> QED BY <1>1, <1>9, <2>1 DEF UpdateUnmanaged, InsertUnmanaged, Leave
<1>10. CASE SelectMissing
  BY <1>1, <1>10 DEF SelectMissing
<1>11. ASSUME NEW r \in missing, SweepRow(r) PROVE TypeOK'
  BY <1>1, <1>11 DEF SweepRow
<1>12. CASE ScanDone \/ ScanFails
  BY <1>1, <1>12 DEF ScanDone, ScanFails, Leave
<1>13. ASSUME NEW v \in Strangers, NEW a \in Chosen \union {NoIP}, VMAppears(v, a) PROVE TypeOK'
  BY <1>0, <1>1, <1>13, ChosenAssumption DEF VMAppears, scanVars
<1>14. ASSUME NEW v \in VMIDs, VMVanishes(v) PROVE TypeOK'
  BY <1>1, <1>14 DEF VMVanishes, scanVars
<1> QED
  BY <1>2, <1>3, <1>4, <1>5, <1>6, <1>7, <1>8, <1>9, <1>10, <1>11, <1>12, <1>13, <1>14
  DEF Next, Server, Tasks, Scan, Cluster

--------------------------------------------------------------------------------
(* What the steps do to the rows that hold a vmid.                         *)

Kept(r)  == rows'[r].vmid = rows[r].vmid /\ rows'[r].template = rows[r].template
Same     == \A v : Holders(v)' = Holders(v)
Loses(r) == \A v : Holders(v)' = Holders(v) \ {r}
Gains(x) == /\ ~Taken(x.vmid)
            /\ rows' = Append(rows, x)
            /\ Holders(x.vmid)' = {Len(rows) + 1}
            /\ \A v : v # x.vmid => Holders(v)' = Holders(v)

\* A row is overwritten that keeps its vmid and is not marked deleted.
LEMMA Overwritten ==
  ASSUME TypeOK, NEW r \in DOMAIN rows, NEW x,
         rows' = [rows EXCEPT ![r] = x],
         x.vmid = rows[r].vmid, x.template = rows[r].template, x.gone = rows[r].gone
  PROVE  Same /\ \A s \in DOMAIN rows : Kept(s)
BY DEF Same, Kept, Holders, Live, TypeOK

LEMMA MarkedDeleted ==
  ASSUME TypeOK, NEW r \in DOMAIN rows, rows' = [rows EXCEPT ![r].gone = TRUE]
  PROVE  Loses(r) /\ \A s \in DOMAIN rows : Kept(s)
<1>1. rows[r] \in Row /\ DOMAIN rows' = DOMAIN rows
  BY DEF TypeOK
<1>2. rows'[r].gone /\ rows'[r].vmid = rows[r].vmid /\ rows'[r].template = rows[r].template
  BY <1>1 DEF Row
<1>3. \A s \in DOMAIN rows : s # r => rows'[s] = rows[s]
  OBVIOUS
<1>4. Loses(r)
  BY <1>1, <1>2, <1>3 DEF Loses, Holders, Live
<1> QED BY <1>2, <1>3, <1>4 DEF Kept

LEMMA Inserted ==
  ASSUME TypeOK, NEW x \in Row, ~x.gone, ~Taken(x.vmid), rows' = Append(rows, x)
  PROVE  Gains(x) /\ \A s \in DOMAIN rows : Kept(s)
<1>1. DOMAIN rows' = DOMAIN rows \union {Len(rows) + 1} /\ Len(rows) + 1 \notin DOMAIN rows
  BY DEF TypeOK
<1>2. rows'[Len(rows) + 1] = x /\ \A s \in DOMAIN rows : rows'[s] = rows[s]
  BY DEF TypeOK
<1>3. \A v : v # x.vmid => Holders(v)' = Holders(v)
  BY <1>1, <1>2 DEF Holders, Live
<1>4. Holders(x.vmid)' = Holders(x.vmid) \union {Len(rows) + 1}
  BY <1>1, <1>2 DEF Holders, Live
<1>5. Holders(x.vmid) = {}
  BY DEF Taken
<1> QED BY <1>2, <1>3, <1>4, <1>5 DEF Gains, Kept

\* The scan's own writes.
LEMMA UpdateKeeps ==
  ASSUME TypeOK, References, UpdateUnmanaged
  PROVE  Same /\ \A s \in DOMAIN rows : Kept(s)
<1> DEFINE a == Rescanned(rows[cur.id])
<1>1. cur.id \in DOMAIN rows
  BY DEF UpdateUnmanaged, References, Holders
<1>2. a.vmid = rows[cur.id].vmid /\ a.template = rows[cur.id].template
      /\ a.gone = rows[cur.id].gone
  BY <1>1 DEF TypeOK, Row, Rescanned
<1>3. rows' = [rows EXCEPT ![cur.id] = a]
  BY DEF UpdateUnmanaged
<1> HIDE DEF a
<1> QED BY <1>1, <1>2, <1>3, Overwritten

LEMMA InsertGains ==
  ASSUME TypeOK, References, InsertUnmanaged, rows' # rows
  PROVE  /\ \E x : x = Unmanaged(cur.vmid) /\ Gains(x)
         /\ \A s \in DOMAIN rows : Kept(s)
<1>1. Unmanaged(cur.vmid) \in Row
  BY RowsInserted DEF InsertUnmanaged, References
<1>2. ~Taken(cur.vmid) /\ rows' = Append(rows, Unmanaged(cur.vmid))
  BY DEF InsertUnmanaged
<1>3. ~Unmanaged(cur.vmid).gone /\ Unmanaged(cur.vmid).vmid = cur.vmid
  BY DEF Unmanaged
<1>4. PICK x : x = Unmanaged(cur.vmid)
  OBVIOUS
<1>5. Gains(x) /\ \A s \in DOMAIN rows : Kept(s)
  BY <1>1, <1>2, <1>3, <1>4, Inserted
<1> QED BY <1>4, <1>5

\* Every step leaves the holders of vmids as they are, or takes one away
\* while no VM is being written by the scan, or adds one of a free vmid.
LEMMA Steps ==
  ASSUME TypeOK, References, Origins, [Next]_vars
  PROVE  /\ \A s \in DOMAIN rows : Kept(s)
         /\ \/ Same
            \/ \E r \in DOMAIN rows : /\ Loses(r)
                                    /\ \/ /\ wpc = "idle" /\ rows[r].vmid \notin found'
                                          /\ rows[r].todo = "delete"
                                       \/ wpc = "sweep" /\ r \in missing /\ ~rows[r].managed
            \/ \E x : Gains(x)
<1>1. CASE rows' = rows
  BY <1>1 DEF Same, Kept, Holders, Live
<1>2. ASSUME NEW c \in Clients, CommitCreate(c), rows' # rows
      PROVE  (\E x : Gains(x)) /\ \A s \in DOMAIN rows : Kept(s)
  <2>1. req[c].vmid \in Allocatable /\ DeriveIPv4(req[c].vmid) # NoIP
    BY <1>2, Requests DEF TypeOK, CommitCreate, CreateRequest, Origins
  <2>2. NewRow(req[c].vmid) \in Row
    BY <2>1, RowsInserted
  <2>3. ~Taken(req[c].vmid) /\ rows' = Append(rows, NewRow(req[c].vmid))
    BY <1>2 DEF CommitCreate
  <2>4. ~NewRow(req[c].vmid).gone /\ NewRow(req[c].vmid).vmid = req[c].vmid
    BY DEF NewRow
  <2>5. PICK x : x = NewRow(req[c].vmid)
    OBVIOUS
  <2>6. Gains(x) /\ \A s \in DOMAIN rows : Kept(s)
    BY <2>2, <2>3, <2>4, <2>5, Inserted
  <2> QED BY <2>6
<1>3. ASSUME NEW c \in Clients, CommitAdopt(c) \/ CommitAddress(c)
      PROVE  Same /\ \A s \in DOMAIN rows : Kept(s)
  <2>1. req[c].id \in DOMAIN rows /\ rows[req[c].id] \in Row
    BY <1>3 DEF TypeOK, References, CommitAdopt, CommitAddress
  <2> DEFINE a == Adopted(rows[req[c].id], req[c].ip)
             b == Addressed(rows[req[c].id], req[c])
             old == rows[req[c].id]
  <2>2. /\ a.vmid = old.vmid /\ a.template = old.template /\ a.gone = old.gone
        /\ b.vmid = old.vmid /\ b.template = old.template /\ b.gone = old.gone
    BY <2>1 DEF Adopted, Addressed, Row
  <2>3. rows' = [rows EXCEPT ![req[c].id] = a] \/ rows' = [rows EXCEPT ![req[c].id] = b]
    BY <1>3 DEF CommitAdopt, CommitAddress
  <2> HIDE DEF a, b
  <2> QED BY <2>1, <2>2, <2>3, Overwritten
<1>4. ASSUME NEW r \in DOMAIN rows, DeleteVM(r) \/ ApplyTask(r)
      PROVE  Same /\ \A s \in DOMAIN rows : Kept(s)
  <2> DEFINE a == [rows[r] EXCEPT !.todo = "delete"]
             b == [rows[r] EXCEPT !.todo = "none"]
  <2>1. /\ a.vmid = rows[r].vmid /\ a.template = rows[r].template /\ a.gone = rows[r].gone
        /\ b.vmid = rows[r].vmid /\ b.template = rows[r].template /\ b.gone = rows[r].gone
    BY DEF TypeOK, Row
  <2>2. rows' = [rows EXCEPT ![r] = a] \/ rows' = [rows EXCEPT ![r] = b]
    BY <1>4 DEF DeleteVM, ApplyTask
  <2> HIDE DEF a, b
  <2> QED BY <2>1, <2>2, Overwritten
<1>5. ASSUME NEW r \in DOMAIN rows, DeleteTask(r)
      PROVE  /\ Loses(r) /\ wpc = "idle" /\ rows[r].vmid \notin found' /\ rows[r].todo = "delete"
             /\ \A s \in DOMAIN rows : Kept(s)
  BY <1>5, MarkedDeleted DEF DeleteTask, Runnable
<1>6. CASE UpdateUnmanaged
  BY <1>6, UpdateKeeps
<1>7. ASSUME InsertUnmanaged, rows' # rows
      PROVE  (\E x : Gains(x)) /\ \A s \in DOMAIN rows : Kept(s)
  BY <1>7, InsertGains
<1>8. ASSUME NEW r \in missing, SweepRow(r), rows' # rows
      PROVE  /\ Loses(r) /\ wpc = "sweep" /\ r \in DOMAIN rows /\ ~rows[r].managed
             /\ \A s \in DOMAIN rows : Kept(s)
  <2>1. r \in DOMAIN rows
    BY DEF TypeOK
  <2> QED BY <1>8, <2>1, MarkedDeleted DEF SweepRow
<1>9. CASE Server
  BY <1>1, <1>2, <1>3, <1>4, <1>9
  DEF Server, ChooseVMID, LoadAdopt, LoadAddress, CheckAddress
<1>10. CASE Tasks
  <2>1. PICK r \in DOMAIN rows : ApplyTask(r) \/ DeleteTask(r)
    BY <1>10 DEF Tasks
  <2>2. CASE ApplyTask(r)
    BY <1>4, <2>2
  <2>3. CASE DeleteTask(r)
    <3>1. /\ Loses(r) /\ wpc = "idle" /\ rows[r].vmid \notin found' /\ rows[r].todo = "delete"
          /\ \A s \in DOMAIN rows : Kept(s)
      BY <1>5, <2>3
    <3> QED BY <3>1, Zenon
  <2> QED BY <2>1, <2>2, <2>3
<1>11. CASE Scan
  BY <1>1, <1>6, <1>7, <1>8, <1>11 DEF Scan, ListVMs, LookUp, SelectMissing, ScanDone
<1>12. CASE ScanFails \/ Cluster \/ UNCHANGED vars
  BY <1>1, <1>12 DEF ScanFails, Cluster, VMAppears, VMVanishes, vars
<1> QED BY <1>9, <1>10, <1>11, <1>12 DEF Next

--------------------------------------------------------------------------------
(* The parts of the invariant.                                             *)

LEMMA OnePerVMIDStep ==
  TypeOK /\ References /\ Origins /\ OnePerVMID /\ [Next]_vars => OnePerVMID'
<1> SUFFICES ASSUME TypeOK, References, Origins, OnePerVMID, [Next]_vars,
                    NEW v \in VMIDs
             PROVE  \A r, s \in Holders(v)' : r = s
  BY DEF OnePerVMID
<1>1. CASE Same
  BY <1>1 DEF Same, OnePerVMID
<1>2. ASSUME NEW r, Loses(r) PROVE \A s, u \in Holders(v)' : s = u
  BY <1>2 DEF Loses, OnePerVMID
<1>3. ASSUME NEW x, Gains(x) PROVE \A s, u \in Holders(v)' : s = u
  <2>1. CASE v = x.vmid
    BY <1>3, <2>1 DEF Gains
  <2>2. CASE v # x.vmid
    BY <1>3, <2>2 DEF Gains, OnePerVMID
  <2> QED BY <2>1, <2>2
<1> QED BY <1>1, <1>2, <1>3, Steps

\* Only a lookup makes the scan write a row.
LEMMA WriteGoesOn ==
  ASSUME [Next]_vars, wpc' = "write", ~\E v \in left : LookUp(v)
  PROVE  wpc = "write" /\ cur' = cur /\ seen' = seen
BY DEF Next, vars, scanVars, Leave, Server, Tasks, Scan, Cluster, ChooseVMID, LoadAdopt,
   LoadAddress, CheckAddress, CommitCreate, CommitAdopt, CommitAddress, DeleteVM, ApplyTask,
   DeleteTask, ListVMs, UpdateUnmanaged, InsertUnmanaged, SelectMissing, SweepRow, ScanDone,
   ScanFails, VMAppears, VMVanishes

\* While the scan is about to write a row nobody marks rows as deleted.
LEMMA ReferencesStep ==
  TypeOK /\ References /\ Origins /\ OnePerVMID /\ [Next]_vars => References'
<1> SUFFICES ASSUME TypeOK, References, Origins, OnePerVMID, [Next]_vars PROVE References'
  OBVIOUS
<1>1. DOMAIN rows \subseteq DOMAIN rows'
  BY TableChanges
<1>2. ASSUME NEW c \in Clients, req'[c].op \in {"adopt", "ip", "checkedIP"}
      PROVE  req'[c].id \in DOMAIN rows'
  <2>1. \/ req'[c] = req[c]
        \/ req'[c].id \in DOMAIN rows
        \/ req[c].op = "ip" /\ req'[c].id = req[c].id
    <3> DEFINE goal == \/ req'[c] = req[c]
                       \/ req'[c].id \in DOMAIN rows
                       \/ req[c].op = "ip" /\ req'[c].id = req[c].id
    <3>1. ASSUME NEW d \in Clients, NEW k, Begins(d, k), k.op = "create" \/ k.id \in DOMAIN rows
          PROVE  goal
      BY <1>2, <3>1 DEF Begins, TypeOK
    <3>2. ASSUME NEW d \in Clients, Ends(d) PROVE goal
      BY <1>2, <3>2 DEF Ends, NoRequest, TypeOK
    <3>3. ASSUME NEW d \in Clients, CheckAddress(d) PROVE goal
      <4>1. ASSUME req[d].op = "ip", req' = [req EXCEPT ![d].op = "checkedIP"] PROVE goal
        <5>1. req[d] \in IPRequest
          BY <4>1, Requests DEF TypeOK
        <5>2. req'[d].id = req[d].id
          BY <4>1, <5>1 DEF TypeOK, IPRequest
        <5>3. c # d => req'[c] = req[c]
          BY <4>1 DEF TypeOK
        <5> QED BY <4>1, <5>2, <5>3
      <4> QED BY <3>2, <3>3, <4>1 DEF CheckAddress
    <3>4. CASE Server
      BY <3>1, <3>2, <3>3, <3>4 DEF Server, ChooseVMID, LoadAdopt, LoadAddress, CommitCreate,
         CommitAdopt, CommitAddress, DeleteVM
    <3>5. CASE ~Server
      BY <3>5 DEF Next, vars, Tasks, Scan, Cluster, ApplyTask, DeleteTask, ListVMs, LookUp,
         UpdateUnmanaged, InsertUnmanaged, SelectMissing, SweepRow, ScanDone, ScanFails,
         VMAppears, VMVanishes
    <3> QED BY <3>4, <3>5
  <2> QED BY <1>1, <1>2, <2>1 DEF References
<1>3. ASSUME wpc' = "write"
      PROVE  (cur # NoHit /\ cur.vmid \in seen /\ (cur.id # 0 => cur.id \in Holders(cur.vmid)))'
  <2>1. CASE \E v \in left : LookUp(v)
    <3>1. PICK v \in left : LookUp(v)
      BY <2>1
    <3>2. rows' = rows /\ seen' = seen /\ v \in seen
      BY <3>1 DEF LookUp, TypeOK
    <3>3. wpc = "scan"
      BY <3>1 DEF LookUp
    <3>4. cur'.vmid = v /\ cur' # NoHit /\ (cur'.id = 0 \/ cur'.id \in Holders(v))
      BY <1>3, <3>1, <3>3 DEF LookUp, NoHit
    <3> QED BY <3>2, <3>4 DEF Holders, Live
  <2>2. CASE ~\E v \in left : LookUp(v)
    <3>1. wpc = "write" /\ cur' = cur /\ seen' = seen
      BY <1>3, <2>2, WriteGoesOn
    <3>2. cur # NoHit /\ cur.vmid \in seen /\ (cur.id # 0 => cur.id \in Holders(cur.vmid))
      BY <3>1 DEF References
    <3>3. ASSUME cur.id # 0, NEW u, u = cur.vmid PROVE Holders(u) \subseteq Holders(u)'
      <4>1. Taken(u)
        BY <3>2, <3>3 DEF Taken
      <4>2. CASE Same
        BY <4>2 DEF Same
      <4>3. ASSUME NEW x, Gains(x) PROVE Holders(u) \subseteq Holders(u)'
        BY <4>1, <4>3 DEF Gains
      <4> QED BY <3>1, <4>2, <4>3, Steps
    <3>4. cur.id # 0 => (cur.id \in Holders(cur.vmid))'
      BY <3>1, <3>2, <3>3 DEF Holders, Live
    <3> QED BY <3>1, <3>2, <3>4
  <2> QED BY <2>1, <2>2
<1> QED BY <1>2, <1>3 DEF References

\* Where a request or the scan gets what Origins says of it.
LEMMA OriginsStep ==
  TypeOK /\ References /\ Origins /\ OnePerVMID /\ [Next]_vars => Origins'
<1> SUFFICES ASSUME TypeOK, References, Origins, OnePerVMID, [Next]_vars PROVE Origins'
  OBVIOUS
<1>1. \A r \in DOMAIN rows' : Fine(rows'[r])
  BY TableChanges
<1>2. ASSUME NEW c \in Clients, req'[c].op = "create" PROVE DeriveIPv4(req'[c].vmid) # NoIP
  <2> DEFINE goal == req'[c] = req[c] \/ DeriveIPv4(req'[c].vmid) # NoIP
  <2>1. ASSUME NEW d \in Clients, NEW v, ChooseVMID(d, v) PROVE goal
    BY <2>1 DEF ChooseVMID, Begins, TypeOK
  <2>2. ASSUME NEW d \in Clients, NEW k, Begins(d, k), k.op # "create" PROVE goal
    BY <1>2, <2>2 DEF Begins, TypeOK
  <2>3. ASSUME NEW d \in Clients, Ends(d) PROVE goal
    BY <1>2, <2>3 DEF Ends, NoRequest, TypeOK
  <2>4. ASSUME NEW d \in Clients, CheckAddress(d) PROVE goal
    <3>1. ASSUME req[d].op = "ip", req' = [req EXCEPT ![d].op = "checkedIP"] PROVE goal
      <4>1. req[d] \in IPRequest
        BY <3>1, Requests DEF TypeOK
      <4>2. req'[d].op = "checkedIP"
        BY <3>1, <4>1 DEF TypeOK, IPRequest
      <4>3. c # d => req'[c] = req[c]
        BY <3>1 DEF TypeOK
      <4> QED BY <1>2, <4>2, <4>3
    <3> QED BY <2>3, <2>4, <3>1 DEF CheckAddress
  <2>5. ASSUME Server PROVE goal
    BY <2>1, <2>2, <2>3, <2>4, <2>5 DEF Server, LoadAdopt, LoadAddress, CommitCreate,
       CommitAdopt, CommitAddress, DeleteVM
  <2>6. ASSUME ~Server PROVE goal
    BY <2>6 DEF Next, vars, Tasks, Scan, Cluster, ApplyTask, DeleteTask, ListVMs, LookUp,
       UpdateUnmanaged, InsertUnmanaged, SelectMissing, SweepRow, ScanDone, ScanFails,
       VMAppears, VMVanishes
  <2> QED BY <1>2, <2>5, <2>6 DEF Origins
<1>3. ASSUME wpc' = "write", cur'.id # 0 PROVE ~rows'[cur'.id].template
  <2>1. CASE \E v \in left : LookUp(v)
    <3>1. PICK v \in left : LookUp(v)
      BY <2>1
    <3>2. cur'.id \in Holders(v) /\ ~rows[cur'.id].managed
      BY <1>3, <3>1 DEF LookUp
    <3> QED BY <3>1, <3>2 DEF LookUp, Origins, Holders
  <2>2. CASE ~\E v \in left : LookUp(v)
    <3>1. wpc = "write" /\ cur' = cur
      BY <1>3, <2>2, WriteGoesOn
    <3>2. cur.id \in DOMAIN rows
      BY <1>3, <3>1 DEF References, Holders
    <3>3. Kept(cur.id)
      BY <3>2, Steps
    <3> QED BY <1>3, <3>1, <3>3 DEF Origins, Kept
  <2> QED BY <2>1, <2>2
<1> QED BY <1>1, <1>2, <1>3 DEF Origins, Fine

\* What the scan finds is on the cluster and on the scan's list.
LEMMA Finds ==
  ASSUME TypeOK, References, FoundListed, UpdateUnmanaged \/ InsertUnmanaged
  PROVE  /\ \A v \in found' : v \in found \/ (v = cur.vmid /\ pve[v] # Absent)
         /\ cur.vmid \in seen
         /\ wpc = "write"
<1>1. wpc = "write" /\ cur.vmid \in seen
  BY DEF UpdateUnmanaged, InsertUnmanaged, References
<1>2. Find \/ found' = found
  BY DEF UpdateUnmanaged, InsertUnmanaged
<1>3. \A v \in found' : v \in found \/ (v = cur.vmid /\ pve[v] # Absent)
  <2>1. CASE pve[cur.vmid] = Absent
    BY <1>2, <2>1 DEF Find
  <2>2. CASE pve[cur.vmid] # Absent /\ found' = found \union {cur.vmid}
    BY <2>2
  <2> QED BY <1>2, <2>1, <2>2 DEF Find
<1> QED BY <1>1, <1>3

\* A VM that was found stays on the list of a scan that is under way.
LEMMA FoundListedStep ==
  TypeOK /\ References /\ Origins /\ FoundListed /\ [Next]_vars => FoundListed'
<1> SUFFICES ASSUME TypeOK, References, Origins, FoundListed, [Next]_vars PROVE FoundListed'
  OBVIOUS
<1>1. \A r \in missing : r \in DOMAIN rows /\ rows'[r].vmid = rows[r].vmid
  BY Steps DEF Kept, TypeOK
<1>2. ASSUME UNCHANGED <<pve, scanVars, found>> PROVE FoundListed'
  BY <1>1, <1>2 DEF FoundListed, scanVars
<1>3. ASSUME NEW r \in DOMAIN rows, ApplyTask(r) \/ DeleteTask(r) PROVE FoundListed'
  <2>1. rows[r] \in Row
    BY DEF TypeOK
  <2>2. rows[r].ip # Absent /\ rows[r].vmid \in VMIDs
    BY <2>1, AbsentAssumption DEF Row
  <2>3. \A v \in found' : v \in found /\ pve'[v] # Absent
    BY <1>3, <2>2 DEF ApplyTask, DeleteTask, FoundListed, TypeOK
  <2> QED BY <1>1, <1>3, <2>3 DEF ApplyTask, DeleteTask, FoundListed, scanVars
<1>4. CASE ListVMs
  <2>1. found \subseteq seen'
    BY <1>4 DEF ListVMs, FoundListed, TypeOK
  <2> QED BY <1>4, <2>1 DEF ListVMs, FoundListed
<1>5. ASSUME NEW v \in left, LookUp(v) PROVE FoundListed'
  BY <1>1, <1>5 DEF LookUp, FoundListed
<1>6. CASE UpdateUnmanaged \/ InsertUnmanaged
  <2>1. \A v \in found' : v \in seen /\ pve[v] # Absent
    BY <1>6, Finds DEF FoundListed
  <2> QED BY <1>1, <1>6, <2>1 DEF UpdateUnmanaged, InsertUnmanaged, FoundListed, Leave
<1>7. CASE SelectMissing
  BY <1>7 DEF SelectMissing, FoundListed
<1>8. ASSUME NEW r \in missing, SweepRow(r) PROVE FoundListed'
  BY <1>1, <1>8 DEF SweepRow, FoundListed
<1>9. CASE ScanDone \/ ScanFails
  BY <1>9 DEF ScanDone, ScanFails, Leave, FoundListed
<1>10. CASE Cluster
  <2>1. \A v \in found' : v \in found /\ pve'[v] # Absent
    BY <1>10, ChosenAssumption, AbsentAssumption
    DEF Cluster, VMAppears, VMVanishes, FoundListed, TypeOK, VMIDs
  <2> QED BY <1>1, <1>10, <2>1 DEF Cluster, VMAppears, VMVanishes, FoundListed, scanVars
<1>11. CASE Server
  BY <1>2, <1>11 DEF Server, ChooseVMID, CommitCreate, LoadAdopt, LoadAddress, CommitAdopt,
     CheckAddress, CommitAddress, DeleteVM
<1>12. CASE UNCHANGED vars
  BY <1>2, <1>12 DEF vars, scanVars
<1> QED
  BY <1>3, <1>4, <1>5, <1>6, <1>7, <1>8, <1>9, <1>10, <1>11, <1>12 DEF Next, Tasks, Scan

\* Only the scan finds VMs.
LEMMA OnlyScanFinds ==
  ASSUME TypeOK, References, FoundListed, [Next]_vars
  PROVE  \/ found' \subseteq found
         \/ UpdateUnmanaged /\ \A v \in found' : v \in found \/ v = cur.vmid
         \/ InsertUnmanaged /\ rows' = Append(rows, Unmanaged(cur.vmid))
            /\ \A v \in found' : v \in found \/ v = cur.vmid
<1>1. CASE UpdateUnmanaged \/ InsertUnmanaged
  BY <1>1, Finds DEF InsertUnmanaged
<1>2. CASE ~(UpdateUnmanaged \/ InsertUnmanaged)
  BY <1>2 DEF Next, vars, Server, Tasks, Scan, Cluster, ChooseVMID, CommitCreate, LoadAdopt,
     LoadAddress, CommitAdopt, CheckAddress, CommitAddress, DeleteVM, ApplyTask, DeleteTask,
     ListVMs, LookUp, SelectMissing, SweepRow, ScanDone, ScanFails, VMAppears, VMVanishes
<1> QED BY <1>1, <1>2

LEMMA ScannedKeptStep ==
  IInv /\ [Next]_vars => ScannedKept'
<1> SUFFICES ASSUME TypeOK, OnePerVMID, References, Origins, FoundListed, ScannedKept, [Next]_vars,
                    NEW v \in found'
             PROVE  Taken(v)' /\ \A s \in Holders(v)' : ~rows'[s].template
  BY DEF IInv, ScannedKept
<1>1. \A s \in DOMAIN rows : Kept(s)
  BY Steps
<1>2. ASSUME v \in found PROVE Taken(v)' /\ \A s \in Holders(v)' : ~rows'[s].template
  <2>1. Holders(v) # {} /\ \A s \in Holders(v) : s \in DOMAIN rows /\ ~rows[s].template
    BY <1>2 DEF ScannedKept, Taken, Holders
  <2>2. Holders(v)' = Holders(v)
    <3>1. CASE Same
      BY <3>1 DEF Same
    <3>2. ASSUME NEW r \in DOMAIN rows, Loses(r),
                 \/ wpc = "idle" /\ rows[r].vmid \notin found'
                 \/ wpc = "sweep" /\ r \in missing
          PROVE  Holders(v)' = Holders(v)
      <4>1. rows[r].vmid # v
        BY <1>2, <3>2 DEF FoundListed
      <4> QED BY <3>2, <4>1 DEF Loses, Holders
    <3>3. ASSUME NEW x, Gains(x) PROVE Holders(v)' = Holders(v)
      BY <2>1, <3>3 DEF Gains, Taken
    <3> QED BY <3>1, <3>2, <3>3, Steps
  <2> QED BY <1>1, <2>1, <2>2 DEF Taken, Kept
<1>3. ASSUME v \notin found, UpdateUnmanaged, v = cur.vmid
      PROVE  Taken(v)' /\ \A s \in Holders(v)' : ~rows'[s].template
  <2>1. cur.id \in Holders(v) /\ v \in VMIDs /\ ~rows[cur.id].template
    BY <1>3 DEF UpdateUnmanaged, References, Origins, TypeOK
  <2>2. Holders(v) = {cur.id} /\ cur.id \in DOMAIN rows
    BY <2>1 DEF OnePerVMID, Holders
  <2>3. Holders(v)' = Holders(v)
    BY <1>3, UpdateKeeps DEF Same
  <2> QED BY <1>1, <2>1, <2>2, <2>3 DEF Taken, Kept
<1>4. ASSUME v \notin found, InsertUnmanaged, v = cur.vmid, rows' = Append(rows, Unmanaged(v))
      PROVE  Taken(v)' /\ \A s \in Holders(v)' : ~rows'[s].template
  <2>1. rows' # rows
    BY <1>4 DEF TypeOK
  <2>2. PICK x : x = Unmanaged(v) /\ Gains(x)
    BY <1>4, <2>1, InsertGains
  <2>3. x.vmid = v /\ ~x.template
    BY <2>2 DEF Unmanaged
  <2>4. rows'[Len(rows) + 1] = x
    BY <2>2 DEF Gains, TypeOK
  <2>5. Holders(v)' = {Len(rows) + 1}
    BY <2>2, <2>3 DEF Gains
  <2> QED BY <2>3, <2>4, <2>5 DEF Taken
<1> QED BY <1>2, <1>3, <1>4, OnlyScanFinds

--------------------------------------------------------------------------------
(* The theorems.                                                           *)

\* The unique index, the lookups by vmid and the conditional UPDATE of the
\* sweep keep the table consistent under every interleaving of requests,
\* tasks and scans (IInv has ScannedKept as a part).
THEOREM Invariance == Spec => []IInv
<1>1. Init => IInv
  <2> SUFFICES ASSUME Init PROVE IInv
    OBVIOUS
  <2>1. TypeOK
    BY TypeInit
  <2>2. OnePerVMID /\ References
    BY DEF Init, OnePerVMID, Holders, References, NoRequest
  <2>3. Origins
    BY DEF Init, Origins, NoRequest
  <2>4. FoundListed /\ ScannedKept
    BY DEF Init, FoundListed, ScannedKept
  <2> QED BY <2>1, <2>2, <2>3, <2>4 DEF IInv
<1>2. IInv /\ [Next]_vars => IInv'
  BY TypeStep, OnePerVMIDStep, ReferencesStep, OriginsStep, FoundListedStep, ScannedKeptStep DEF IInv
<1> QED BY <1>1, <1>2, PTL DEF Spec

\* A VM that a scan has found is never handed to a task of a VM that was
\* created (nextClusterVMID, upsertUnmanagedVM, markMissingUnmanagedVMsDeleted).
THEOREM ScannedKeptHolds == Spec => []ScannedKept
<1>1. IInv => ScannedKept
  BY DEF IInv
<1> QED BY <1>1, Invariance, PTL

\* An address that was derived lies as far from start_ip as the vmid from
\* start_vmid, and no two created VMs have the same (deriveIPv4).
THEOREM DerivedAddressesHolds == Spec => []DerivedAddresses
<1>1. IInv => DerivedAddresses
  <2> SUFFICES ASSUME IInv, NEW r \in DOMAIN rows, Live(r), rows[r].ipFrom = "derived"
               PROVE  /\ Number(rows[r].ip) = Number(StartIP) + rows[r].vmid - StartVMID
                      /\ \A s \in DOMAIN rows \ {r} :
                           Live(s) /\ rows[s].ipFrom = "derived" => rows[s].ip # rows[r].ip
    BY DEF DerivedAddresses
  <2>1. Number(StartIP) \in Nat
    <3>1. StartIP[1] \in Nat /\ StartIP[2] \in Nat /\ StartIP[3] \in Nat /\ StartIP[4] \in Nat
      BY StartAssumption DEF Address, Octet
    <3> QED BY <3>1 DEF Number
  <2>2. ASSUME NEW s \in DOMAIN rows, rows[s].ipFrom = "derived"
        PROVE  /\ rows[s].vmid \in Nat /\ rows[s].vmid \in VMIDs
               /\ Number(rows[s].ip) = Number(StartIP) + (rows[s].vmid - StartVMID)
    <3>1. rows[s].ip = DeriveIPv4(rows[s].vmid) /\ rows[s].vmid \in Allocatable /\ rows[s].ip # NoIP
      BY <2>2 DEF IInv, Origins
    <3>2. rows[s].vmid - StartVMID \in Nat /\ rows[s].vmid \in Nat
      BY <3>1, VmidAssumption DEF Allocatable
    <3> QED BY <3>1, <3>2, AddIPv4Adds, StartAssumption DEF DeriveIPv4, VMIDs
  <2>3. Number(rows[r].ip) = Number(StartIP) + rows[r].vmid - StartVMID
    BY <2>1, <2>2, VmidAssumption
  <2>4. ASSUME NEW s \in DOMAIN rows \ {r}, Live(s), rows[s].ipFrom = "derived",
               rows[s].ip = rows[r].ip
        PROVE  FALSE
    <3>1. rows[s].vmid = rows[r].vmid
      BY <2>1, <2>2, <2>4, VmidAssumption
    <3>2. r \in Holders(rows[r].vmid) /\ s \in Holders(rows[r].vmid)
      BY <2>4, <3>1 DEF Holders
    <3>3. rows[r].vmid \in VMIDs
      BY <2>2
    <3> QED BY <2>4, <3>2, <3>3 DEF IInv, OnePerVMID
  <2> QED BY <2>3, <2>4
<1> QED BY <1>1, Invariance, PTL

\* The sweep never marks the row of a managed VM as deleted
\* (markMissingUnmanagedVMsDeleted).
THEOREM ManagedNotSweptHolds == Spec => ManagedNotSwept
<1> DEFINE Unswept == \A r \in DOMAIN rows :
             Live(r) /\ rows[r].managed /\ rows'[r].gone => rows[r].todo = "delete"
<1>1. IInv /\ [Next]_vars => Unswept
  <2> SUFFICES ASSUME TypeOK, References, Origins, [Next]_vars,
                      NEW r \in DOMAIN rows, Live(r), rows[r].managed, rows'[r].gone
               PROVE  rows[r].todo = "delete"
    BY DEF IInv
  <2>1. PICK v : v = rows[r].vmid
    OBVIOUS
  <2>2. r \in Holders(v) /\ r \notin Holders(v)'
    BY <2>1 DEF Holders, Live
  <2>3. CASE Same
    BY <2>2, <2>3 DEF Same
  <2>4. ASSUME NEW s \in DOMAIN rows, Loses(s), rows[s].todo = "delete" \/ ~rows[s].managed
        PROVE  rows[r].todo = "delete"
    BY <2>2, <2>4 DEF Loses
  <2>5. ASSUME NEW x, Gains(x) PROVE FALSE
    BY <2>2, <2>5 DEF Gains, Taken
  <2> QED BY <2>3, <2>4, <2>5, Steps
<1> QED BY <1>1, Invariance, PTL DEF Spec, ManagedNotSwept
================================================================================

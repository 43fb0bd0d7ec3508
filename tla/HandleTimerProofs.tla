-------------------------- MODULE HandleTimerProofs --------------------------
(***************************************************************************)
(* Theorems about HandleTable and TimerWheel, for any number of threads,   *)
(* contexts, names, handles and timeouts and any size of the table and of  *)
(* the wheel.                                                              *)
(*                                                                         *)
(* Induction over numbers is by sets: a set of numbers has a least member  *)
(* (Least), and one that has 0 and every successor has all (Climb). A      *)
(* recursive function is unfolded by exhibiting a function that satisfies  *)
(* its equation, so that the one chosen does (BetweenIs, KeptIs, MovedIs). *)
(*                                                                         *)
(* The lock: a thread is counted where it has incremented read, one thread *)
(* at most has set write, and every action moves a thread between these    *)
(* places in one of eight ways (Move).                                     *)
(*                                                                         *)
(* The table: a context is in the slot of its handle, or of the one that   *)
(* it is about to get; the size of the table divides the number of         *)
(* handles, so that handles that agree in the larger table agree in the    *)
(* smaller one; the names are sorted; and a pass of retireall leaves       *)
(* nothing behind. From that, every step is a step of Directory.           *)
(*   - SoleLauncher: one thread launches, as it is where every launch goes *)
(*     through the launcher service. Two registrations that overlap break  *)
(*     the invariant: a table is rehashed by handles that are still 0.     *)
(*   - ZeroUnused: 0 is not the handle of a context. It is none by itself  *)
(*     if there is a harbor; without one the index of handles must not     *)
(*     wrap, as 0 comes next then, and nobody may look 0 up.               *)
(*                                                                         *)
(* The timer: a timeout that is not yet due is in the list that add_node   *)
(* would choose for it now, and each list has the timeouts of one tick in  *)
(* the order of the calls. timer_shift restores this: it spreads the one   *)
(* list for which the tick has changed the choice, and timeouts of one     *)
(* tick are always in the same list.                                       *)
(***************************************************************************)
EXTENDS HandleTable, TimerWheel, FiniteSetTheorems, SequenceTheorems, WellFoundedInduction, TLAPS

-----------------------------------------------------------------------------
(* Numbers                                                                 *)

\* A set of numbers that is not empty has a least one.
LEMMA Least ==
    ASSUME NEW T \in SUBSET Nat, T # {}
    PROVE  \E x \in T : \A y \in T : x <= y
<1> DEFINE R == {ss \in Nat \X Nat : ss[1] < ss[2]}
<1>1. IsWellFoundedOn(R, Nat)
  BY NatLessThanWellFounded DEF OpToRel
<1>2. \A x, y \in Nat : y < x => <<y, x>> \in R OBVIOUS
<1> HIDE DEF R
<1>3. PICK x \in T : \A y \in T : ~(<<y, x>> \in R)
  BY <1>1, WFMin
<1>4. \A y \in T : x <= y
  <2> TAKE y \in T
  <2>1. x \in Nat /\ y \in Nat OBVIOUS
  <2>2. ~(y < x) BY <1>2, <1>3, <2>1
  <2> QED BY <2>1, <2>2
<1> QED BY <1>4

\* Induction, for a set of numbers.
LEMMA Climb ==
    ASSUME NEW N \in Nat, NEW T, 0 \in T, \A k \in 0..N : k < N /\ k \in T => k + 1 \in T
    PROVE  \A k \in 0..N : k \in T
<1>1. SUFFICES ASSUME NEW z \in 0..N, z \notin T PROVE FALSE OBVIOUS
<1> DEFINE S == (0..N) \ T
<1>2. S \in SUBSET Nat /\ S # {} BY <1>1
<1>3. PICK x \in S : \A y \in S : x <= y BY <1>2, Least
<1>4. x - 1 \in 0..N /\ x - 1 < N /\ x - 1 \notin S BY <1>3
<1> QED BY <1>3, <1>4

\* What % and \div compute.
LEMMA DivMod ==
    ASSUME NEW a \in Nat, NEW z \in Nat \ {0}
    PROVE  a % z \in Nat /\ a % z < z /\ a \div z \in Nat /\ a = z * (a \div z) + (a % z)
OBVIOUS

\* The same, to pick the two numbers.
LEMMA Divided ==
    ASSUME NEW a \in Nat, NEW z \in Nat \ {0}
    PROVE  \E q \in Nat, r \in Nat : q = a \div z /\ r = a % z /\ r < z /\ a = z * q + r
<1>1. a \div z \in Nat /\ a % z \in Nat /\ a % z < z /\ a = z * (a \div z) + (a % z) BY DivMod
<1> QED BY <1>1, Zenon

\* Nothing else is a quotient and a remainder.
LEMMA ModUnique ==
    ASSUME NEW z \in Nat \ {0}, NEW q \in Nat, NEW r \in Nat, r < z
    PROVE  (z * q + r) % z = r /\ (z * q + r) \div z = q
<1>1. ASSUME NEW x \in Nat, NEW y \in Nat, x < y PROVE z * x + z <= z * y
  <2>1. y = x + 1 + (y - x - 1) /\ y - x - 1 \in Nat BY <1>1
  <2>2. PICK d \in Nat : y = x + 1 + d BY <2>1
  <2>3. z * y = z * x + z + z * d BY <2>2
  <2>4. z * d >= 0 OBVIOUS
  <2> QED BY <2>3, <2>4
<1>2. PICK a \in Nat : a = z * q + r
  OBVIOUS
<1>3. PICK p \in Nat, s \in Nat : p = a \div z /\ s = a % z /\ s < z /\ a = z * p + s BY Divided
<1>4. ~(p < q) BY <1>1, <1>2, <1>3
<1>5. ~(q < p) BY <1>1, <1>2, <1>3
<1>6. p = q BY <1>4, <1>5
<1> QED BY <1>2, <1>3, <1>6

\* A multiple of z does not change what is left by z.
LEMMA ModPlus ==
    ASSUME NEW z \in Nat \ {0}, NEW a \in Nat, NEW b \in Nat, b % z = 0
    PROVE  (a + b) % z = a % z
<1>1. PICK p \in Nat, r \in Nat : r = a % z /\ r < z /\ a = z * p + r BY Divided
<1>2. PICK q \in Nat : b = z * q BY DivMod
<1>3. PICK s \in Nat : s = p + q OBVIOUS
<1>4. a + b = z * s + r
  <2>1. z * s = z * p + z * q BY <1>3
  <2> HIDE <1>3
  <2> QED BY <1>1, <1>2, <2>1
<1>5. (z * s + r) % z = r BY <1>1, ModUnique
<1> QED BY <1>1, <1>4, <1>5

\* What divides a divisor divides.
LEMMA Divides ==
    ASSUME NEW z \in Nat \ {0}, NEW w \in Nat \ {0}, w % z = 0, NEW a \in Nat
    PROVE  /\ (a % w) % z = a % z
           /\ a % w = 0 => a % z = 0
<1>1. PICK p \in Nat, r \in Nat : p = a \div w /\ r = a % w /\ r < w /\ a = w * p + r
  BY Divided, Zenon
<1>2. PICK q \in Nat : w = z * q
  <2>1. PICK q \in Nat, s \in Nat : s = w % z /\ w = z * q + s BY Divided
  <2>2. z * q \in Nat BY <2>1
  <2>3. w = z * q BY <2>1, <2>2
  <2> QED BY <2>3
<1>3. w * p = z * (q * p) /\ q * p \in Nat BY <1>2
<1>4. PICK s \in Nat : s = q * p BY <1>3
<1>5. (z * s) % z = 0
  <2>1. (z * s + 0) % z = 0 BY ModUnique
  <2> QED BY <2>1
<1>6. a = r + z * s /\ z * s \in Nat BY <1>1, <1>3, <1>4
<1>7. (r + z * s) % z = r % z BY <1>5, <1>6, ModPlus
<1>8. 0 % z = 0 BY DivMod
<1> QED BY <1>1, <1>6, <1>7, <1>8

\* Where a context goes in the larger table: it stays, or moves by the old size.
LEMMA Doubles ==
    ASSUME NEW z \in Nat \ {0}, NEW a \in Nat
    PROVE  a % (z * 2) \in {a % z, (a % z) + z}
<1>1. PICK p \in Nat, r \in Nat : r = a % (z * 2) /\ r < z * 2 /\ a = (z * 2) * p + r
  <2>1. z * 2 \in Nat \ {0} OBVIOUS
  <2> QED BY <2>1, Divided
<1>2. PICK q \in Nat : q = p * 2 OBVIOUS
<1>3. (z * 2) * p = z * q BY <1>2
<1>4. CASE r < z
  <2>1. (z * q + r) % z = r BY <1>4, ModUnique
  <2>2. a = z * q + r BY <1>1, <1>3
  <2>3. a % z = r BY <2>1, <2>2
  <2> QED BY <1>1, <2>3
<1>5. CASE r >= z
  <2>1. r - z \in Nat /\ r - z < z /\ q + 1 \in Nat BY <1>1, <1>5
  <2>2. z * (q + 1) + (r - z) = a BY <1>1, <1>3
  <2>3. (z * (q + 1) + (r - z)) % z = r - z BY <2>1, ModUnique
  <2>4. a % z = r - z BY <2>2, <2>3
  <2>5. r = (a % z) + z BY <2>4
  <2> QED BY <1>1, <2>5
<1> QED BY <1>4, <1>5

\* A power of two is divided by twice what divides it, unless that is itself.
LEMMA PowerDivides ==
    ASSUME NEW m \in Nat \ {0}, IsPower(m), NEW z \in Nat \ {0}, m % z = 0, z * 2 <= m
    PROVE  m % (z * 2) = 0
<1>1. PICK q \in Nat : m = z * q BY DivMod
<1>2. q >= 2 /\ q <= m
  <2>1. q # 0 /\ q # 1 BY <1>1
  <2>2. z * q >= q
    <3>1. PICK y \in Nat : z = y + 1 BY z - 1 \in Nat
    <3>2. z * q = y * q + q /\ y * q \in Nat BY <3>1
    <3> QED BY <3>2
  <2> QED BY <1>1, <2>1, <2>2
<1>3. m % q = 0
  <2>1. (q * z + 0) % q = 0 BY <1>2, ModUnique
  <2> QED BY <1>1, <2>1
<1>4. q % 2 = 0 BY <1>2, <1>3 DEF IsPower
<1>5. PICK u \in Nat : q = 2 * u BY <1>4, DivMod
<1>6. m = (z * 2) * u + 0 /\ z * 2 \in Nat \ {0} BY <1>1, <1>5
<1> QED BY <1>6, ModUnique

\* z numbers in a row leave everything that z can leave.
LEMMA Covers ==
    ASSUME NEW z \in Nat \ {0}, NEW b \in Nat, NEW r \in 0..(z - 1)
    PROVE  \E k \in 0..(z - 1) : (k + b) % z = r
<1>1. PICK p \in Nat, s \in Nat : s = b % z /\ s < z /\ b = z * p + s BY Divided
<1>2. CASE r >= s
  <2>1. r - s \in 0..(z - 1) /\ (r - s) + b = z * p + r BY <1>1, <1>2
  <2>2. (z * p + r) % z = r BY ModUnique
  <2> QED BY <2>1, <2>2
<1>3. CASE r < s
  <2>1. r - s + z \in 0..(z - 1) /\ (r - s + z) + b = z * (p + 1) + r BY <1>1, <1>3
  <2>2. (z * (p + 1) + r) % z = r BY ModUnique
  <2> QED BY <2>1, <2>2
<1> QED BY <1>1, <1>2, <1>3

-----------------------------------------------------------------------------
(* The lock                                                                *)

\* Where a thread is counted among the readers, and where it holds the flag.
CountedPc == {"rcheck", "reading", "rback"}
FlagPc == {"wwait", "writing", "resize", "aborted"}
Label == CountedPc \cup FlagPc
         \cup {"idle", "rlock", "rcount", "wlock", "assign", "sweep"}

\* The threads that are counted.
Counted == {p \in Proc : pc[p] \in CountedPc}

\* The count is that of the threads that are counted, one thread at most has set the flag,
\* and nobody reads while it writes.
LockInv ==
    /\ pc \in [Proc -> Label]
    /\ write \in BOOLEAN
    /\ read = Cardinality(Counted)
    /\ write <=> \E p \in Proc : pc[p] \in FlagPc
    /\ \A p, o \in Proc : pc[p] \in FlagPc /\ pc[o] \in FlagPc => p = o
    /\ \A p, o \in Proc : pc[p] \in WritingPc => pc[o] # "reading"

\* From where p goes to where.
From(p, A, B) == pc[p] \in A /\ pc' = [pc EXCEPT ![p] = pc'[p]] /\ pc'[p] \in B

\* Where a thread neither is counted nor holds the flag.
OutsidePc == {"idle", "rlock", "rcount", "wlock", "assign", "sweep"}

\* The moves of a thread with respect to the lock.
Outside(p) == From(p, OutsidePc, OutsidePc) /\ UNCHANGED lock
Counts(p) == From(p, OutsidePc, {"rcheck"}) /\ read' = read + 1 /\ UNCHANGED write
Enters(p) == From(p, {"rcheck"}, {"reading"}) /\ ~write /\ UNCHANGED lock
BacksOff(p) == From(p, {"rcheck"}, {"rback"}) /\ UNCHANGED lock
Discounts(p) == From(p, CountedPc, OutsidePc) /\ read' = read - 1 /\ UNCHANGED write
Flags(p) == From(p, OutsidePc, {"wwait"}) /\ ~write /\ write' = TRUE /\ UNCHANGED read
Writes(p) ==
    /\ From(p, FlagPc, {"writing", "resize", "aborted"})
    /\ pc[p] = "wwait" => read = 0
    /\ pc[p] # "aborted"
    /\ UNCHANGED lock
Unflags(p) == From(p, FlagPc, OutsidePc) /\ write' = FALSE /\ UNCHANGED read

Move(p) ==
    \/ Outside(p) \/ Counts(p) \/ Enters(p) \/ BacksOff(p) \/ Discounts(p)
    \/ Flags(p) \/ Writes(p) \/ Unflags(p)

-----------------------------------------------------------------------------

\* Every action of HandleTable is a move of the lock.
LEMMA StepIsMove ==
    ASSUME LockInv, NEW p \in Proc, Calls(p) \/ Runs(p)
    PROVE  Move(p)
<1>0. pc \in [Proc -> Label] /\ pc[p] \in Label
    BY DEF LockInv
<1> USE <1>0 DEF Goto, From, lock, Label, CountedPc, FlagPc, OutsidePc
<1>1. CASE Calls(p)
    BY <1>1 DEF Calls, Call, CallRegister, CallRetire, CallGrab, CallFindname,
                CallNamehandle, CallRetireall, Move, Outside
<1>2. CASE RSpins(p)
    BY <1>2 DEF RSpins, Move, Outside
<1>3. CASE RCounts(p)
    BY <1>3 DEF RCounts, Move, Counts
<1>4. CASE RChecks(p)
    BY <1>4 DEF RChecks, Move, Enters, BacksOff
<1>5. CASE RBacks(p)
    BY <1>5 DEF RBacks, Move, Discounts
<1>6. CASE WSets(p)
    BY <1>6 DEF WSets, Move, Flags
<1>7. CASE WWaits(p)
    BY <1>7 DEF WWaits, Move, Writes
<1>8. CASE TakeSlot(p)
    BY <1>8 DEF TakeSlot, Wunlock, Move, Unflags
<1>9. CASE Rehash(p)
    BY <1>9 DEF Rehash, Move, Writes
<1>10. CASE Resize(p)
    BY <1>10 DEF Resize, Move, Writes
<1>11. CASE Assign(p)
    BY <1>11 DEF Assign, Return, Move, Outside
<1>12. CASE Retire(p)
    BY <1>12 DEF Retire, Return, Wunlock, Move, Unflags
<1>13. CASE Grab(p)
    BY <1>13 DEF Grab, Return, Runlock, Move, Discounts
<1>14. CASE Sweep(p)
    BY <1>14 DEF Sweep, Return, Move, Outside
<1>15. CASE SweepReads(p)
    BY <1>15 DEF SweepReads, Runlock, Move, Discounts
<1>16. CASE Findname(p)
    BY <1>16 DEF Findname, Return, Runlock, Move, Discounts
<1>17. CASE Namehandle(p)
    BY <1>17 DEF Namehandle, Return, Wunlock, Move, Unflags
<1> QED
    BY <1>1, <1>2, <1>3, <1>4, <1>5, <1>6, <1>7, <1>8, <1>9, <1>10, <1>11, <1>12,
       <1>13, <1>14, <1>15, <1>16, <1>17 DEF Runs

\* The count follows who is counted.
LEMMA CountFollows ==
    ASSUME LockInv, NEW p \in Proc, Move(p)
    PROVE  read' = Cardinality(Counted')
<1>1. IsFiniteSet(Counted) /\ Cardinality(Counted) \in Nat
  <2>1. Counted \subseteq Proc
      BY DEF Counted
  <2> QED BY <2>1, HandleAssumption, FS_Subset, FS_CardinalityType
<1>2. CASE Counts(p)
  <2>1. Counted' = Counted \cup {p} /\ p \notin Counted
      BY <1>2 DEF Counts, From, Counted, CountedPc, OutsidePc, LockInv
  <2> QED BY <1>1, <1>2, <2>1, FS_AddElement DEF Counts, LockInv
<1>3. CASE Discounts(p)
  <2>1. Counted' = Counted \ {p} /\ p \in Counted
      BY <1>3 DEF Discounts, From, Counted, CountedPc, OutsidePc, LockInv
  <2> QED BY <1>1, <1>3, <2>1, FS_RemoveElement DEF Discounts, LockInv
<1>4. CASE Outside(p) \/ Enters(p) \/ BacksOff(p) \/ Flags(p) \/ Writes(p) \/ Unflags(p)
  <2>1. Counted' = Counted /\ read' = read
      BY <1>4 DEF Outside, Enters, BacksOff, Flags, Writes, Unflags, From, lock,
                  Counted, CountedPc, FlagPc, OutsidePc, LockInv
  <2> QED BY <2>1 DEF LockInv
<1> QED BY <1>2, <1>3, <1>4 DEF Move

\* A move keeps the lock consistent.
LEMMA MoveKeeps ==
    ASSUME LockInv, NEW p \in Proc, Move(p)
    PROVE  LockInv'
<1>1. read' = Cardinality(Counted')
    BY CountFollows
<1>2. pc' \in [Proc -> Label] /\ write' \in BOOLEAN
    BY DEF LockInv, Move, Outside, Counts, Enters, BacksOff, Discounts, Flags, Writes,
           Unflags, From, lock, Label, CountedPc, FlagPc, OutsidePc
<1>3. read = 0 => \A o \in Proc : pc[o] # "reading"
  <2>1. Counted \subseteq Proc /\ IsFiniteSet(Counted)
    <3>1. Counted \subseteq Proc
        BY DEF Counted
    <3> QED BY <3>1, HandleAssumption, FS_Subset
  <2>2. read = 0 => Counted = {}
      BY <2>1, FS_EmptySet DEF LockInv
  <2> QED BY <2>2 DEF Counted, CountedPc
<1> USE DEF LockInv, From, lock, CountedPc, FlagPc, OutsidePc, WritingPc, Label
<1>4. (write <=> \E o \in Proc : pc[o] \in FlagPc)'
    BY <1>2 DEF Move, Outside, Counts, Enters, BacksOff, Discounts, Flags, Writes, Unflags
<1>5. (\A o, u \in Proc : pc[o] \in FlagPc /\ pc[u] \in FlagPc => o = u)'
    BY <1>2 DEF Move, Outside, Counts, Enters, BacksOff, Discounts, Flags, Writes, Unflags
<1>6. (\A o, u \in Proc : pc[o] \in WritingPc => pc[u] # "reading")'
    BY <1>2, <1>3 DEF Move, Outside, Counts, Enters, BacksOff, Discounts, Flags, Writes,
                      Unflags
<1> QED BY <1>1, <1>2, <1>4, <1>5, <1>6

\* rwlock.h: a thread that writes to the handle table is alone in it, for any number of
\* threads and whatever they call.
THEOREM LockExclusiveHolds == Spec => []LockExclusive
<1>1. Init => LockInv
  <2>1. Init => Counted = {}
      BY DEF Init, Counted, CountedPc
  <2> QED BY <2>1, FS_EmptySet DEF Init, LockInv, Label, CountedPc, FlagPc, WritingPc
<1>2. LockInv /\ [Next]_vars => LockInv'
  <2>1. LockInv /\ Next => LockInv'
      BY StepIsMove, MoveKeeps DEF Next
  <2>2. LockInv /\ UNCHANGED vars => LockInv'
      BY DEF vars, lock, LockInv, Counted
  <2> QED BY <2>1, <2>2
<1>3. LockInv => LockExclusive
    BY DEF LockInv, LockExclusive, WritingPc, FlagPc
<1> QED BY <1>1, <1>2, <1>3, PTL DEF Spec

-----------------------------------------------------------------------------
(* The array of names                                                      *)

\* The entries of the array of names, and its order.
NameEntry == [name : Name, handle : Handle]
Sorted(s) == \A j, k \in 1..Len(s) : j < k => s[j].name < s[k].name

\* The bounds of an interval of the binary search.
Begin == 0..Len(name)
End == -1..(Len(name) - 1)

\* One round of the loop of skynet_handle_findname and _insert_name.
Probe(f, m, b, e) ==
    LET mid == (b + e) \div 2
        x == name[mid + 1].name
    IN  IF b > e THEN [found |-> FALSE, at |-> b]
        ELSE IF x = m THEN [found |-> TRUE, at |-> mid]
        ELSE IF x < m THEN f[mid + 1, e] ELSE f[b, mid - 1]

\* The interval shrinks and stays in the array.
LEMMA Middle ==
    ASSUME Len(name) \in Nat, NEW b \in Begin, NEW e \in End, b <= e
    PROVE  LET mid == (b + e) \div 2 IN
           /\ mid \in b..e /\ mid + 1 \in Begin /\ mid - 1 \in End /\ mid + 1 \in 1..Len(name)
           /\ e - (mid + 1) < e - b /\ mid - 1 - b < e - b
BY DEF Begin, End

\* The search is defined: a larger interval is searched by searching smaller ones.
LEMMA BetweenIs ==
    ASSUME Len(name) \in Nat, NEW m
    PROVE  \A b \in Begin, e \in End : Between(m)[b, e] = Probe(Between(m), m, b, e)
<1> DEFINE F(f) == [r \in Begin \X End |-> Probe(f, m, r[1], r[2])]
           Upto(f, k) == \A b \in Begin, e \in End : e - b + 1 <= k => f[b, e] = Probe(f, m, b, e)
           T == {k \in 0..(Len(name) + 1) : \E f : Upto(f, k)}
<1>0. ASSUME NEW f, NEW b \in Begin, NEW e \in End PROVE F(f)[b, e] = Probe(f, m, b, e)
  OBVIOUS
<1>1. 0 \in T
  <2>1. PICK f : f = F([r \in Begin \X End |-> 0]) OBVIOUS
  <2>2. ASSUME NEW b \in Begin, NEW e \in End, e - b + 1 <= 0 PROVE f[b, e] = Probe(f, m, b, e)
    <3>1. b > e BY <2>2 DEF Begin, End
    <3> QED BY <1>0, <2>1, <2>2, <3>1 DEF Probe
  <2>3. Upto(f, 0) BY <2>2
  <2> HIDE DEF Upto
  <2> QED BY <2>3
<1> HIDE DEF F
<1>2. ASSUME NEW k \in 0..(Len(name) + 1), k < Len(name) + 1, k \in T PROVE k + 1 \in T
  <2>1. PICK f : Upto(f, k) BY <1>2
  <2>2. ASSUME NEW b \in Begin, NEW e \in End, e - b + 1 <= k + 1
        PROVE  Probe(f, m, b, e) = Probe(F(f), m, b, e)
    <3> DEFINE mid == (b + e) \div 2
    <3>1. CASE b > e BY <3>1 DEF Probe
    <3>2. CASE b <= e
      <4>1. /\ mid + 1 \in Begin /\ mid - 1 \in End
            /\ e - (mid + 1) + 1 <= k /\ mid - 1 - b + 1 <= k
        BY <2>2, <3>2, Middle DEF Begin, End
      <4> HIDE DEF mid
      <4>2. f[mid + 1, e] = F(f)[mid + 1, e] /\ f[b, mid - 1] = F(f)[b, mid - 1]
        BY <1>0, <2>1, <4>1
      <4> QED BY <3>2, <4>2 DEF Probe, mid
    <3> QED BY <3>1, <3>2 DEF Begin, End
  <2>3. Upto(F(f), k + 1) BY <1>0, <2>2
  <2> HIDE DEF Upto
  <2> QED BY <2>3, <1>2
<1>3. Len(name) + 1 \in T
  <2> HIDE DEF T
  <2>1. Len(name) + 1 \in Nat /\ Len(name) + 1 \in 0..(Len(name) + 1) OBVIOUS
  <2>2. \A k \in 0..(Len(name) + 1) : k \in T BY <1>1, <1>2, <2>1, Climb
  <2> QED BY <2>1, <2>2
<1>4. PICK f : Upto(f, Len(name) + 1) BY <1>3
<1>5. PICK g : g = F(f) OBVIOUS
<1>6. \A b \in Begin, e \in End : e - b + 1 <= Len(name) + 1 BY DEF Begin, End
<1>7. \A b \in Begin, e \in End : f[b, e] = g[b, e] BY <1>0, <1>4, <1>5, <1>6
<1>8. \A b \in Begin, e \in End : Probe(f, m, b, e) = Probe(g, m, b, e)
  <2> TAKE b \in Begin, e \in End
  <2>1. CASE b > e BY <2>1 DEF Probe
  <2>2. CASE b <= e BY <1>7, <2>2, Middle DEF Probe
  <2> QED BY <2>1, <2>2 DEF Begin, End
<1>9. g = F(g)
  BY <1>5, <1>8 DEF F
<1>10. Between(m) = F(Between(m))
  <2>1. \E h : h = F(h) BY <1>9
  <2> QED BY <2>1, Zenon DEF Between, Probe, Begin, End, F
<1> QED BY <1>0, <1>10


\* What a search for m may return, and between which indices m belongs if it is there.
Answers(m, r) ==
    /\ r.found \in BOOLEAN /\ r.at \in 0..Len(name)
    /\ r.found => r.at + 1 \in 1..Len(name) /\ name[r.at + 1].name = m
    /\ ~r.found => \A k \in 1..Len(name) :
                      /\ k <= r.at => name[k].name < m
                      /\ k > r.at => name[k].name > m
\* m, if it is in the array, is between b and e.
Within(m, b, e) ==
    \A k \in 1..Len(name) : /\ k <= b => name[k].name < m
                            /\ k > e + 1 => name[k].name > m

\* The binary search finds a name that is there, and otherwise the place where it belongs.
LEMMA SearchIs ==
    ASSUME name \in Seq(NameEntry), Sorted(name), NEW m \in Name
    PROVE  Answers(m, Search(m))
<1> DEFINE Upto(k) == \A b \in Begin, e \in End :
                         e - b + 1 <= k /\ Within(m, b, e) => Answers(m, Between(m)[b, e])
           T == {k \in 0..(Len(name) + 1) : Upto(k)}
<1>0. /\ Len(name) \in Nat /\ m \in Nat
      /\ \A k \in 1..Len(name) : name[k].name \in Nat
  <2>1. \A k \in 1..Len(name) : name[k] \in NameEntry BY ElementOfSeq
  <2>2. \A k \in 1..Len(name) : name[k].name \in Name BY <2>1 DEF NameEntry
  <2> QED BY <2>2, HandleAssumption, LenProperties
<1>1. ASSUME NEW b \in Begin, NEW e \in End, b > e, Within(m, b, e)
      PROVE  Answers(m, Between(m)[b, e])
  <2>1. PICK r : r = Between(m)[b, e] OBVIOUS
  <2>2. r = [found |-> FALSE, at |-> b] BY <1>0, <1>1, <2>1, BetweenIs DEF Probe
  <2>3. ~r.found /\ r.found \in BOOLEAN /\ r.at = b BY <2>2
  <2>4. Answers(m, r) BY <1>0, <1>1, <2>3 DEF Answers, Within, Begin, End
  <2> QED BY <2>1, <2>4
<1>2. 0 \in T
  <2>1. \A b \in Begin, e \in End : e - b + 1 <= 0 => b > e BY <1>0 DEF Begin, End
  <2>2. Upto(0) BY <1>1, <2>1
  <2> HIDE DEF Upto
  <2> QED BY <1>0, <2>2
<1>3. ASSUME NEW k \in 0..(Len(name) + 1), k < Len(name) + 1, k \in T PROVE k + 1 \in T
  <2>1. ASSUME NEW b \in Begin, NEW e \in End, e - b + 1 <= k + 1, Within(m, b, e)
        PROVE  Answers(m, Between(m)[b, e])
    <3>0. b \in Int /\ e \in Int BY <1>0 DEF Begin, End
    <3>1. CASE b > e BY <1>1, <2>1, <3>1
    <3>2. CASE b <= e
      <4>1. PICK mid : mid = (b + e) \div 2 OBVIOUS
      <4>2. /\ mid \in b..e /\ mid + 1 \in Begin /\ mid - 1 \in End /\ mid + 1 \in 1..Len(name)
            /\ e - (mid + 1) + 1 <= k /\ mid - 1 - b + 1 <= k
        <5>1. /\ mid \in b..e /\ mid + 1 \in Begin /\ mid - 1 \in End /\ mid + 1 \in 1..Len(name)
              /\ e - (mid + 1) < e - b /\ mid - 1 - b < e - b
          BY <1>0, <3>2, <4>1, Middle
        <5>2. mid \in Int /\ k \in Int BY <3>0, <5>1
        <5> QED BY <2>1, <3>0, <5>1, <5>2
      <4>3. PICK x \in Nat : x = name[mid + 1].name BY <1>0, <4>2
      <4>4. PICK r : r = Between(m)[b, e] OBVIOUS
      <4>5. r = IF x = m THEN [found |-> TRUE, at |-> mid]
                ELSE IF x < m THEN Between(m)[mid + 1, e] ELSE Between(m)[b, mid - 1]
        <5>1. ~(b > e) BY <3>0, <3>2
        <5>2. r = Probe(Between(m), m, b, e) BY <1>0, <4>4, BetweenIs
        <5> QED BY <4>1, <4>3, <5>1, <5>2 DEF Probe
      <4>6. CASE x = m
        <5>1. r = [found |-> TRUE, at |-> mid] BY <4>5, <4>6
        <5>2. r.found /\ r.found \in BOOLEAN /\ r.at = mid BY <5>1
        <5>3. mid \in 0..Len(name) BY <1>0, <4>2 DEF Begin, End
        <5> QED BY <4>2, <4>3, <4>4, <4>6, <5>2, <5>3 DEF Answers
      <4>7. CASE x < m
        <5>1. Within(m, mid + 1, e)
          <6>1. ASSUME NEW j \in 1..Len(name), j <= mid + 1 PROVE name[j].name < m
            <7>1. j = mid + 1 \/ j < mid + 1 BY <1>0, <4>2, <6>1
            <7>2. j < mid + 1 => name[j].name < x BY <4>2, <4>3 DEF Sorted
            <7> QED BY <1>0, <4>3, <4>7, <7>1, <7>2
          <6> QED BY <2>1, <6>1 DEF Within
        <5>2. Answers(m, Between(m)[mid + 1, e])
          <6> HIDE DEF T
          <6>1. Upto(k) BY <1>3 DEF T
          <6> QED BY <4>2, <5>1, <6>1, <2>1
        <5>3. ~(x = m) BY <1>0, <4>3, <4>7
        <5> QED BY <4>4, <4>5, <4>7, <5>2, <5>3
      <4>8. CASE x > m
        <5>1. Within(m, b, mid - 1)
          <6>1. ASSUME NEW j \in 1..Len(name), j > mid - 1 + 1 PROVE name[j].name > m
            <7>1. j = mid + 1 \/ j > mid + 1 BY <1>0, <4>2, <6>1
            <7>2. j > mid + 1 => name[j].name > x BY <4>2, <4>3 DEF Sorted
            <7> QED BY <1>0, <4>3, <4>8, <7>1, <7>2
          <6> QED BY <2>1, <6>1 DEF Within
        <5>2. Answers(m, Between(m)[b, mid - 1]) BY <1>3, <4>2, <5>1
        <5>3. ~(x = m) /\ ~(x < m) BY <1>0, <4>3, <4>8
        <5> QED BY <4>4, <4>5, <5>2, <5>3
      <4>9. x = m \/ x < m \/ x > m BY <1>0, <4>3
      <4> HIDE DEF T, Upto
      <4> QED BY ONLY <4>6, <4>7, <4>8, <4>9
    <3>3. b > e \/ b <= e BY <3>0
    <3> HIDE DEF T, Upto
    <3> QED BY ONLY <3>1, <3>2, <3>3
  <2>2. Upto(k + 1) BY <2>1
  <2> HIDE DEF Upto
  <2> QED BY <1>0, <1>3, <2>2
<1>4. Len(name) + 1 \in T
  <2> HIDE DEF T
  <2>1. Len(name) + 1 \in Nat BY <1>0
  <2> QED BY <2>1, <1>2, <1>3, Climb
<1>5. Within(m, 0, Len(name) - 1) BY <1>0 DEF Within
<1>6. Answers(m, Between(m)[0, Len(name) - 1])
  <2>1. 0 \in Begin /\ Len(name) - 1 \in End /\ Len(name) - 1 - 0 + 1 <= Len(name) + 1
    BY <1>0 DEF Begin, End
  <2> QED BY <1>4, <1>5, <2>1
<1> QED BY <1>6 DEF Search

\* What is in a sequence.
Entries(s) == {s[k] : k \in 1..Len(s)}
\* The bindings that an array of names stands for.
BoundIn(s) == [m \in {s[k].name : k \in DOMAIN s} |->
                  s[CHOOSE k \in DOMAIN s : s[k].name = m].handle]

\* In a sorted array every entry is the one found under its name.
LEMMA BoundIs ==
    ASSUME NEW s \in Seq(NameEntry), Sorted(s)
    PROVE  /\ BoundIn(s) = [m \in DOMAIN BoundIn(s) |-> BoundIn(s)[m]]
           /\ DOMAIN BoundIn(s) = {e.name : e \in Entries(s)}
           /\ \A e \in Entries(s) : BoundIn(s)[e.name] = e.handle
<1>0. /\ Len(s) \in Nat /\ DOMAIN s = 1..Len(s)
      /\ \A k \in 1..Len(s) : s[k].name \in Nat
  <2>1. \A k \in 1..Len(s) : s[k] \in NameEntry BY ElementOfSeq
  <2>2. \A k \in 1..Len(s) : s[k].name \in Name BY <2>1 DEF NameEntry
  <2> QED BY <2>2, HandleAssumption, LenProperties
<1>1. BoundIn(s) = [m \in DOMAIN BoundIn(s) |-> BoundIn(s)[m]]
  BY DEF BoundIn
<1>2. DOMAIN BoundIn(s) = {e.name : e \in Entries(s)}
  BY <1>0 DEF BoundIn, Entries
<1>3. ASSUME NEW e \in Entries(s) PROVE BoundIn(s)[e.name] = e.handle
  <2>1. PICK k \in 1..Len(s) : e = s[k] BY DEF Entries
  <2>2. PICK j : j = CHOOSE x \in DOMAIN s : s[x].name = e.name OBVIOUS
  <2>3. j \in 1..Len(s) /\ s[j].name = s[k].name BY <1>0, <2>1, <2>2
  <2>4. ~(j < k) /\ ~(k < j) BY <1>0, <2>1, <2>3 DEF Sorted
  <2>5. j = k BY <2>1, <2>3, <2>4, <1>0
  <2>6. e.name \in {s[l].name : l \in DOMAIN s} BY <1>0, <2>1
  <2> QED BY <2>1, <2>2, <2>5, <2>6 DEF BoundIn
<1> QED BY <1>1, <1>2, <1>3

\* The filtered array.
LEMMA KeptIs ==
    ASSUME name \in Seq(NameEntry), NEW h
    PROVE  \A k \in 0..Len(name) :
              Kept(h)[k] = IF k = 0 THEN <<>>
                           ELSE IF name[k].handle = h THEN Kept(h)[k - 1]
                           ELSE Append(Kept(h)[k - 1], name[k])
<1> DEFINE G(f, k) == IF k = 0 THEN <<>>
                      ELSE IF name[k].handle = h THEN f[k - 1] ELSE Append(f[k - 1], name[k])
           F(f) == [k \in 0..Len(name) |-> G(f, k)]
           Upto(f, j) == \A k \in 0..Len(name) : k <= j => f[k] = G(f, k)
           T == {j \in 0..Len(name) : \E f : Upto(f, j)}
<1>0. Len(name) \in Nat BY LenProperties
<1>1. ASSUME NEW f, NEW k \in 0..Len(name) PROVE F(f)[k] = G(f, k) OBVIOUS
<1>2. ASSUME NEW f, NEW g, NEW k \in 0..Len(name), k # 0 => f[k - 1] = g[k - 1] PROVE G(f, k) = G(g, k)
  BY <1>2
<1> HIDE DEF F, G
<1>3. 0 \in T
  <2>1. PICK f : f = F([k \in 0..Len(name) |-> 0]) OBVIOUS
  <2>2. \A k \in 0..Len(name) : k <= 0 => f[k] = G(f, k) BY <1>0, <1>1, <1>2, <2>1
  <2>3. Upto(f, 0) BY <2>2
  <2> HIDE DEF Upto
  <2> QED BY <1>0, <2>3
<1>4. ASSUME NEW j \in 0..Len(name), j < Len(name), j \in T PROVE j + 1 \in T
  <2>1. PICK f : Upto(f, j) BY <1>4
  <2>2. PICK g : g = F(f) OBVIOUS
  <2>3. ASSUME NEW k \in 0..Len(name), k <= j + 1 PROVE g[k] = G(g, k)
    <3>1. k # 0 => k - 1 \in 0..Len(name) /\ k - 1 <= j BY <1>0, <2>3
    <3>2. k # 0 => f[k - 1] = g[k - 1] BY <1>1, <2>1, <2>2, <3>1
    <3> QED BY <1>1, <1>2, <2>2, <3>2
  <2>4. Upto(g, j + 1) BY <2>3
  <2> HIDE DEF Upto
  <2> QED BY <1>0, <1>4, <2>4
<1>5. Len(name) \in T
  <2> HIDE DEF T
  <2>1. \A j \in 0..Len(name) : j \in T BY <1>0, <1>3, <1>4, Climb
  <2> QED BY <1>0, <2>1
<1>6. PICK f : Upto(f, Len(name)) BY <1>5
<1>7. PICK g : g = F(f) OBVIOUS
<1>8. \A k \in 0..Len(name) : G(f, k) = G(g, k)
  <2> TAKE k \in 0..Len(name)
  <2>1. k # 0 => k - 1 \in 0..Len(name) BY <1>0
  <2>2. k # 0 => f[k - 1] = g[k - 1] BY <1>0, <1>1, <1>6, <1>7, <2>1
  <2> QED BY <1>2, <2>2
<1>9. g = F(g) BY <1>7, <1>8 DEF F
<1>10. Kept(h) = F(Kept(h))
  <2>1. \E x : x = F(x) BY <1>9
  <2> QED BY <2>1, Zenon DEF Kept, F, G
<1> QED BY <1>1, <1>10 DEF G

\* skynet_handle_retire moves up what is left of the names: it stays sorted.
LEMMA NamesWithoutIs ==
    ASSUME name \in Seq(NameEntry), Sorted(name), NEW h
    PROVE  /\ NamesWithout(h) \in Seq(NameEntry) /\ Sorted(NamesWithout(h))
           /\ Entries(NamesWithout(h)) = {e \in Entries(name) : e.handle # h}
<1> DEFINE Good(s, k) == /\ s \in Seq(NameEntry) /\ Sorted(s)
                         /\ Entries(s) = {e \in {name[j] : j \in 1..k} : e.handle # h}
           T == {k \in 0..Len(name) : Good(Kept(h)[k], k)}
<1>0. /\ Len(name) \in Nat
      /\ \A k \in 1..Len(name) : name[k] \in NameEntry
  BY LenProperties, ElementOfSeq
<1>1. 0 \in T
  <2>1. PICK s : s = <<>> OBVIOUS
  <2>2. Kept(h)[0] = s BY <1>0, <2>1, KeptIs
  <2>3. s \in Seq(NameEntry) /\ Len(s) = 0 BY <2>1
  <2>4. Good(s, 0) BY <2>3 DEF Sorted, Entries
  <2> HIDE DEF Good
  <2> QED BY <1>0, <2>2, <2>4
<1>2. ASSUME NEW k \in 0..Len(name), k < Len(name), k \in T PROVE k + 1 \in T
  <2>1. PICK s : s = Kept(h)[k] OBVIOUS
  <2>2. Good(s, k) BY <1>2, <2>1
  <2>3. PICK e \in NameEntry : e = name[k + 1] BY <1>0, <1>2
  <2>4. k + 1 \in 0..Len(name) /\ k + 1 \in 1..Len(name) BY <1>0, <1>2
  <2>5. {name[j] : j \in 1..(k + 1)} = {name[j] : j \in 1..k} \cup {e} BY <1>0, <2>3, <2>4
  <2>6. CASE e.handle = h
    <3>1. Kept(h)[k + 1] = s BY <2>1, <2>3, <2>4, <2>6, KeptIs
    <3>2. Good(s, k + 1) BY <2>2, <2>5, <2>6
    <3> HIDE DEF Good
    <3> QED BY <2>4, <3>1, <3>2
  <2>7. CASE e.handle # h
    <3>1. Kept(h)[k + 1] = Append(s, e)
      <4>1. k + 1 # 0 /\ (k + 1) - 1 = k OBVIOUS
      <4>2. Kept(h)[k + 1] = Append(Kept(h)[(k + 1) - 1], name[k + 1])
        BY <2>3, <2>4, <2>7, <4>1, KeptIs, Zenon
      <4> QED BY <2>1, <2>3, <4>1, <4>2
    <3>2. PICK t : t = Append(s, e) OBVIOUS
    <3>3. /\ t \in Seq(NameEntry) /\ Len(s) \in Nat /\ Len(t) = Len(s) + 1
          /\ \A j \in 1..Len(s) : t[j] = s[j]
          /\ t[Len(s) + 1] = e
      BY <2>2, <2>3, <3>2, AppendProperties, LenProperties
    <3>4. Entries(t) = Entries(s) \cup {e}
      <4>1. 1..Len(t) = 1..Len(s) \cup {Len(s) + 1} BY <3>3
      <4> QED BY <3>3, <4>1 DEF Entries
    <3>5. Entries(t) = {d \in {name[j] : j \in 1..(k + 1)} : d.handle # h}
      BY <2>2, <2>5, <2>7, <3>4
    <3>6. Sorted(t)
      <4>1. ASSUME NEW j \in 1..Len(t), NEW l \in 1..Len(t), j < l PROVE t[j].name < t[l].name
        <5>1. j \in 1..Len(s) BY <3>3, <4>1
        <5>2. CASE l \in 1..Len(s) BY <2>2, <3>3, <4>1, <5>1, <5>2 DEF Sorted
        <5>3. CASE l = Len(s) + 1
          <6>1. t[j] \in Entries(s) BY <3>3, <5>1 DEF Entries
          <6>2. PICK u \in 1..k : t[j] = name[u] BY <2>2, <6>1
          <6>3. u \in 1..Len(name) /\ u < k + 1 BY <1>0, <2>4
          <6> QED BY <2>3, <2>4, <3>3, <5>3, <6>2, <6>3 DEF Sorted
        <5> QED BY <3>3, <5>2, <5>3
      <4> QED BY <4>1 DEF Sorted
    <3>7. Good(t, k + 1) BY <3>3, <3>5, <3>6
    <3> HIDE DEF Good
    <3> QED BY <2>4, <3>1, <3>2, <3>7
  <2> QED BY <2>6, <2>7
<1>3. Len(name) \in T
  <2> HIDE DEF T
  <2>1. \A k \in 0..Len(name) : k \in T BY <1>0, <1>1, <1>2, Climb
  <2> QED BY <1>0, <2>1
<1>4. Good(NamesWithout(h), Len(name))
  <2> HIDE DEF Good
  <2> QED BY <1>3 DEF NamesWithout
<1> QED BY <1>4 DEF Entries

\* _insert_name_before makes room at the place that the search found: the names stay sorted.
LEMMA InsertBeforeIs ==
    ASSUME name \in Seq(NameEntry), Sorted(name), NEW e \in NameEntry, NEW k \in 0..Len(name),
           \A j \in 1..Len(name) : /\ j <= k => name[j].name < e.name
                                   /\ j > k => name[j].name > e.name
    PROVE  /\ InsertBefore(e, k) \in Seq(NameEntry) /\ Sorted(InsertBefore(e, k))
           /\ Entries(InsertBefore(e, k)) = Entries(name) \cup {e}
<1>1. PICK s : s = InsertBefore(e, k) OBVIOUS
<1>0. /\ Len(name) \in Nat
      /\ \A j \in 1..Len(name) : name[j] \in NameEntry /\ name[j].name \in Nat
  <2>1. \A j \in 1..Len(name) : name[j] \in NameEntry BY ElementOfSeq
  <2>2. \A j \in 1..Len(name) : name[j].name \in Name BY <2>1 DEF NameEntry
  <2> QED BY <2>1, <2>2, HandleAssumption, LenProperties
<1>2. /\ s \in Seq(NameEntry) /\ Len(s) = Len(name) + 1
      /\ \A j \in 1..(Len(name) + 1) : s[j] = IF j <= k THEN name[j]
                                             ELSE IF j = k + 1 THEN e ELSE name[j - 1]
  <2>1. PICK u : u = SubSeq(name, 1, k) OBVIOUS
  <2>2. PICK v : v = SubSeq(name, k + 1, Len(name)) OBVIOUS
  <2>3. u \in Seq(NameEntry) /\ Len(u) = k /\ \A j \in 1..k : u[j] = name[j]
    <3>1. 1 \in Int /\ k \in Int /\ \A j \in 1..k : name[j] \in NameEntry BY <1>0
    <3>2. /\ SubSeq(name, 1, k) \in Seq(NameEntry)
          /\ Len(SubSeq(name, 1, k)) = IF 1 <= k THEN k - 1 + 1 ELSE 0
          /\ \A j \in 1..(k - 1 + 1) : SubSeq(name, 1, k)[j] = name[1 + j - 1]
      BY ONLY <3>1, SubSeqProperties
    <3>3. /\ u \in Seq(NameEntry) /\ Len(u) = IF 1 <= k THEN k - 1 + 1 ELSE 0
          /\ \A j \in 1..(k - 1 + 1) : u[j] = name[1 + j - 1]
      BY ONLY <2>1, <3>2
    <3> QED BY ONLY <3>1, <3>3, <1>0, k \in 0..Len(name)
  <2>4. /\ v \in Seq(NameEntry) /\ Len(v) = Len(name) - k
        /\ \A j \in 1..(Len(name) - k) : v[j] = name[k + j]
    <3>1. k + 1 \in Int /\ Len(name) \in Int /\ \A j \in (k + 1)..Len(name) : name[j] \in NameEntry
      BY <1>0
    <3>2. /\ SubSeq(name, k + 1, Len(name)) \in Seq(NameEntry)
          /\ Len(SubSeq(name, k + 1, Len(name))) =
                IF k + 1 <= Len(name) THEN Len(name) - (k + 1) + 1 ELSE 0
          /\ \A j \in 1..(Len(name) - (k + 1) + 1) :
                SubSeq(name, k + 1, Len(name))[j] = name[(k + 1) + j - 1]
      BY ONLY <3>1, SubSeqProperties
    <3>3. /\ v \in Seq(NameEntry)
          /\ Len(v) = IF k + 1 <= Len(name) THEN Len(name) - (k + 1) + 1 ELSE 0
          /\ \A j \in 1..(Len(name) - (k + 1) + 1) : v[j] = name[(k + 1) + j - 1]
      BY ONLY <2>2, <3>2
    <3>4. \A j \in 1..(Len(name) - k) : (k + 1) + j - 1 = k + j /\ j \in 1..(Len(name) - (k + 1) + 1)
      BY <1>0
    <3> QED BY ONLY <3>3, <3>4, <1>0, k \in 0..Len(name)
  <2>5. PICK w : w = Append(u, e) OBVIOUS
  <2>6. /\ w \in Seq(NameEntry) /\ Len(w) = k + 1 /\ w[k + 1] = e
        /\ \A j \in 1..k : w[j] = name[j]
    BY <2>3, <2>5, AppendProperties
  <2>7. s = w \o v
    <3>1. Append(u, e) = u \o <<e>> BY <2>3, AppendIsConcat
    <3> QED BY <1>1, <2>1, <2>2, <2>5, <3>1 DEF InsertBefore
  <2>8. /\ s \in Seq(NameEntry) /\ Len(s) = Len(name) + 1
        /\ \A j \in 1..(Len(name) + 1) : s[j] = IF j <= k + 1 THEN w[j] ELSE v[j - (k + 1)]
    <3>1. /\ w \o v \in Seq(NameEntry) /\ Len(w \o v) = Len(w) + Len(v)
          /\ \A j \in 1..(Len(w) + Len(v)) : (w \o v)[j] =
                IF j <= Len(w) THEN w[j] ELSE v[j - Len(w)]
      BY <2>4, <2>6, ConcatProperties
    <3>2. Len(w) + Len(v) = Len(name) + 1 BY <1>0, <2>4, <2>6
    <3> QED BY <2>6, <2>7, <3>1, <3>2
  <2>9. ASSUME NEW j \in 1..(Len(name) + 1)
        PROVE  s[j] = IF j <= k THEN name[j] ELSE IF j = k + 1 THEN e ELSE name[j - 1]
    <3>1. CASE j <= k BY <1>0, <2>6, <2>8, <3>1
    <3>2. CASE j = k + 1 BY <2>6, <2>8, <3>2
    <3>3. CASE j > k + 1
      <4>1. j - (k + 1) \in 1..(Len(name) - k) /\ k + (j - (k + 1)) = j - 1 BY <1>0, <3>3
      <4>2. s[j] = v[j - (k + 1)] BY <2>8, <3>3
      <4>3. v[j - (k + 1)] = name[k + (j - (k + 1))] BY <2>4, <4>1
      <4>4. s[j] = name[j - 1] BY <4>1, <4>2, <4>3
      <4> QED BY <3>3, <4>4
    <3> QED BY <3>1, <3>2, <3>3
  <2> QED BY <2>8, <2>9
<1>3. Entries(s) = Entries(name) \cup {e}
  <2>1. ASSUME NEW x \in Entries(s) PROVE x \in Entries(name) \cup {e}
    BY <1>0, <1>2 DEF Entries
  <2>2. k + 1 \in 1..Len(s) /\ s[k + 1] = e BY <1>0, <1>2
  <2>3. ASSUME NEW j \in 1..Len(name) PROVE name[j] \in Entries(s)
    <3>1. CASE j <= k
      <4>1. j \in 1..Len(s) /\ s[j] = name[j] BY <1>0, <1>2, <3>1
      <4> QED BY <4>1 DEF Entries
    <3>2. CASE j > k
      <4>1. j + 1 \in 1..Len(s) /\ s[j + 1] = name[j] BY <1>0, <1>2, <3>2
      <4> QED BY <4>1 DEF Entries
    <3> QED BY <3>1, <3>2
  <2> QED BY <2>1, <2>2, <2>3 DEF Entries
<1>4. Sorted(s)
  <2>1. ASSUME NEW j \in 1..Len(s), NEW l \in 1..Len(s), j < l PROVE s[j].name < s[l].name
    <3>1. CASE j <= k /\ l <= k
      <4>1. j \in 1..Len(name) /\ l \in 1..Len(name) BY <1>0, <1>2, <2>1, <3>1
      <4>2. s[j] = name[j] /\ s[l] = name[l] BY <1>2, <2>1, <3>1
      <4> QED BY <2>1, <4>1, <4>2 DEF Sorted
    <3>2. CASE j <= k /\ l = k + 1
      <4>1. s[j] = name[j] /\ s[l] = e /\ j \in 1..Len(name) BY <1>0, <1>2, <2>1, <3>2
      <4> QED BY <3>2, <4>1
    <3>3. CASE j <= k /\ l > k + 1
      <4>1. j \in 1..Len(name) /\ l - 1 \in 1..Len(name) /\ j < l - 1 BY <1>0, <1>2, <2>1, <3>3
      <4>2. s[j] = name[j] /\ s[l] = name[l - 1] BY <1>2, <2>1, <3>3
      <4> QED BY <4>1, <4>2 DEF Sorted
    <3>4. CASE j = k + 1
      <4>1. l - 1 \in 1..Len(name) /\ l - 1 > k /\ ~(l <= k) /\ l # k + 1 BY <1>0, <1>2, <2>1, <3>4
      <4>2. s[l] = name[l - 1] /\ s[j] = e BY <1>2, <2>1, <3>4, <4>1
      <4>3. name[l - 1].name > e.name BY <4>1
      <4>4. e.name \in Nat BY HandleAssumption DEF NameEntry
      <4> QED BY <1>0, <4>1, <4>2, <4>3, <4>4
    <3>5. CASE j > k + 1
      <4>1. j - 1 \in 1..Len(name) /\ l - 1 \in 1..Len(name) /\ j - 1 < l - 1 BY <1>0, <1>2, <2>1, <3>5
      <4>2. s[j] = name[j - 1] /\ s[l] = name[l - 1] BY <1>2, <2>1, <3>5
      <4> QED BY <4>1, <4>2 DEF Sorted
    <3>6. j \in Nat /\ l \in Nat /\ k \in Nat BY <1>0, <1>2
    <3>7. (j <= k \/ j = k + 1 \/ j > k + 1) /\ (l <= k \/ l = k + 1 \/ l > k + 1) BY <3>6
    <3> QED BY <3>1, <3>2, <3>3, <3>4, <3>5, <3>7
  <2> QED BY <2>1 DEF Sorted
<1> QED BY <1>1, <1>2, <1>3, <1>4

-----------------------------------------------------------------------------
(* The table                                                               *)

\* One thread launches services, as it is where every launch goes through the launcher.
SoleLauncher == \A p, o \in Proc : "register" \in calls[p] /\ "register" \in calls[o] => p = o

\* The number of handles.
M == HANDLE_MASK + 1

\* The size of the array: while the table is resized it is twice slot_size.
Width == IF \E p \in Proc : pc[p] = "resize" THEN slot_size * 2 ELSE slot_size

\* The size of the table divides the number of handles.
ShapeInv ==
    /\ slot_size \in Nat \ {0} /\ M % Width = 0
    /\ slot \in [0..(Width - 1) -> Ctx \cup {Nil}]
    /\ handle_index \in Nat
    /\ handle \in [Ctx -> Handle \cup {0}]

\* The types of what callers keep.
LocalInv ==
    /\ op \in [Proc -> Function \cup {"none"}]
    /\ DOMAIN arg = Proc /\ arg = [p \in Proc |-> arg[p]]
    /\ DOMAIN got = Proc /\ got = [p \in Proc |-> got[p]]
    /\ i \in [Proc -> Nat] /\ n \in [Proc -> {0, 1}] /\ there \in [Proc -> SUBSET Handle]

\* Where a thread is between the lock it asked for and its write.
RetiringPc == {"wlock", "wwait", "writing"}

\* What a caller asked for.
ArgInv(p) ==
    /\ op[p] \in {"retire", "grab"} => arg[p] \in Handle
    /\ op[p] = "findname" => arg[p] \in Name
    /\ op[p] = "namehandle" => arg[p][1] \in Handle /\ arg[p][2] \in Name
    /\ op[p] = "register" => arg[p] \in Ctx /\ handle[arg[p]] = 0
    /\ op[p] = "retireall" /\ pc[p] \in RetiringPc => arg[p] \in Handle \ {0}

\* Which call a caller can be in at each point.
CallInv(p) ==
    /\ op[p] \in calls[p] \cup {"none"}
    /\ pc[p] = "idle" <=> op[p] = "none"
    /\ pc[p] \in {"assign", "resize", "aborted"} => op[p] = "register"
    /\ pc[p] = "sweep" => op[p] = "retireall"
    /\ op[p] = "register" => pc[p] \in RetiringPc \cup {"resize", "aborted", "assign"}
    /\ pc[p] \notin {"idle", "assign"} => got[p] = Nil

\* A context that is launched is in the table from the moment it has a slot.
FreshInv(p) ==
    op[p] = "register" =>
        IF pc[p] = "assign"
        THEN got[p] \in 0..HANDLE_MASK /\ slot[got[p] % Width] = arg[p]
        ELSE arg[p] \notin InTable

\* A context is in the slot of its handle, or of the one that it is about to get.
PlaceInv ==
    \A k \in 0..(Width - 1) : slot[k] # Nil =>
        IF handle[slot[k]] # 0 THEN handle[slot[k]] % Width = k
        ELSE \E p \in Proc : pc[p] = "assign" /\ arg[p] = slot[k] /\ got[p] % Width = k

\* A pass of retireall that has retired nothing yet has left no handle behind.
SweepInv(p) ==
    op[p] = "retireall" =>
        /\ pc[p] # "sweep" => i[p] < slot_size
        /\ n[p] = 0 => \A h \in there[p] :
              /\ h \in Used /\ h % slot_size >= i[p]
              /\ pc[p] \in RetiringPc /\ h % slot_size = i[p] => h = arg[p]

\* The names are sorted.
NameInv == name \in Seq(NameEntry) /\ Sorted(name)

\* The invariant of the handle table.
TableInv ==
    /\ LockInv /\ ShapeInv /\ LocalInv /\ PlaceInv /\ NameInv
    /\ \A p \in Proc : ArgInv(p) /\ CallInv(p) /\ FreshInv(p) /\ SweepInv(p)

\* One thread at most registers.
LEMMA Sole ==
    ASSUME SoleLauncher, TableInv, NEW p \in Proc, NEW o \in Proc, op[p] = "register", op[o] = "register"
    PROVE  p = o
BY DEF SoleLauncher, TableInv, CallInv

\* The array keeps its size unless a table is resized.
LEMMA WidthKept ==
    ASSUME LockInv, NEW p \in Proc, pc' = [pc EXCEPT ![p] = pc'[p]], slot_size' = slot_size,
           pc[p] # "resize", pc'[p] # "resize"
    PROVE  Width' = Width
BY DEF Width, LockInv

\* The size of the array divides the number of handles.
LEMMA SizeIs ==
    ASSUME ShapeInv
    PROVE  /\ Width \in Nat \ {0} /\ Width >= slot_size /\ M \in Nat \ {0}
           /\ M % slot_size = 0
           /\ \A a \in Nat : a % Width \in 0..(Width - 1) /\ a % slot_size \in 0..(slot_size - 1)
<1>1. M \in Nat \ {0} BY HandleAssumption DEF M
<1>2. Width \in Nat \ {0} /\ Width >= slot_size BY DEF ShapeInv, Width
<1>3. M % slot_size = 0
  <2>1. CASE Width = slot_size BY <2>1 DEF ShapeInv
  <2>2. CASE Width = slot_size * 2
    <3>1. (slot_size * 2) % slot_size = 0
      <4>1. (slot_size * 2 + 0) % slot_size = 0 BY ModUnique DEF ShapeInv
      <4> QED BY <4>1 DEF ShapeInv
    <3>2. slot_size \in Nat \ {0} /\ slot_size * 2 \in Nat \ {0} /\ M % (slot_size * 2) = 0
      BY <1>2, <2>2 DEF ShapeInv
    <3> QED BY <1>1, <3>1, <3>2, Divides
  <2> QED BY <2>1, <2>2 DEF Width
<1>4. ASSUME NEW a \in Nat PROVE a % Width \in 0..(Width - 1) /\ a % slot_size \in 0..(slot_size - 1)
  BY <1>2, DivMod DEF ShapeInv
<1> QED BY <1>1, <1>2, <1>3, <1>4

\* The handles in use.
LEMMA HandleIs == \A h \in Handle : h \in Nat /\ h # Nil
BY HandleAssumption DEF Handle

\* Whoever has a handle in use is in its slot.
LEMMA UsedIs ==
    ASSUME ShapeInv, PlaceInv
    PROVE  /\ Used \subseteq Handle \ {0}
           /\ \A h \in Used : /\ slot[h % Width] \in Ctx /\ handle[slot[h % Width]] = h
                              /\ slot[h % Width] \in InTable
           /\ \A c \in InTable : c \in Ctx /\ (handle[c] # 0 => slot[handle[c] % Width] = c)
<1>1. ASSUME NEW c \in InTable
      PROVE  c \in Ctx /\ (handle[c] # 0 => slot[handle[c] % Width] = c)
  BY DEF InTable, ShapeInv, PlaceInv
<1>2. \A c \in InTable : handle[c] \in Handle \cup {0} BY <1>1 DEF ShapeInv
<1>3. ASSUME NEW h \in Used
      PROVE  slot[h % Width] \in Ctx /\ handle[slot[h % Width]] = h /\ slot[h % Width] \in InTable
  <2>1. PICK c \in InTable : h = handle[c] /\ h # 0 BY DEF Used
  <2> QED BY <1>1, <2>1
<1>4. Used \subseteq Handle \ {0} BY <1>2 DEF Used
<1> QED BY <1>1, <1>3, <1>4

\* The handle 0 is not in use: a process with a harbor has none, and one without neither
\* hands it out before its index has wrapped nor looks it up.
ZeroUnused ==
    harbor = 0 => \A p \in Proc : /\ pc[p] = "assign" => got[p] # 0
                                  /\ op[p] \in {"retire", "grab"} => arg[p] # 0

\* Nobody looks up the handle 0.
LEMMA ArgUsed ==
    ASSUME TableInv, ZeroUnused, NEW p \in Proc,
           op[p] \in {"retire", "grab"} \/ (op[p] = "retireall" /\ pc[p] \in RetiringPc)
    PROVE  arg[p] \in Handle \ {0}
<1>1. ArgInv(p) BY DEF TableInv
<1>2. harbor # 0 => 0 \notin Handle BY HandleAssumption DEF Handle
<1> QED BY <1>1, <1>2 DEF ArgInv, ZeroUnused

\* Nobody is given the handle 0.
LEMMA HandedUsed ==
    ASSUME TableInv, ZeroUnused, NEW p \in Proc, pc[p] = "assign"
    PROVE  got[p] \in 0..HANDLE_MASK /\ got[p] + harbor \in Handle \ {0}
<1>1. got[p] \in 0..HANDLE_MASK BY DEF TableInv, FreshInv, CallInv
<1>2. got[p] + harbor # 0
  <2>1. harbor = 0 => got[p] # 0 BY DEF ZeroUnused
  <2>2. harbor \in Nat /\ HANDLE_MASK \in Nat BY HandleAssumption
  <2> QED BY <1>1, <2>1, <2>2
<1> QED BY <1>1, <1>2, HandleAssumption DEF Handle

\* A thread moves and the table is not resized.
Moves(p) == pc' = [pc EXCEPT ![p] = pc'[p]] /\ pc[p] # "resize" /\ pc'[p] # "resize"

\* A step of p that leaves the table alone: the other callers and the slots are as they were.
LEMMA Idle ==
    ASSUME TableInv, NEW p \in Proc, Moves(p), UNCHANGED <<slot, slot_size, handle>>
    PROVE  Width' = Width /\ InTable' = InTable /\ Used' = Used
<1>1. Width' = Width BY WidthKept DEF TableInv, Moves
<1>2. InTable' = InTable BY DEF InTable
<1> QED BY <1>1, <1>2 DEF Used

\* The steps of a thread through the lock leave the table alone.
LEMMA LockStepKeeps ==
    ASSUME TableInv, LockInv', NEW p \in Proc, Moves(p),
           pc[p] \in {"rlock", "rcount", "rcheck", "rback", "wlock", "wwait"},
           pc'[p] \in {"rlock", "rcount", "rcheck", "rback", "reading", "wwait", "writing"},
           pc[p] \in RetiringPc <=> pc'[p] \in RetiringPc,
           UNCHANGED <<table, name, handle, op, arg, sweep, got>>
    PROVE  TableInv'
<1> USE DEF table, sweep
<1>1. Width' = Width /\ InTable' = InTable /\ Used' = Used BY Idle
<1>2. ShapeInv' /\ LocalInv' /\ NameInv' BY <1>1 DEF TableInv, ShapeInv, LocalInv, NameInv
<1>3. PlaceInv'
  <2>1. \A o \in Proc : pc[o] = "assign" => pc'[o] = "assign" BY DEF Moves, TableInv, LockInv
  <2> QED BY <1>1, <2>1 DEF TableInv, PlaceInv
<1>4. ASSUME NEW o \in Proc PROVE ArgInv(o)' /\ CallInv(o)' /\ FreshInv(o)' /\ SweepInv(o)'
  <2>1. ArgInv(o) /\ CallInv(o) /\ FreshInv(o) /\ SweepInv(o) /\ pc \in [Proc -> Label]
    BY DEF TableInv, LockInv
  <2>2. ArgInv(o)' BY <2>1 DEF ArgInv, Moves
  <2>3. CallInv(o)' BY <2>1 DEF CallInv, Moves, RetiringPc
  <2>4. FreshInv(o)' BY <1>1, <2>1 DEF FreshInv, Moves
  <2>5. SweepInv(o)' BY <1>1, <2>1 DEF SweepInv, Moves
  <2> QED BY <2>2, <2>3, <2>4, <2>5
<1> QED BY <1>2, <1>3, <1>4 DEF TableInv

\* A call begins.
LEMMA CallKeeps ==
    ASSUME TableInv, LockInv', NEW p \in Proc, Calls(p)
    PROVE  TableInv'
<1>0. /\ pc \in [Proc -> Label] /\ op \in [Proc -> Function \cup {"none"}]
      /\ DOMAIN arg = Proc /\ DOMAIN got = Proc
  BY DEF TableInv, LockInv, LocalInv
<1>1. /\ Moves(p) /\ pc[p] = "idle" /\ pc'[p] \in {"wlock", "rlock", "sweep"}
      /\ op' = [op EXCEPT ![p] = op'[p]] /\ op'[p] \in calls[p]
      /\ arg' = [arg EXCEPT ![p] = arg'[p]]
      /\ got' = [got EXCEPT ![p] = Nil]
      /\ pc'[p] = "sweep" => op'[p] = "retireall"
      /\ op'[p] = "register" => pc'[p] = "wlock"
      /\ UNCHANGED <<table, name>>
  BY <1>0 DEF Calls, Call, CallRegister, CallRetire, CallGrab, CallFindname, CallNamehandle, CallRetireall,
         Goto, Moves
<1>2. op'[p] \in Function BY <1>1, HandleAssumption
<1>3. \/ \E c \in Ctx : CallRegister(p, c)
      \/ op'[p] # "register" /\ UNCHANGED handle
  BY <1>0 DEF Calls, Call, CallRegister, CallRetire, CallGrab, CallFindname, CallNamehandle, CallRetireall
<1>4. /\ ShapeInv' /\ InTable' = InTable /\ Used' = Used /\ Width' = Width
      /\ \A c \in InTable : handle'[c] = handle[c]
      /\ \A o \in Proc : o # p /\ op[o] = "register" => handle'[arg[o]] = handle[arg[o]]
  <2>1. Width' = Width BY <1>1, WidthKept DEF TableInv, Moves, table
  <2>2. InTable' = InTable BY <1>1 DEF InTable, table
  <2>3. /\ handle' \in [Ctx -> Handle \cup {0}] /\ \A c \in InTable : handle'[c] = handle[c]
        /\ \A o \in Proc : o # p /\ op[o] = "register" => handle'[arg[o]] = handle[arg[o]]
    <3>1. CASE \E c \in Ctx : CallRegister(p, c)
      <4>1. PICK c \in Ctx : CallRegister(p, c) BY <3>1
      <4> QED BY <4>1 DEF CallRegister, TableInv, ShapeInv
    <3>2. CASE UNCHANGED handle BY <3>2 DEF TableInv, ShapeInv
    <3> QED BY <1>3, <3>1, <3>2
  <2>4. Used' = Used BY <2>2, <2>3 DEF Used
  <2>5. ShapeInv' BY <1>1, <2>1, <2>3 DEF TableInv, ShapeInv, table
  <2> QED BY <2>1, <2>2, <2>3, <2>4, <2>5
<1>5. LocalInv'
  <2>1. /\ op' \in [Proc -> Function \cup {"none"}]
        /\ DOMAIN arg' = Proc /\ arg' = [o \in Proc |-> arg'[o]]
        /\ DOMAIN got' = Proc /\ got' = [o \in Proc |-> got'[o]]
    BY <1>0, <1>1, <1>2
  <2>2. Used \in SUBSET Handle BY UsedIs DEF TableInv
  <2>3. i' \in [Proc -> Nat] /\ n' \in [Proc -> {0, 1}] /\ there' \in [Proc -> SUBSET Handle]
    <3>1. CASE CallRetireall(p) BY <2>2, <3>1 DEF CallRetireall, TableInv, LocalInv
    <3>2. CASE UNCHANGED sweep BY <3>2 DEF TableInv, LocalInv, sweep
    <3> QED BY <3>1, <3>2 DEF Calls, CallRegister, CallRetire, CallGrab, CallFindname, CallNamehandle
  <2> QED BY <2>1, <2>3 DEF LocalInv
<1>6. PlaceInv'
  <2>1. \A o \in Proc : pc[o] = "assign" => pc'[o] = "assign" /\ arg'[o] = arg[o] /\ got'[o] = got[o]
    BY <1>0, <1>1 DEF Moves
  <2>2. \A k \in 0..(Width - 1) : slot[k] # Nil => slot[k] \in InTable
    BY DEF TableInv, ShapeInv, InTable
  <2>3. slot' = slot BY <1>1 DEF table
  <2> QED BY <1>4, <2>1, <2>2, <2>3 DEF TableInv, PlaceInv
<1>7. NameInv' BY <1>1 DEF TableInv, NameInv
<1>8. ASSUME NEW o \in Proc, o # p PROVE ArgInv(o)' /\ CallInv(o)' /\ FreshInv(o)' /\ SweepInv(o)'
  <2>1. ArgInv(o) /\ CallInv(o) /\ FreshInv(o) /\ SweepInv(o) BY DEF TableInv
  <2>2. pc'[o] = pc[o] /\ op'[o] = op[o] /\ arg'[o] = arg[o] /\ got'[o] = got[o]
    BY <1>0, <1>1, <1>8 DEF Moves
  <2>3. i'[o] = i[o] /\ n'[o] = n[o] /\ there'[o] = there[o]
    <3>1. CASE CallRetireall(p) BY <1>8, <3>1 DEF CallRetireall, TableInv, LocalInv
    <3>2. CASE UNCHANGED sweep BY <3>2 DEF sweep
    <3> QED BY <3>1, <3>2 DEF Calls, CallRegister, CallRetire, CallGrab, CallFindname, CallNamehandle
  <2>4. ArgInv(o)' BY <1>4, <1>8, <2>1, <2>2 DEF ArgInv
  <2>5. CallInv(o)' BY <2>1, <2>2 DEF CallInv
  <2>6. FreshInv(o)' BY <1>1, <1>4, <2>1, <2>2 DEF FreshInv, table
  <2>7. SweepInv(o)' BY <1>1, <1>4, <2>1, <2>2, <2>3 DEF SweepInv, table
  <2> QED BY <2>4, <2>5, <2>6, <2>7
<1>9. ArgInv(p)' /\ CallInv(p)' /\ FreshInv(p)' /\ SweepInv(p)'
  <2>1. CallInv(p)' BY <1>0, <1>1, <1>2 DEF CallInv, RetiringPc, Function
  <2>2. FreshInv(p)'
    <3>1. op'[p] = "register" => arg'[p] \notin InTable
      <4>1. ASSUME NEW c \in Ctx, CallRegister(p, c) PROVE arg'[p] \notin InTable
        BY <1>0, <4>1 DEF CallRegister, Call
      <4> QED BY <1>3, <4>1
    <3> QED BY <1>1, <1>4, <3>1 DEF FreshInv
  <2>3. ArgInv(p)'
    <3>1. CASE \E c \in Ctx : CallRegister(p, c)
      BY <1>0, <3>1 DEF CallRegister, Call, ArgInv, TableInv, ShapeInv
    <3>2. CASE \E h \in Handle : CallRetire(p, h) \/ CallGrab(p, h)
      BY <1>0, <3>2 DEF CallRetire, CallGrab, Call, ArgInv
    <3>3. CASE \E m \in Name : CallFindname(p, m)
      BY <1>0, <3>3 DEF CallFindname, Call, ArgInv
    <3>4. CASE \E h \in Named, m \in Name : CallNamehandle(p, h, m)
      <4>1. PICK h \in Named, m \in Name : CallNamehandle(p, h, m) BY <3>4
      <4>2. arg'[p] = <<h, m>> /\ op'[p] = "namehandle" BY <1>0, <4>1 DEF CallNamehandle, Call
      <4>3. h \in Handle BY HandleAssumption
      <4> QED BY <4>2, <4>3 DEF ArgInv
    <3>5. CASE CallRetireall(p)
      BY <1>0, <3>5 DEF CallRetireall, Call, Goto, ArgInv, RetiringPc
    <3> QED BY <3>1, <3>2, <3>3, <3>4, <3>5 DEF Calls
  <2>4. SweepInv(p)'
    <3>1. CASE CallRetireall(p)
      <4>1. pc'[p] = "sweep" /\ i'[p] = 0 /\ there'[p] = Used
        BY <1>0, <3>1 DEF CallRetireall, Call, Goto, TableInv, LocalInv
      <4>2. \A h \in Used : h \in Nat BY UsedIs, HandleIs DEF TableInv
      <4>3. slot_size' = slot_size /\ slot_size \in Nat \ {0} BY <1>1 DEF TableInv, ShapeInv, table
      <4>4. \A h \in Used : h % slot_size >= 0 BY <4>2, <4>3, DivMod
      <4> QED BY <1>4, <4>1, <4>3, <4>4 DEF SweepInv, RetiringPc
    <3>2. CASE op'[p] # "retireall" BY <3>2 DEF SweepInv
    <3> QED BY <1>0, <3>1, <3>2 DEF Calls, Call, CallRegister, CallRetire, CallGrab, CallFindname, CallNamehandle
  <2> QED BY <2>1, <2>2, <2>3, <2>4
<1> QED BY <1>4, <1>5, <1>6, <1>7, <1>8, <1>9 DEF TableInv

\* Nobody is between his slot and his handle while another one registers, and nobody resizes while p
\* has the flag.
LEMMA Alone ==
    ASSUME SoleLauncher, TableInv, NEW p \in Proc, pc[p] \in FlagPc, pc[p] # "resize"
    PROVE  /\ Width = slot_size
           /\ op[p] = "register" => \A o \in Proc : pc[o] # "assign"
<1>1. \A o \in Proc : pc[o] # "resize" BY DEF TableInv, LockInv, FlagPc
<1>2. ASSUME op[p] = "register", NEW o \in Proc, pc[o] = "assign" PROVE FALSE
  <2>1. op[o] = "register" BY <1>2 DEF TableInv, CallInv
  <2>2. o = p BY <1>2, <2>1, Sole
  <2> QED BY <1>2, <2>2 DEF FlagPc
<1> QED BY <1>1, <1>2 DEF Width

\* The handle that the loop offers k-th hashes to the k-th slot after the index.
LEMMA OfferedIs ==
    ASSUME ShapeInv, NEW k \in 0..(slot_size - 1)
    PROVE  /\ Offered[k] \in 0..HANDLE_MASK
           /\ Hash(Offered[k], slot_size) \in 0..(slot_size - 1)
           /\ Hash(Offered[k], slot_size) = (k + handle_index) % slot_size
<1>1. k + handle_index \in Nat /\ Offered[k] = (k + handle_index) % M BY DEF ShapeInv, Offered, M
<1>2. PICK a \in Nat : a = k + handle_index BY <1>1
<1>3. a % M \in Nat /\ a % M < M BY SizeIs, DivMod
<1>4. (a % M) % slot_size = a % slot_size
  <2>1. M \in Nat \ {0} /\ slot_size \in Nat \ {0} /\ M % slot_size = 0 BY SizeIs DEF ShapeInv
  <2> QED BY <2>1, Divides
<1>5. a % slot_size \in 0..(slot_size - 1) BY SizeIs
<1>6. HANDLE_MASK \in Nat BY HandleAssumption
<1>7. Offered[k] = a % M BY <1>1, <1>2
<1>8. a % M \in 0..HANDLE_MASK BY <1>3, <1>6 DEF M
<1> QED BY <1>2, <1>4, <1>5, <1>7, <1>8 DEF Hash

\* skynet_handle_register: the context takes a free slot that its handle will hash to.
LEMMA TakeSlotKeeps ==
    ASSUME SoleLauncher, TableInv, LockInv', NEW p \in Proc, TakeSlot(p)
    PROVE  TableInv'
<1>0. /\ pc \in [Proc -> Label] /\ op \in [Proc -> Function \cup {"none"}] /\ DOMAIN got = Proc
      /\ ShapeInv /\ LocalInv
  BY DEF TableInv, LockInv, LocalInv
<1>1. pc[p] = "writing" /\ op[p] = "register" /\ pc' = [pc EXCEPT ![p] = "assign"]
      /\ UNCHANGED <<slot_size, name, handle, op, arg, sweep>>
  BY DEF TakeSlot, Goto
<1>2. Width = slot_size /\ \A o \in Proc : pc[o] # "assign" BY <1>1, Alone DEF FlagPc
<1>3. Width' = Width BY <1>0, <1>1, WidthKept DEF TableInv
<1>4. PICK k \in FreeOffer : /\ slot' = [slot EXCEPT ![Hash(Offered[k], slot_size)] = arg[p]]
                             /\ handle_index' = Offered[k] + 1
                             /\ got' = [got EXCEPT ![p] = Offered[k]]
  BY DEF TakeSlot
<1>5. PICK g : g = Offered[k] OBVIOUS
<1>6. PICK s : s = Hash(g, slot_size) OBVIOUS
<1>7. /\ g \in 0..HANDLE_MASK /\ s \in 0..(Width - 1) /\ s = g % Width /\ slot[s] = Nil
      /\ k \in 0..(slot_size - 1)
  BY <1>0, <1>2, <1>5, <1>6, OfferedIs DEF FreeOffer, Hash
<1>8. arg[p] \in Ctx /\ handle[arg[p]] = 0 /\ arg[p] \notin InTable /\ arg[p] # Nil
  <2>1. arg[p] \in Ctx /\ handle[arg[p]] = 0 /\ arg[p] \notin InTable
    BY <1>1 DEF TableInv, ArgInv, FreshInv
  <2> QED BY <2>1, HandleAssumption
<1>9. /\ slot' = [slot EXCEPT ![s] = arg[p]] /\ handle_index' = g + 1
      /\ got' = [got EXCEPT ![p] = g]
  BY <1>4, <1>5, <1>6
<1>10. DOMAIN slot = 0..(Width - 1) /\ slot \in [0..(Width - 1) -> Ctx \cup {Nil}] BY <1>0 DEF ShapeInv
<1>11. InTable' = InTable \cup {arg[p]}
  BY <1>7, <1>8, <1>9, <1>10 DEF InTable
<1>12. Used' = Used BY <1>1, <1>8, <1>11 DEF Used
<1>13. ShapeInv'
  <2>1. slot' \in [0..(Width - 1) -> Ctx \cup {Nil}] BY <1>7, <1>8, <1>9, <1>10
  <2>2. handle_index' \in Nat BY <1>7, <1>9, HandleAssumption
  <2> QED BY <1>0, <1>1, <1>3, <2>1, <2>2 DEF ShapeInv
<1>14. LocalInv'
  BY <1>0, <1>1, <1>9 DEF LocalInv, sweep
<1>15. PlaceInv'
  <2>1. ASSUME NEW j \in 0..(Width - 1), slot'[j] # Nil
        PROVE  IF handle[slot'[j]] # 0 THEN handle[slot'[j]] % Width = j
               ELSE \E o \in Proc : pc'[o] = "assign" /\ arg[o] = slot'[j] /\ got'[o] % Width = j
    <3>1. CASE j = s
      <4>1. slot'[j] = arg[p] /\ pc'[p] = "assign" /\ got'[p] % Width = j
        BY <1>0, <1>1, <1>7, <1>9, <1>10, <3>1
      <4> QED BY <1>8, <4>1
    <3>2. CASE j # s
      <4>1. slot'[j] = slot[j] BY <1>9, <1>10, <3>2
      <4> QED BY <1>2, <2>1, <4>1 DEF TableInv, PlaceInv
    <3> QED BY <3>1, <3>2
  <2> QED BY <1>1, <1>3, <2>1 DEF PlaceInv
<1>16. NameInv' BY <1>1 DEF TableInv, NameInv
<1>17. ASSUME NEW o \in Proc PROVE ArgInv(o)' /\ CallInv(o)' /\ FreshInv(o)' /\ SweepInv(o)'
  <2>1. ArgInv(o) /\ CallInv(o) /\ FreshInv(o) /\ SweepInv(o) BY DEF TableInv
  <2>2. ArgInv(o)' BY <1>0, <1>1, <2>1 DEF ArgInv, RetiringPc
  <2>3. CallInv(o)' BY <1>0, <1>1, <1>9, <2>1 DEF CallInv
  <2>4. FreshInv(o)'
    <3>1. CASE o = p
      <4>1. got'[p] = g /\ slot'[g % Width] = arg[p] /\ pc'[p] = "assign"
        BY <1>0, <1>1, <1>7, <1>9, <1>10
      <4> QED BY <1>1, <1>3, <1>7, <3>1, <4>1 DEF FreshInv
    <3>2. CASE o # p
      <4>1. op[o] # "register" BY <1>1, <3>2, Sole
      <4> QED BY <1>1, <4>1 DEF FreshInv
    <3> QED BY <3>1, <3>2
  <2>5. SweepInv(o)' BY <1>0, <1>1, <1>12, <2>1 DEF SweepInv, RetiringPc, sweep
  <2> QED BY <2>2, <2>3, <2>4, <2>5
<1> QED BY <1>13, <1>14, <1>15, <1>16, <1>17 DEF TableInv

\* A table without a free offer is full, and all that is in it has a handle that leads to it.
LEMMA Full ==
    ASSUME SoleLauncher, TableInv, NEW p \in Proc, pc[p] = "writing", op[p] = "register", FreeOffer = {}
    PROVE  /\ Width = slot_size
           /\ \A k \in 0..(slot_size - 1) :
                 /\ slot[k] \in Ctx /\ handle[slot[k]] \in Handle \ {0}
                 /\ handle[slot[k]] % slot_size = k
                 /\ Rehashed(k) \in {k, k + slot_size}
<1>0. ShapeInv /\ PlaceInv BY DEF TableInv
<1>1. Width = slot_size /\ \A o \in Proc : pc[o] # "assign" BY Alone DEF FlagPc
<1>2. ASSUME NEW k \in 0..(slot_size - 1) PROVE slot[k] # Nil
  <2>1. PICK j \in 0..(slot_size - 1) : (j + handle_index) % slot_size = k
    <3>1. slot_size \in Nat \ {0} /\ handle_index \in Nat BY <1>0 DEF ShapeInv
    <3> QED BY <3>1, Covers
  <2>2. Hash(Offered[j], slot_size) = k BY <1>0, <2>1, OfferedIs
  <2> QED BY <2>2 DEF FreeOffer
<1>3. ASSUME NEW k \in 0..(slot_size - 1)
      PROVE  /\ slot[k] \in Ctx /\ handle[slot[k]] \in Handle \ {0}
             /\ handle[slot[k]] % slot_size = k
             /\ Rehashed(k) \in {k, k + slot_size}
  <2>1. slot[k] \in Ctx BY <1>0, <1>1, <1>2 DEF ShapeInv
  <2>2. handle[slot[k]] # 0 /\ handle[slot[k]] % slot_size = k BY <1>0, <1>1, <1>2 DEF PlaceInv
  <2>3. handle[slot[k]] \in Handle /\ handle[slot[k]] \in Nat BY <1>0, <2>1, <2>2, HandleIs DEF ShapeInv
  <2>4. Rehashed(k) \in {k, k + slot_size}
    BY <1>0, <2>2, <2>3, Doubles DEF ShapeInv, Rehashed, Hash
  <2> QED BY <2>1, <2>2, <2>3, <2>4
<1> QED BY <1>1, <1>3

\* skynet_handle_register: the larger array has every context in the slot of its handle.
LEMMA RehashKeeps ==
    ASSUME SoleLauncher, TableInv, LockInv', NEW p \in Proc, Rehash(p)
    PROVE  TableInv' /\ InTable' = InTable /\ handle' = handle /\ name' = name
<1>0. /\ pc \in [Proc -> Label] /\ op \in [Proc -> Function \cup {"none"}] /\ DOMAIN got = Proc
      /\ ShapeInv /\ LocalInv /\ PlaceInv /\ slot_size \in Nat \ {0} /\ pc[p] \in FlagPc
  BY DEF TableInv, LockInv, LocalInv, ShapeInv, Rehash, FlagPc
<1>1. /\ pc[p] = "writing" /\ op[p] = "register" /\ FreeOffer = {}
      /\ UNCHANGED <<slot_size, handle_index, name, handle, op, arg, sweep, got>>
  BY DEF Rehash
<1>2. /\ Width = slot_size
      /\ \A k \in 0..(slot_size - 1) :
            /\ slot[k] \in Ctx /\ handle[slot[k]] \in Handle \ {0}
            /\ handle[slot[k]] % slot_size = k
            /\ Rehashed(k) \in {k, k + slot_size}
  BY <1>1, Full
<1>3. DOMAIN slot = 0..(slot_size - 1) BY <1>0, <1>2 DEF ShapeInv
<1>4. \A o \in Proc : pc[o] # "assign" BY <1>0, <1>1, Alone
<1>5. \A o \in Proc : o # p => op[o] # "register" BY <1>1, Sole
<1>6. \A j, k \in 0..(slot_size - 1) : Rehashed(j) = Rehashed(k) => j = k BY <1>0, <1>2
<1>7. CASE slot_size * 2 - 1 > HANDLE_MASK
  <2>1. pc' = [pc EXCEPT ![p] = "aborted"] /\ slot' = slot BY <1>7 DEF Rehash, Goto
  <2>2. Width' = Width /\ InTable' = InTable /\ Used' = Used
    BY <1>0, <1>1, <2>1, Idle DEF Moves
  <2>3. ShapeInv' /\ LocalInv' /\ NameInv'
    BY <1>1, <2>1, <2>2 DEF TableInv, ShapeInv, LocalInv, NameInv, sweep
  <2>4. PlaceInv' BY <1>1, <1>4, <2>1, <2>2 DEF TableInv, PlaceInv
  <2>5. ASSUME NEW o \in Proc PROVE ArgInv(o)' /\ CallInv(o)' /\ FreshInv(o)' /\ SweepInv(o)'
    <3>1. ArgInv(o) /\ CallInv(o) /\ FreshInv(o) /\ SweepInv(o) BY DEF TableInv
    <3>2. ArgInv(o)' BY <1>0, <1>1, <2>1, <3>1 DEF ArgInv
    <3>3. CallInv(o)' BY <1>0, <1>1, <2>1, <3>1 DEF CallInv
    <3>4. FreshInv(o)' BY <1>0, <1>1, <2>1, <2>2, <3>1 DEF FreshInv
    <3>5. SweepInv(o)' BY <1>0, <1>1, <2>1, <2>2, <3>1 DEF SweepInv, sweep
    <3> QED BY <3>2, <3>3, <3>4, <3>5
  <2> QED BY <1>1, <2>2, <2>3, <2>4, <2>5 DEF TableInv
<1>8. CASE ~(slot_size * 2 - 1 > HANDLE_MASK)
  <2>1. /\ pc' = [pc EXCEPT ![p] = "resize"]
        /\ slot' = [j \in 0..(slot_size * 2 - 1) |->
                       IF \E k \in DOMAIN slot : Rehashed(k) = j
                       THEN slot[CHOOSE k \in DOMAIN slot : Rehashed(k) = j] ELSE Nil]
    BY <1>3, <1>6, <1>8 DEF Rehash, Goto
  <2>2. Width' = slot_size * 2
    <3>1. pc'[p] = "resize" BY <1>0, <2>1
    <3> QED BY <1>1, <3>1 DEF Width
  <2>3. slot_size * 2 \in Nat \ {0} /\ M % (slot_size * 2) = 0
    <3>1. HANDLE_MASK \in Nat /\ IsPower(M) BY HandleAssumption DEF M
    <3>2. slot_size * 2 <= M BY <1>0, <1>8, <3>1 DEF M
    <3>3. M % slot_size = 0 /\ M \in Nat \ {0} BY <1>0, SizeIs
    <3>4. M % (slot_size * 2) = 0 BY <1>0, <3>1, <3>2, <3>3, PowerDivides
    <3> QED BY <1>0, <3>4
  <2>4. ASSUME NEW k \in 0..(slot_size - 1)
        PROVE  Rehashed(k) \in 0..(slot_size * 2 - 1) /\ slot'[Rehashed(k)] = slot[k]
    <3>1. Rehashed(k) \in 0..(slot_size * 2 - 1) BY <1>0, <1>2
    <3>2. (CHOOSE j \in DOMAIN slot : Rehashed(j) = Rehashed(k)) = k
      <4>1. PICK j : j = CHOOSE x \in DOMAIN slot : Rehashed(x) = Rehashed(k) OBVIOUS
      <4>2. j \in DOMAIN slot /\ Rehashed(j) = Rehashed(k) BY <1>3, <4>1
      <4> QED BY <1>3, <1>6, <4>1, <4>2
    <3> HIDE DEF Rehashed
    <3> QED BY <1>3, <2>1, <3>1, <3>2
  <2>5. ASSUME NEW j \in 0..(slot_size * 2 - 1), slot'[j] # Nil
        PROVE  \E k \in 0..(slot_size - 1) : Rehashed(k) = j /\ slot'[j] = slot[k]
    BY <1>3, <2>1, <2>4, <2>5
  <2>6. DOMAIN slot' = 0..(slot_size * 2 - 1) BY <2>1
  <2>7. InTable' = InTable
    <3>1. ASSUME NEW c \in InTable PROVE c \in InTable'
      <4>1. PICK k \in 0..(slot_size - 1) : c = slot[k] /\ c # Nil BY <1>3 DEF InTable
      <4> QED BY <2>4, <2>6, <4>1 DEF InTable
    <3>2. ASSUME NEW c \in InTable' PROVE c \in InTable
      <4>1. PICK j \in 0..(slot_size * 2 - 1) : c = slot'[j] /\ c # Nil BY <2>6 DEF InTable
      <4>2. PICK k \in 0..(slot_size - 1) : c = slot[k] BY <2>5, <4>1
      <4> QED BY <1>3, <4>1, <4>2 DEF InTable
    <3> QED BY <3>1, <3>2
  <2>8. Used' = Used BY <1>1, <2>7 DEF Used
  <2>9. ShapeInv'
    <3>1. \A j \in 0..(slot_size * 2 - 1) : slot'[j] \in Ctx \cup {Nil} BY <1>2, <2>5
    <3>2. slot' \in [0..(slot_size * 2 - 1) -> Ctx \cup {Nil}] BY <2>1, <3>1
    <3> QED BY <1>0, <1>1, <2>2, <2>3, <3>2 DEF ShapeInv
  <2>10. LocalInv' /\ NameInv' BY <1>1 DEF TableInv, LocalInv, NameInv, sweep
  <2>11. PlaceInv'
    <3>1. ASSUME NEW j \in 0..(slot_size * 2 - 1), slot'[j] # Nil
          PROVE  handle[slot'[j]] # 0 /\ handle[slot'[j]] % (slot_size * 2) = j
      <4>1. PICK k \in 0..(slot_size - 1) : Rehashed(k) = j /\ slot'[j] = slot[k] BY <2>5, <3>1
      <4> QED BY <1>2, <4>1 DEF Rehashed, Hash
    <3> QED BY <1>1, <2>2, <3>1 DEF PlaceInv
  <2>12. ASSUME NEW o \in Proc PROVE ArgInv(o)' /\ CallInv(o)' /\ FreshInv(o)' /\ SweepInv(o)'
    <3>1. ArgInv(o) /\ CallInv(o) /\ FreshInv(o) /\ SweepInv(o) BY DEF TableInv
    <3>2. ArgInv(o)' BY <1>0, <1>1, <2>1, <3>1 DEF ArgInv
    <3>3. CallInv(o)' BY <1>0, <1>1, <2>1, <3>1 DEF CallInv
    <3>4. FreshInv(o)' BY <1>0, <1>1, <1>4, <1>5, <2>1, <2>7, <3>1 DEF FreshInv
    <3>5. SweepInv(o)' BY <1>0, <1>1, <2>1, <2>8, <3>1 DEF SweepInv, sweep
    <3> QED BY <3>2, <3>3, <3>4, <3>5
  <2> QED BY <1>1, <2>7, <2>9, <2>10, <2>11, <2>12 DEF TableInv
<1> QED BY <1>7, <1>8

\* skynet_handle_register: slot_size follows the larger array.
LEMMA ResizeKeeps ==
    ASSUME SoleLauncher, TableInv, LockInv', NEW p \in Proc, Resize(p)
    PROVE  TableInv' /\ InTable' = InTable /\ handle' = handle /\ name' = name
<1>0. /\ pc \in [Proc -> Label] /\ op \in [Proc -> Function \cup {"none"}]
      /\ ShapeInv /\ PlaceInv /\ slot_size \in Nat \ {0} /\ i \in [Proc -> Nat]
  BY DEF TableInv, LockInv, LocalInv, ShapeInv
<1>1. /\ pc[p] = "resize" /\ pc' = [pc EXCEPT ![p] = "writing"] /\ slot_size' = slot_size * 2
      /\ UNCHANGED <<slot, handle_index, name, handle, op, arg, sweep, got>>
  BY DEF Resize, Goto
<1>2. op[p] = "register" BY <1>1 DEF TableInv, CallInv
<1>3. Width = slot_size * 2 BY <1>1 DEF Width
<1>4. \A o \in Proc : o # p => pc[o] \notin FlagPc BY <1>1 DEF TableInv, LockInv, FlagPc
<1>5. \A o \in Proc : pc'[o] # "resize" BY <1>0, <1>1, <1>4 DEF FlagPc
<1>6. Width' = Width BY <1>1, <1>3, <1>5 DEF Width
<1>7. InTable' = InTable /\ Used' = Used BY <1>1 DEF InTable, Used
<1>8. ShapeInv' BY <1>0, <1>1, <1>6 DEF ShapeInv
<1>9. LocalInv' /\ NameInv' BY <1>1 DEF TableInv, LocalInv, NameInv, sweep
<1>10. PlaceInv'
  <2>1. \A o \in Proc : pc[o] = "assign" => pc'[o] = "assign" BY <1>0, <1>1
  <2> QED BY <1>0, <1>1, <1>6, <2>1 DEF PlaceInv
<1>11. ASSUME NEW o \in Proc PROVE ArgInv(o)' /\ CallInv(o)' /\ FreshInv(o)' /\ SweepInv(o)'
  <2>1. ArgInv(o) /\ CallInv(o) /\ FreshInv(o) /\ SweepInv(o) BY DEF TableInv
  <2>2. ArgInv(o)' BY <1>0, <1>1, <1>2, <2>1 DEF ArgInv
  <2>3. CallInv(o)' BY <1>0, <1>1, <1>2, <2>1 DEF CallInv, RetiringPc
  <2>4. FreshInv(o)' BY <1>0, <1>1, <1>6, <1>7, <2>1 DEF FreshInv
  <2>5. SweepInv(o)'
    <3>1. SUFFICES ASSUME op[o] = "retireall" PROVE SweepInv(o)' BY <1>1 DEF SweepInv
    <3>2. o # p /\ pc'[o] = pc[o] BY <1>0, <1>1, <1>2, <3>1
    <3>3. pc[o] # "sweep" => i[o] < slot_size * 2 BY <1>0, <2>1, <3>1 DEF SweepInv
    <3>4. ASSUME n[o] = 0, NEW h \in there[o]
          PROVE  /\ h \in Used /\ h % (slot_size * 2) >= i[o]
                 /\ pc[o] \in RetiringPc /\ h % (slot_size * 2) = i[o] => h = arg[o]
      <4>1. /\ h \in Used /\ h % slot_size >= i[o]
            /\ pc[o] \in RetiringPc /\ h % slot_size = i[o] => h = arg[o]
        BY <2>1, <3>1, <3>4 DEF SweepInv
      <4>2. h \in Nat BY <1>0, <4>1, UsedIs, HandleIs
      <4>3. h % (slot_size * 2) \in {h % slot_size, (h % slot_size) + slot_size} BY <1>0, <4>2, Doubles
      <4>4. h % slot_size \in 0..(slot_size - 1) BY <1>0, <4>2, SizeIs
      <4>5. h % (slot_size * 2) >= i[o] BY <1>0, <4>1, <4>3, <4>4
      <4>6. ASSUME pc[o] \in RetiringPc, h % (slot_size * 2) = i[o] PROVE h % slot_size = i[o]
        <5>1. i[o] < slot_size BY <2>1, <3>1, <4>6 DEF SweepInv, RetiringPc
        <5> QED BY <1>0, <4>3, <4>4, <4>6, <5>1
      <4> QED BY <4>1, <4>5, <4>6
    <3> QED BY <1>1, <1>7, <3>2, <3>3, <3>4 DEF SweepInv, sweep
  <2> QED BY <2>2, <2>3, <2>4, <2>5
<1> QED BY <1>1, <1>7, <1>8, <1>9, <1>10, <1>11 DEF TableInv

\* skynet_context_new: the new handle is nobody's and leads to the context.
LEMMA AssignKeeps ==
    ASSUME SoleLauncher, ZeroUnused, TableInv, LockInv', NEW p \in Proc, Assign(p)
    PROVE  /\ TableInv'
           /\ arg[p] \in Ctx /\ got[p] + harbor \in Handle /\ got[p] + harbor \notin Used
           /\ InTable' = InTable /\ arg[p] \in InTable /\ handle[arg[p]] = 0
           /\ Used' = Used \cup {got[p] + harbor}
<1>0. /\ pc \in [Proc -> Label] /\ op \in [Proc -> Function \cup {"none"}]
      /\ DOMAIN arg = Proc /\ DOMAIN got = Proc
      /\ ShapeInv /\ PlaceInv /\ slot_size \in Nat \ {0} /\ i \in [Proc -> Nat]
  BY DEF TableInv, LockInv, LocalInv, ShapeInv
<1>1. /\ pc[p] = "assign" /\ op[p] = "register" /\ pc' = [pc EXCEPT ![p] = "idle"]
      /\ op' = [op EXCEPT ![p] = "none"] /\ arg' = [arg EXCEPT ![p] = Nil]
      /\ UNCHANGED <<table, name, sweep>>
  BY DEF Assign, Return, Goto, TableInv, CallInv
<1>2. PICK c \in Ctx, g \in 0..HANDLE_MASK : /\ c = arg[p] /\ g = got[p] /\ handle[c] = 0
                                             /\ slot[g % Width] = c
  BY <1>1 DEF TableInv, ArgInv, FreshInv
<1>3. /\ handle' = [handle EXCEPT ![c] = g + harbor] /\ got' = [got EXCEPT ![p] = g + harbor]
  BY <1>2 DEF Assign
<1>4. g + harbor \in Handle /\ g + harbor \in Nat /\ g + harbor # 0 /\ g \in Nat /\ harbor \in Nat
  BY <1>1, <1>2, HandedUsed, HandleAssumption
<1>5. (g + harbor) % Width = g % Width /\ g % Width \in 0..(Width - 1) /\ Width \in Nat \ {0}
  <2>1. harbor % M = 0 /\ M % Width = 0 BY <1>0, HandleAssumption DEF M, ShapeInv
  <2>2. harbor % Width = 0 BY <1>0, <1>4, <2>1, SizeIs, Divides
  <2> QED BY <1>0, <1>4, <2>2, SizeIs, ModPlus
<1>6. Width' = Width BY <1>0, <1>1, WidthKept DEF TableInv, table
<1>7. InTable' = InTable /\ c \in InTable
  <2>1. c # Nil BY HandleAssumption
  <2>2. DOMAIN slot = 0..(Width - 1) BY <1>0 DEF ShapeInv
  <2> QED BY <1>1, <1>2, <1>5, <2>1, <2>2 DEF InTable, table
<1>8. g + harbor \notin Used
  <2>1. SUFFICES ASSUME g + harbor \in Used PROVE FALSE OBVIOUS
  <2>2. handle[slot[(g + harbor) % Width]] = g + harbor BY <1>0, <2>1, UsedIs
  <2> QED BY <1>2, <1>4, <1>5, <2>2
<1>9. Used' = Used \cup {g + harbor}
  <2>1. \A d \in InTable : d \in Ctx BY <1>0, UsedIs
  <2>2. handle'[c] = g + harbor /\ \A d \in InTable : d # c => handle'[d] = handle[d]
    BY <1>0, <1>3, <2>1 DEF ShapeInv
  <2> QED BY <1>2, <1>4, <1>7, <2>2 DEF Used
<1>10. ShapeInv' BY <1>0, <1>1, <1>3, <1>4, <1>6 DEF ShapeInv, table
<1>11. LocalInv' BY <1>1, <1>3 DEF TableInv, LocalInv, sweep
<1>12. NameInv' BY <1>1 DEF TableInv, NameInv
<1>13. PlaceInv'
  <2>1. slot' = slot BY <1>1 DEF table
  <2>2. ASSUME NEW k \in 0..(Width - 1), slot[k] # Nil
        PROVE  handle'[slot[k]] # 0 /\ handle'[slot[k]] % Width = k
    <3>1. slot[k] \in Ctx BY <1>0, <2>2 DEF ShapeInv
    <3>2. handle[slot[k]] = 0 => slot[k] = c /\ k = g % Width
      <4>1. SUFFICES ASSUME handle[slot[k]] = 0 PROVE slot[k] = c /\ k = g % Width OBVIOUS
      <4>2. PICK o \in Proc : pc[o] = "assign" /\ arg[o] = slot[k] /\ got[o] % Width = k
        BY <1>0, <2>2, <4>1 DEF PlaceInv
      <4>3. o = p BY <1>1, <4>2, Sole DEF TableInv, CallInv
      <4> QED BY <1>2, <4>2, <4>3
    <3>3. handle[slot[k]] # 0 => handle[slot[k]] % Width = k /\ slot[k] # c
      BY <1>0, <1>2, <2>2 DEF PlaceInv
    <3>4. CASE handle[slot[k]] = 0
      <4>1. handle'[slot[k]] = g + harbor BY <1>0, <1>3, <3>1, <3>2, <3>4 DEF ShapeInv
      <4> QED BY <1>4, <1>5, <3>2, <3>4, <4>1
    <3>5. CASE handle[slot[k]] # 0
      <4>1. handle'[slot[k]] = handle[slot[k]] BY <1>0, <1>3, <3>1, <3>3, <3>5 DEF ShapeInv
      <4> QED BY <3>3, <3>5, <4>1
    <3> QED BY <3>4, <3>5
  <2> QED BY <1>6, <2>1, <2>2 DEF PlaceInv
<1>14. ASSUME NEW o \in Proc PROVE ArgInv(o)' /\ CallInv(o)' /\ FreshInv(o)' /\ SweepInv(o)'
  <2>1. ArgInv(o) /\ CallInv(o) /\ FreshInv(o) /\ SweepInv(o) BY DEF TableInv
  <2>2. CASE o = p BY <1>0, <1>1, <2>2 DEF ArgInv, CallInv, FreshInv, SweepInv, RetiringPc
  <2>3. CASE o # p
    <3>1. /\ pc'[o] = pc[o] /\ op'[o] = op[o] /\ arg'[o] = arg[o] /\ got'[o] = got[o]
          /\ op[o] # "register"
      BY <1>0, <1>1, <1>3, <2>3, Sole
    <3>2. ArgInv(o)' BY <2>1, <3>1 DEF ArgInv
    <3>3. CallInv(o)' BY <2>1, <3>1 DEF CallInv
    <3>4. FreshInv(o)' BY <3>1 DEF FreshInv
    <3>5. SweepInv(o)' BY <1>1, <1>9, <2>1, <3>1 DEF SweepInv, sweep, table
    <3> QED BY <3>2, <3>3, <3>4, <3>5
  <2> QED BY <2>2, <2>3
<1> QED BY <1>2, <1>4, <1>7, <1>8, <1>9, <1>10, <1>11, <1>12, <1>13, <1>14 DEF TableInv

\* A lookup finds the context of a handle that is in use, and nothing for another.
LEMMA FoundIs ==
    ASSUME ShapeInv, PlaceInv, Width = slot_size, NEW h \in Handle \ {0}
    PROVE  /\ h # 0 /\ h \in Nat /\ h % slot_size \in DOMAIN slot
           /\ Found(h) # Nil <=> h \in Used
           /\ Found(h) # Nil => /\ Found(h) \in Ctx /\ handle[Found(h)] = h
                                /\ Found(h) = slot[h % slot_size] /\ Found(h) \in InTable
<1>1. h # 0 /\ h \in Nat BY HandleAssumption DEF Handle
<1>2. h % slot_size \in DOMAIN slot BY <1>1, SizeIs DEF ShapeInv
<1>3. Found(h) # Nil => /\ Found(h) \in Ctx /\ handle[Found(h)] = h
                        /\ Found(h) = slot[h % slot_size] /\ Found(h) \in InTable
  BY <1>2 DEF Found, Hash, InTable, ShapeInv
<1>4. Found(h) # Nil => h \in Used BY <1>1, <1>3 DEF Used
<1>5. h \in Used => Found(h) # Nil
  <2>1. h \in Used => slot[h % slot_size] \in Ctx /\ handle[slot[h % slot_size]] = h BY UsedIs
  <2>2. Nil \notin Ctx BY HandleAssumption
  <2> QED BY <2>1, <2>2 DEF Found, Hash
<1> QED BY <1>1, <1>2, <1>3, <1>4, <1>5

\* What skynet_handle_retire takes out of the table.
LEMMA RetireTakes ==
    ASSUME SoleLauncher, ZeroUnused, TableInv, NEW p \in Proc, Retire(p)
    PROVE  /\ Width = slot_size /\ Width' = Width /\ arg[p] \in Handle \ {0}
           /\ arg[p] \in Used => /\ slot' = [slot EXCEPT ![arg[p] % slot_size] = Nil]
                                 /\ slot[arg[p] % slot_size] = Found(arg[p])
                                 /\ handle' = [handle EXCEPT ![Found(arg[p])] = 0]
                                 /\ InTable' = InTable \ {Found(arg[p])}
                                 /\ Used' = Used \ {arg[p]}
                                 /\ name' = NamesWithout(arg[p])
                                 /\ \A c \in InTable : c # Found(arg[p]) => handle'[c] = handle[c]
           /\ arg[p] \notin Used => /\ UNCHANGED <<slot, handle, name, n, there>>
                                    /\ InTable' = InTable /\ Used' = Used
<1>0. /\ pc \in [Proc -> Label] /\ ShapeInv /\ PlaceInv
  BY DEF TableInv, LockInv
<1>1. /\ pc[p] = "writing" /\ op[p] \in {"retire", "retireall"}
      /\ slot_size' = slot_size /\ pc'[p] \in {"idle", "sweep"} /\ pc' = [pc EXCEPT ![p] = pc'[p]]
  BY <1>0 DEF Retire, Return, Goto
<1>2. Width = slot_size BY <1>1, Alone DEF FlagPc
<1>3. Width' = Width BY <1>1, WidthKept DEF TableInv
<1>4. PICK h \in Handle \ {0} : h = arg[p] BY <1>1, ArgUsed DEF RetiringPc
<1>5. CASE h \in Used
  <2>1. PICK c : c = Found(h) OBVIOUS
  <2>2. /\ c # Nil /\ c \in Ctx /\ handle[c] = h /\ slot[h % slot_size] = c /\ h # 0
        /\ h % slot_size \in DOMAIN slot
    BY <1>0, <1>2, <1>5, <2>1, FoundIs
  <2>3. /\ slot' = [slot EXCEPT ![h % slot_size] = Nil] /\ handle' = [handle EXCEPT ![c] = 0]
        /\ name' = NamesWithout(h)
    BY <1>4, <2>1, <2>2 DEF Retire, Hash
  <2>4. \A k \in DOMAIN slot : slot[k] = c => k = h % slot_size
    BY <1>0, <1>2, <2>2 DEF PlaceInv, ShapeInv
  <2>5. InTable' = InTable \ {c} BY <2>2, <2>3, <2>4 DEF InTable
  <2>6. \A d \in InTable : d # c => handle'[d] = handle[d]
    <3>1. \A d \in InTable : d \in Ctx BY <1>0, UsedIs
    <3> QED BY <1>0, <2>3, <3>1 DEF ShapeInv
  <2>7. \A d \in InTable : d # c => handle[d] # h BY <1>0, <1>2, <2>2, UsedIs
  <2>8. Used' = Used \ {h}
    <3>1. ASSUME NEW x \in Used' PROVE x \in Used \ {h}
      <4>1. PICK d \in InTable' : x = handle'[d] /\ x # 0 BY DEF Used
      <4> QED BY <2>5, <2>6, <2>7, <4>1 DEF Used
    <3>2. ASSUME NEW x \in Used, x # h PROVE x \in Used'
      <4>1. PICK d \in InTable : x = handle[d] /\ x # 0 BY DEF Used
      <4>2. d # c BY <2>2, <3>2, <4>1
      <4> QED BY <2>5, <2>6, <4>1, <4>2 DEF Used
    <3> QED BY <3>1, <3>2
  <2> QED BY <1>2, <1>3, <1>4, <1>5, <2>1, <2>2, <2>3, <2>5, <2>6, <2>8
<1>6. CASE h \notin Used
  <2>1. Found(h) = Nil BY <1>0, <1>2, <1>6, FoundIs
  <2>2. UNCHANGED <<slot, handle, name, n, there>> BY <1>4, <2>1 DEF Retire
  <2>3. InTable' = InTable /\ Used' = Used BY <2>2 DEF InTable, Used
  <2> QED BY <1>2, <1>3, <1>4, <1>6, <2>2, <2>3
<1> QED BY <1>5, <1>6

\* skynet_handle_retire: the other contexts stay where their handles lead.
LEMMA RetireKeeps ==
    ASSUME SoleLauncher, ZeroUnused, TableInv, LockInv', NEW p \in Proc, Retire(p)
    PROVE  TableInv'
<1>0. /\ pc \in [Proc -> Label] /\ op \in [Proc -> Function \cup {"none"}]
      /\ DOMAIN arg = Proc /\ arg = [o \in Proc |-> arg[o]] /\ DOMAIN got = Proc
      /\ i \in [Proc -> Nat] /\ n \in [Proc -> {0, 1}] /\ there \in [Proc -> SUBSET Handle]
      /\ ShapeInv /\ PlaceInv /\ LocalInv /\ NameInv /\ slot_size \in Nat \ {0}
  BY DEF TableInv, LockInv, LocalInv, ShapeInv
<1>1. /\ pc[p] = "writing" /\ op[p] \in {"retire", "retireall"}
      /\ pc' = [pc EXCEPT ![p] = IF op[p] = "retire" THEN "idle" ELSE "sweep"]
      /\ op' = [op EXCEPT ![p] = IF op[p] = "retire" THEN "none" ELSE "retireall"]
      /\ arg' = [arg EXCEPT ![p] = Nil]
      /\ i' = IF op[p] = "retire" THEN i ELSE [i EXCEPT ![p] = @ + 1]
      /\ UNCHANGED <<slot_size, handle_index, got>>
  BY <1>0 DEF Retire, Return, Goto
<1>2. Width = slot_size /\ Width' = Width /\ arg[p] \in Handle \ {0} BY RetireTakes
<1>3. PICK h \in Handle \ {0} : h = arg[p] BY <1>2
<1>4. PICK c : c = Found(h) OBVIOUS
<1>5. h # 0 /\ h \in Nat /\ h % slot_size \in DOMAIN slot BY <1>0, <1>2, FoundIs
<1>6. h \in Used => /\ c \in Ctx /\ handle[c] = h /\ c \in InTable
                    /\ slot' = [slot EXCEPT ![h % slot_size] = Nil]
                    /\ slot[h % slot_size] = c
                    /\ handle' = [handle EXCEPT ![c] = 0]
                    /\ InTable' = InTable \ {c} /\ Used' = Used \ {h} /\ name' = NamesWithout(h)
                    /\ n' = [n EXCEPT ![p] = IF op[p] = "retireall" THEN 1 ELSE @]
                    /\ there' = [o \in Proc |-> there[o] \ {h}]
  <2>1. h \in Used => c # Nil /\ c \in Ctx /\ handle[c] = h /\ c \in InTable
    BY <1>0, <1>2, <1>4, FoundIs
  <2>2. h \in Used => /\ n' = [n EXCEPT ![p] = IF op[p] = "retireall" THEN 1 ELSE @]
                      /\ there' = [o \in Proc |-> there[o] \ {h}]
    BY <1>3, <1>4, <2>1 DEF Retire
  <2>3. h \in Used => /\ slot' = [slot EXCEPT ![h % slot_size] = Nil]
                      /\ slot[h % slot_size] = c
                      /\ handle' = [handle EXCEPT ![c] = 0]
                      /\ InTable' = InTable \ {c} /\ Used' = Used \ {h} /\ name' = NamesWithout(h)
    BY <1>3, <1>4, RetireTakes
  <2> QED BY <2>1, <2>2, <2>3
<1>7. h \notin Used => UNCHANGED <<slot, handle, name, n, there>> /\ InTable' = InTable /\ Used' = Used
  BY <1>3, RetireTakes
<1>8. ShapeInv' BY <1>0, <1>1, <1>2, <1>5, <1>6, <1>7 DEF ShapeInv
<1>9. LocalInv'
  <2>1. n' \in [Proc -> {0, 1}] /\ there' \in [Proc -> SUBSET Handle] BY <1>0, <1>6, <1>7
  <2>2. op' \in [Proc -> Function \cup {"none"}] BY <1>0, <1>1 DEF Function
  <2>3. i' \in [Proc -> Nat] BY <1>0, <1>1
  <2>4. DOMAIN arg' = Proc /\ arg' = [o \in Proc |-> arg'[o]] BY <1>0, <1>1
  <2> QED BY <1>0, <1>1, <2>1, <2>2, <2>3, <2>4 DEF LocalInv
<1>10. NameInv' BY <1>0, <1>6, <1>7, NamesWithoutIs DEF NameInv
<1>11. PlaceInv'
  <2>1. \A o \in Proc : pc[o] = "assign" => pc'[o] = "assign" /\ arg'[o] = arg[o] BY <1>0, <1>1
  <2>2. CASE h \notin Used BY <1>0, <1>1, <1>2, <1>7, <2>1, <2>2 DEF PlaceInv
  <2>3. CASE h \in Used
    <3>1. ASSUME NEW k \in 0..(Width - 1), slot'[k] # Nil
          PROVE  slot'[k] = slot[k] /\ handle'[slot[k]] = handle[slot[k]]
      <4>1. slot'[k] = slot[k] /\ k # h % slot_size BY <1>0, <1>5, <1>6, <2>3, <3>1 DEF ShapeInv
      <4>2. slot[k] # c BY <1>0, <1>2, <1>5, <1>6, <2>3, <3>1, <4>1 DEF PlaceInv
      <4> QED BY <1>0, <1>6, <2>3, <3>1, <4>1, <4>2 DEF ShapeInv
    <3> QED BY <1>0, <1>1, <1>2, <2>1, <3>1 DEF PlaceInv
  <2> QED BY <2>2, <2>3
<1>12. ASSUME NEW o \in Proc, o # p PROVE ArgInv(o)' /\ CallInv(o)' /\ FreshInv(o)' /\ SweepInv(o)'
  <2>1. ArgInv(o) /\ CallInv(o) /\ FreshInv(o) /\ SweepInv(o) BY DEF TableInv
  <2>2. pc'[o] = pc[o] /\ op'[o] = op[o] /\ arg'[o] = arg[o] /\ got'[o] = got[o] /\ i'[o] = i[o]
    BY <1>0, <1>1, <1>12
  <2>3. n'[o] = n[o] /\ there'[o] = there[o] \ (IF h \in Used THEN {h} ELSE {})
    BY <1>0, <1>6, <1>7, <1>12
  <2>4. ArgInv(o)' BY <1>0, <1>6, <1>7, <2>1, <2>2 DEF ArgInv, ShapeInv
  <2>5. CallInv(o)' BY <2>1, <2>2 DEF CallInv
  <2>6. FreshInv(o)'
    <3>1. CASE h \notin Used BY <1>2, <1>7, <2>1, <2>2, <3>1 DEF FreshInv
    <3>2. CASE h \in Used
      <4>1. SUFFICES ASSUME op[o] = "register" PROVE FreshInv(o)' BY <2>2 DEF FreshInv
      <4>2. CASE pc[o] = "assign"
        <5>1. got[o] \in 0..HANDLE_MASK /\ slot[got[o] % Width] = arg[o] /\ handle[arg[o]] = 0
          BY <2>1, <4>1, <4>2 DEF FreshInv, ArgInv
        <5>2. got[o] % Width # h % slot_size BY <1>2, <1>5, <1>6, <3>2, <5>1
        <5>3. got[o] \in Nat BY <5>1, HandleAssumption
        <5>4. got[o] % Width \in DOMAIN slot BY <1>0, <5>3, SizeIs DEF ShapeInv
        <5>5. slot'[got[o] % Width] = slot[got[o] % Width] BY <1>6, <3>2, <5>2, <5>4
        <5> QED BY <1>2, <2>2, <4>2, <5>1, <5>5 DEF FreshInv
      <4>3. CASE pc[o] # "assign" BY <1>6, <2>1, <2>2, <3>2, <4>3 DEF FreshInv
      <4> QED BY <4>2, <4>3
    <3> QED BY <3>1, <3>2
  <2>7. SweepInv(o)'
    <3>1. \A x \in there'[o] : x \in there[o] /\ (x \in Used => x \in Used')
      BY <1>6, <1>7, <2>3
    <3> QED BY <1>1, <2>1, <2>2, <2>3, <3>1 DEF SweepInv
  <2> QED BY <2>4, <2>5, <2>6, <2>7
<1>13. ArgInv(p)' /\ CallInv(p)' /\ FreshInv(p)' /\ SweepInv(p)'
  <2>1. ArgInv(p) /\ CallInv(p) /\ FreshInv(p) /\ SweepInv(p) BY DEF TableInv
  <2>2. ArgInv(p)' /\ CallInv(p)' /\ FreshInv(p)'
    BY <1>0, <1>1, <2>1 DEF ArgInv, CallInv, FreshInv, RetiringPc
  <2>3. SweepInv(p)'
    <3>1. CASE op[p] = "retire" BY <1>0, <1>1, <3>1 DEF SweepInv
    <3>2. CASE op[p] = "retireall" /\ h \in Used
      BY <1>0, <1>1, <1>6, <3>2 DEF SweepInv
    <3>3. CASE op[p] = "retireall" /\ h \notin Used
      <4>1. pc'[p] = "sweep" /\ i'[p] = i[p] + 1 /\ there'[p] = there[p] /\ n'[p] = n[p]
        BY <1>0, <1>1, <1>7, <3>3
      <4>2. ASSUME n[p] = 0, NEW x \in there[p] PROVE x \in Used /\ x % slot_size >= i[p] + 1
        <5>1. x \in Used /\ x % slot_size >= i[p] /\ (x % slot_size = i[p] => x = h)
          BY <1>1, <1>3, <2>1, <3>3, <4>2 DEF SweepInv, RetiringPc
        <5>2. x \in Nat BY <1>0, <5>1, UsedIs, HandleIs
        <5>3. x % slot_size \in Nat /\ i[p] \in Nat BY <1>0, <5>2, DivMod
        <5>4. x % slot_size # i[p] BY <3>3, <5>1
        <5> QED BY <5>1, <5>3, <5>4
      <4> QED BY <1>1, <1>7, <3>3, <4>1, <4>2 DEF SweepInv, RetiringPc
    <3> QED BY <1>1, <3>1, <3>2, <3>3
  <2> QED BY <2>2, <2>3
<1> QED BY <1>8, <1>9, <1>10, <1>11, <1>12, <1>13 DEF TableInv

\* A call that only reads, or that only names, returns.
LEMMA ReturnKeeps ==
    ASSUME TableInv, LockInv', NEW p \in Proc, Return(p), pc[p] \in {"reading", "writing"}, op[p] # "register",
           DOMAIN got' = Proc, got' = [o \in Proc |-> got'[o]],
           \A o \in Proc : o # p => got'[o] = got[o],
           UNCHANGED <<table, handle, sweep>>, NameInv'
    PROVE  TableInv'
<1>0. /\ pc \in [Proc -> Label] /\ op \in [Proc -> Function \cup {"none"}] /\ DOMAIN arg = Proc
  BY DEF TableInv, LockInv, LocalInv
<1>1. /\ pc' = [pc EXCEPT ![p] = "idle"] /\ op' = [op EXCEPT ![p] = "none"]
      /\ arg' = [arg EXCEPT ![p] = Nil]
  BY DEF Return, Goto
<1>2. Moves(p) BY <1>0, <1>1 DEF Moves
<1>3. Width' = Width /\ InTable' = InTable /\ Used' = Used BY <1>2, Idle DEF table
<1>4. ShapeInv' BY <1>3 DEF TableInv, ShapeInv, table
<1>5. LocalInv' BY <1>1 DEF TableInv, LocalInv, sweep
<1>6. PlaceInv'
  <2>1. \A o \in Proc : pc[o] = "assign" => pc'[o] = "assign" /\ arg'[o] = arg[o] /\ got'[o] = got[o]
    BY <1>0, <1>1
  <2> QED BY <1>3, <2>1 DEF TableInv, PlaceInv, table
<1>7. ASSUME NEW o \in Proc PROVE ArgInv(o)' /\ CallInv(o)' /\ FreshInv(o)' /\ SweepInv(o)'
  <2>1. ArgInv(o) /\ CallInv(o) /\ FreshInv(o) /\ SweepInv(o) BY DEF TableInv
  <2>2. CASE o = p BY <1>0, <1>1, <2>2 DEF ArgInv, CallInv, FreshInv, SweepInv
  <2>3. CASE o # p
    <3>1. /\ pc'[o] = pc[o] /\ op'[o] = op[o] /\ arg'[o] = arg[o] /\ got'[o] = got[o]
      BY <1>0, <1>1, <2>3
    <3>2. ArgInv(o)' BY <2>1, <3>1 DEF ArgInv
    <3>3. CallInv(o)' BY <2>1, <3>1 DEF CallInv
    <3>4. FreshInv(o)' BY <1>3, <2>1, <3>1 DEF FreshInv, table
    <3>5. SweepInv(o)' BY <1>3, <2>1, <3>1 DEF SweepInv, sweep, table
    <3> QED BY <3>2, <3>3, <3>4, <3>5
  <2> QED BY <2>2, <2>3
<1> QED BY <1>4, <1>5, <1>6, <1>7 DEF TableInv

\* skynet_handle_retireall: the head of the loop.
LEMMA SweepKeeps ==
    ASSUME TableInv, LockInv', NEW p \in Proc, Sweep(p)
    PROVE  TableInv'
<1>0. /\ pc \in [Proc -> Label] /\ op \in [Proc -> Function \cup {"none"}] /\ DOMAIN arg = Proc
      /\ i \in [Proc -> Nat] /\ n \in [Proc -> {0, 1}] /\ there \in [Proc -> SUBSET Handle]
      /\ ShapeInv /\ PlaceInv /\ LocalInv /\ slot_size \in Nat \ {0}
  BY DEF TableInv, LockInv, LocalInv, ShapeInv
<1>1. /\ pc[p] = "sweep" /\ op[p] = "retireall" /\ UNCHANGED <<table, name, handle, got>>
  BY DEF Sweep, TableInv, CallInv
<1>2. \/ /\ i[p] < slot_size /\ pc' = [pc EXCEPT ![p] = "rlock"] /\ UNCHANGED <<op, arg, sweep>>
      \/ /\ pc' = [pc EXCEPT ![p] = "idle"] /\ op' = [op EXCEPT ![p] = "none"]
         /\ arg' = [arg EXCEPT ![p] = Nil] /\ i' = [i EXCEPT ![p] = 0] /\ UNCHANGED <<n, there>>
      \/ /\ i' = [i EXCEPT ![p] = 0] /\ n' = [n EXCEPT ![p] = 0]
         /\ there' = [there EXCEPT ![p] = Used] /\ UNCHANGED <<pc, op, arg>>
  BY DEF Sweep, Goto, Return
<1>3. Moves(p) BY <1>0, <1>1, <1>2 DEF Moves
<1>4. Width' = Width /\ InTable' = InTable /\ Used' = Used BY <1>1, <1>3, Idle DEF table
<1>5. ShapeInv' /\ NameInv' BY <1>1, <1>4 DEF TableInv, ShapeInv, NameInv, table
<1>6. Used \in SUBSET Handle /\ \A h \in Used : h \in Nat /\ h % slot_size >= 0
  <2>1. Used \in SUBSET Handle BY <1>0, UsedIs
  <2>2. \A h \in Used : h \in Nat BY <2>1, HandleIs
  <2> QED BY <1>0, <2>1, <2>2, DivMod
<1>7. LocalInv'
  <2>1. op' \in [Proc -> Function \cup {"none"}] BY <1>0, <1>2
  <2>2. DOMAIN arg' = Proc /\ arg' = [o \in Proc |-> arg'[o]] BY <1>0, <1>2 DEF LocalInv
  <2>3. i' \in [Proc -> Nat] /\ n' \in [Proc -> {0, 1}] BY <1>0, <1>2 DEF sweep
  <2>4. there' \in [Proc -> SUBSET Handle] BY <1>0, <1>2, <1>6 DEF sweep
  <2> QED BY <1>0, <1>1, <2>1, <2>2, <2>3, <2>4 DEF LocalInv
<1>8. ASSUME NEW o \in Proc, o # p
      PROVE  /\ pc'[o] = pc[o] /\ op'[o] = op[o] /\ arg'[o] = arg[o] /\ got'[o] = got[o]
             /\ i'[o] = i[o] /\ n'[o] = n[o] /\ there'[o] = there[o]
  BY <1>0, <1>1, <1>2, <1>8 DEF sweep
<1>9. PlaceInv'
  <2>1. \A o \in Proc : pc[o] = "assign" => pc'[o] = "assign" /\ arg'[o] = arg[o] /\ got'[o] = got[o]
    BY <1>1, <1>8
  <2> QED BY <1>0, <1>1, <1>4, <2>1 DEF PlaceInv, table
<1>10. ASSUME NEW o \in Proc, o # p PROVE ArgInv(o)' /\ CallInv(o)' /\ FreshInv(o)' /\ SweepInv(o)'
  <2>1. ArgInv(o) /\ CallInv(o) /\ FreshInv(o) /\ SweepInv(o) BY DEF TableInv
  <2>2. /\ pc'[o] = pc[o] /\ op'[o] = op[o] /\ arg'[o] = arg[o] /\ got'[o] = got[o]
        /\ i'[o] = i[o] /\ n'[o] = n[o] /\ there'[o] = there[o]
    BY <1>8, <1>10
  <2>3. ArgInv(o)' BY <1>1, <2>1, <2>2 DEF ArgInv
  <2>4. CallInv(o)' BY <2>1, <2>2 DEF CallInv
  <2>5. FreshInv(o)' BY <1>1, <1>4, <2>1, <2>2 DEF FreshInv, table
  <2>6. SweepInv(o)' BY <1>1, <1>4, <2>1, <2>2 DEF SweepInv, table
  <2> QED BY <2>3, <2>4, <2>5, <2>6
<1>11. ArgInv(p)' /\ CallInv(p)' /\ FreshInv(p)' /\ SweepInv(p)'
  <2>1. ArgInv(p) /\ CallInv(p) /\ FreshInv(p) /\ SweepInv(p) BY DEF TableInv
  <2>2. ArgInv(p)' /\ CallInv(p)' /\ FreshInv(p)'
    BY <1>0, <1>1, <1>2, <2>1 DEF ArgInv, CallInv, FreshInv, RetiringPc
  <2>3. SweepInv(p)'
    <3>1. CASE i[p] < slot_size /\ pc' = [pc EXCEPT ![p] = "rlock"] /\ UNCHANGED <<op, arg, sweep>>
      BY <1>0, <1>1, <1>4, <2>1, <3>1 DEF SweepInv, RetiringPc, sweep, table
    <3>2. CASE op' = [op EXCEPT ![p] = "none"] BY <1>0, <3>2 DEF SweepInv
    <3>3. CASE /\ i' = [i EXCEPT ![p] = 0] /\ there' = [there EXCEPT ![p] = Used] /\ UNCHANGED pc
      BY <1>0, <1>1, <1>4, <1>6, <3>3 DEF SweepInv, RetiringPc, table
    <3> QED BY <1>2, <3>1, <3>2, <3>3
  <2> QED BY <2>2, <2>3
<1> QED BY <1>5, <1>7, <1>9, <1>10, <1>11 DEF TableInv

\* skynet_handle_retireall: the handle of a slot is read. No handle in use is left in the
\* slots behind the loop: a context moves up, or stays, when the table is doubled.
LEMMA SweepReadsKeeps ==
    ASSUME TableInv, LockInv', NEW p \in Proc, SweepReads(p)
    PROVE  TableInv'
<1>0. /\ pc \in [Proc -> Label] /\ op \in [Proc -> Function \cup {"none"}] /\ DOMAIN arg = Proc
      /\ i \in [Proc -> Nat] /\ ShapeInv /\ PlaceInv /\ LocalInv /\ slot_size \in Nat \ {0}
  BY DEF TableInv, LockInv, LocalInv, ShapeInv
<1>1. /\ pc[p] = "reading" /\ op[p] = "retireall"
      /\ UNCHANGED <<table, name, handle, op, n, there, got>>
  BY DEF SweepReads
<1>2. PICK h : h = IF slot[i[p]] = Nil THEN 0 ELSE handle[slot[i[p]]] OBVIOUS
<1>3. \/ h = 0 /\ i' = [i EXCEPT ![p] = @ + 1] /\ pc' = [pc EXCEPT ![p] = "sweep"] /\ UNCHANGED arg
      \/ h # 0 /\ arg' = [arg EXCEPT ![p] = h] /\ pc' = [pc EXCEPT ![p] = "wlock"] /\ UNCHANGED i
  BY <1>2 DEF SweepReads, Goto
<1>4. Moves(p) BY <1>0, <1>1, <1>3 DEF Moves
<1>5. Width' = Width /\ InTable' = InTable /\ Used' = Used BY <1>1, <1>4, Idle DEF table
<1>6. Width = slot_size
  <2>1. \A o \in Proc : pc[o] # "resize" BY <1>1 DEF TableInv, LockInv, WritingPc
  <2> QED BY <2>1 DEF Width
<1>7. i[p] \in 0..(slot_size - 1) BY <1>0, <1>1 DEF TableInv, SweepInv
<1>8. h # 0 => h \in Handle BY <1>0, <1>2, <1>6, <1>7 DEF ShapeInv
<1>9. \A x \in Used : x % slot_size = i[p] => x = h /\ x # 0 BY <1>0, <1>2, <1>6, UsedIs, HandleAssumption
<1>10. ShapeInv' /\ NameInv' BY <1>1, <1>5 DEF TableInv, ShapeInv, NameInv, table
<1>11. LocalInv'
  <2>1. DOMAIN arg' = Proc /\ arg' = [o \in Proc |-> arg'[o]] BY <1>0, <1>3 DEF LocalInv
  <2>2. i' \in [Proc -> Nat] BY <1>0, <1>3
  <2> QED BY <1>0, <1>1, <2>1, <2>2 DEF LocalInv
<1>12. ASSUME NEW o \in Proc, o # p
       PROVE  pc'[o] = pc[o] /\ op'[o] = op[o] /\ arg'[o] = arg[o] /\ got'[o] = got[o] /\ i'[o] = i[o]
  BY <1>0, <1>1, <1>3, <1>12
<1>13. PlaceInv'
  <2>1. \A o \in Proc : pc[o] = "assign" => pc'[o] = "assign" /\ arg'[o] = arg[o] /\ got'[o] = got[o]
    BY <1>1, <1>12
  <2> QED BY <1>0, <1>1, <1>5, <2>1 DEF PlaceInv, table
<1>14. ASSUME NEW o \in Proc, o # p PROVE ArgInv(o)' /\ CallInv(o)' /\ FreshInv(o)' /\ SweepInv(o)'
  <2>1. ArgInv(o) /\ CallInv(o) /\ FreshInv(o) /\ SweepInv(o) BY DEF TableInv
  <2>2. pc'[o] = pc[o] /\ op'[o] = op[o] /\ arg'[o] = arg[o] /\ got'[o] = got[o] /\ i'[o] = i[o]
    BY <1>12, <1>14
  <2>3. ArgInv(o)' BY <1>1, <2>1, <2>2 DEF ArgInv
  <2>4. CallInv(o)' BY <2>1, <2>2 DEF CallInv
  <2>5. FreshInv(o)' BY <1>1, <1>5, <2>1, <2>2 DEF FreshInv, table
  <2>6. SweepInv(o)' BY <1>1, <1>5, <2>1, <2>2 DEF SweepInv, table
  <2> QED BY <2>3, <2>4, <2>5, <2>6
<1>15. ArgInv(p)' /\ CallInv(p)' /\ FreshInv(p)' /\ SweepInv(p)'
  <2>1. ArgInv(p) /\ CallInv(p) /\ FreshInv(p) /\ SweepInv(p) BY DEF TableInv
  <2>2. ArgInv(p)' BY <1>0, <1>1, <1>3, <1>8 DEF ArgInv, RetiringPc
  <2>3. CallInv(p)' BY <1>0, <1>1, <1>3, <2>1 DEF CallInv, RetiringPc
  <2>4. FreshInv(p)' BY <1>1 DEF FreshInv
  <2>5. SweepInv(p)'
    <3>1. ASSUME n[p] = 0, NEW x \in there[p]
          PROVE  /\ x \in Used /\ x % slot_size \in Nat /\ x % slot_size >= i[p]
                 /\ x % slot_size = i[p] => x = h /\ x # 0
      <4>1. x \in Used /\ x % slot_size >= i[p] BY <1>1, <2>1, <3>1 DEF SweepInv
      <4>2. x \in Nat BY <1>0, <4>1, UsedIs, HandleIs
      <4> QED BY <1>0, <1>9, <4>1, <4>2, DivMod
    <3>2. CASE h = 0
      <4>1. i'[p] = i[p] + 1 /\ pc'[p] = "sweep" BY <1>0, <1>3, <3>2
      <4>2. n[p] = 0 => \A x \in there[p] : x \in Used /\ x % slot_size >= i[p] + 1
        BY <1>0, <3>1, <3>2
      <4> QED BY <1>1, <1>5, <4>1, <4>2 DEF SweepInv, RetiringPc, table
    <3>3. CASE h # 0
      <4>1. i'[p] = i[p] /\ pc'[p] = "wlock" /\ arg'[p] = h BY <1>0, <1>3, <3>3
      <4> QED BY <1>0, <1>1, <1>5, <1>7, <3>1, <4>1 DEF SweepInv, table
    <3> QED BY <3>2, <3>3
  <2> QED BY <2>2, <2>3, <2>4, <2>5
<1> QED BY <1>10, <1>11, <1>13, <1>14, <1>15 DEF TableInv

\* skynet_handle_namehandle: the name is bound unless it was.
LEMMA NamehandleTakes ==
    ASSUME TableInv, NEW p \in Proc, Namehandle(p)
    PROVE  LET h == arg[p][1]
               m == arg[p][2]
           IN  /\ h \in Handle /\ m \in Name /\ NameInv'
               /\ IF m \in {e.name : e \in Entries(name)} THEN UNCHANGED <<name, got>>
                  ELSE /\ Entries(name') = Entries(name) \cup {[name |-> m, handle |-> h]}
                       /\ got' = [got EXCEPT ![p] = m]
<1>1. PICK h \in Handle, m \in Name : h = arg[p][1] /\ m = arg[p][2]
  BY DEF Namehandle, TableInv, ArgInv
<1>2. name \in Seq(NameEntry) /\ Sorted(name) BY DEF TableInv, NameInv
<1>3. PICK r : r = Search(m) OBVIOUS
<1>4. Answers(m, r) BY <1>2, <1>3, SearchIs
<1>5. CASE r.found
  <2>1. UNCHANGED <<name, got>> BY <1>1, <1>3, <1>5 DEF Namehandle
  <2>2. m \in {e.name : e \in Entries(name)} BY <1>4, <1>5 DEF Answers, Entries
  <2> QED BY <1>1, <1>2, <2>1, <2>2 DEF NameInv
<1>6. CASE ~r.found
  <2>1. PICK e \in NameEntry : e = [name |-> m, handle |-> h] BY DEF NameEntry
  <2>2. name' = InsertBefore(e, r.at) /\ got' = [got EXCEPT ![p] = m] BY <1>1, <1>3, <1>6, <2>1 DEF Namehandle
  <2>3. /\ r.at \in 0..Len(name) /\ e.name = m
        /\ \A j \in 1..Len(name) : /\ j <= r.at => name[j].name < e.name
                                   /\ j > r.at => name[j].name > e.name
    <3>1. e.name = m BY <2>1
    <3>2. /\ r.at \in 0..Len(name)
          /\ \A j \in 1..Len(name) : /\ j <= r.at => name[j].name < m
                                     /\ j > r.at => name[j].name > m
      BY <1>4, <1>6 DEF Answers
    <3> QED BY <3>1, <3>2
  <2>4. /\ name' \in Seq(NameEntry) /\ Sorted(name') /\ Entries(name') = Entries(name) \cup {e}
    BY <1>2, <2>2, <2>3, InsertBeforeIs
  <2>5. m \notin {d.name : d \in Entries(name)}
    <3>1. SUFFICES ASSUME NEW j \in 1..Len(name), name[j].name = m PROVE FALSE BY DEF Entries
    <3>2. m \in Nat BY HandleAssumption
    <3>3. Len(name) \in Nat BY <1>2, LenProperties
    <3> QED BY <2>3, <3>1, <3>2, <3>3
  <2> QED BY <1>1, <2>1, <2>2, <2>4, <2>5 DEF NameInv
<1> QED BY <1>5, <1>6

\* The invariant is inductive.
LEMMA TableStep ==
    ASSUME SoleLauncher, ZeroUnused, TableInv, [Next]_vars
    PROVE  TableInv'
<1>1. CASE UNCHANGED vars
  <2>1. UNCHANGED <<write, read, slot, slot_size, handle_index, name, handle, pc, op, arg, i, n, there, got>>
    BY <1>1 DEF vars, lock, table, sweep
  <2>2. Width' = Width /\ InTable' = InTable /\ Used' = Used BY <2>1 DEF Width, InTable, Used
  <2>3. LockInv' BY <2>1 DEF TableInv, LockInv, Counted
  <2>4. ShapeInv' /\ LocalInv' /\ PlaceInv' /\ NameInv'
    BY <2>1, <2>2 DEF TableInv, ShapeInv, LocalInv, PlaceInv, NameInv
  <2>5. ASSUME NEW o \in Proc PROVE ArgInv(o)' /\ CallInv(o)' /\ FreshInv(o)' /\ SweepInv(o)'
    BY <2>1, <2>2 DEF TableInv, ArgInv, CallInv, FreshInv, SweepInv
  <2> QED BY <2>3, <2>4, <2>5 DEF TableInv
<1>2. CASE Next
  <2>1. PICK p \in Proc : Calls(p) \/ Runs(p) BY <1>2 DEF Next
  <2>2. LockInv' BY <2>1, StepIsMove, MoveKeeps DEF TableInv
  <2>3. pc \in [Proc -> Label] /\ DOMAIN got = Proc /\ NameInv /\ got = [o \in Proc |-> got[o]]
    BY DEF TableInv, LockInv, LocalInv
  <2>4. CASE Calls(p) BY <2>2, <2>4, CallKeeps
  <2>5. CASE RSpins(p) \/ RCounts(p) \/ RChecks(p) \/ RBacks(p) \/ WSets(p) \/ WWaits(p)
    BY <2>2, <2>3, <2>5, LockStepKeeps
       DEF RSpins, RCounts, RChecks, RBacks, WSets, WWaits, Goto, Moves, RetiringPc
  <2>6. CASE TakeSlot(p) BY <2>2, <2>6, TakeSlotKeeps
  <2>7. CASE Rehash(p) BY <2>2, <2>7, RehashKeeps
  <2>8. CASE Resize(p) BY <2>2, <2>8, ResizeKeeps
  <2>9. CASE Assign(p) BY <2>2, <2>9, AssignKeeps
  <2>10. CASE Retire(p) BY <2>2, <2>10, RetireKeeps
  <2>11. CASE Grab(p) \/ Findname(p)
    <3>1. /\ pc[p] = "reading" /\ op[p] # "register" /\ Return(p) /\ UNCHANGED <<table, handle, sweep, name>>
          /\ got' = [got EXCEPT ![p] = got'[p]]
      BY <2>3, <2>11 DEF Grab, Findname
    <3>2. NameInv' BY <2>3, <3>1 DEF NameInv
    <3>3. /\ DOMAIN got' = Proc /\ got' = [o \in Proc |-> got'[o]]
          /\ \A o \in Proc : o # p => got'[o] = got[o]
      BY <2>3, <3>1
    <3> QED BY <2>2, <3>1, <3>2, <3>3, ReturnKeeps
  <2>12. CASE Sweep(p) BY <2>2, <2>12, SweepKeeps
  <2>13. CASE SweepReads(p) BY <2>2, <2>13, SweepReadsKeeps
  <2>14. CASE Namehandle(p)
    <3>1. pc[p] = "writing" /\ op[p] # "register" /\ Return(p) /\ UNCHANGED <<table, handle, sweep>>
      BY <2>14 DEF Namehandle
    <3>2. NameInv' BY <2>14, NamehandleTakes
    <3>3. /\ DOMAIN got' = Proc /\ got' = [o \in Proc |-> got'[o]]
          /\ \A o \in Proc : o # p => got'[o] = got[o]
      <4>1. UNCHANGED got \/ \E m : got' = [got EXCEPT ![p] = m] BY <2>14 DEF Namehandle
      <4> QED BY <2>3, <4>1
    <3> QED BY <2>2, <3>1, <3>2, <3>3, ReturnKeeps
  <2> QED BY <2>1, <2>4, <2>5, <2>6, <2>7, <2>8, <2>9, <2>10, <2>11, <2>12, <2>13, <2>14 DEF Runs
<1> QED BY <1>1, <1>2

\* The empty table.
LEMMA TableInit == Init => TableInv
<1> SUFFICES ASSUME Init PROVE TableInv OBVIOUS
<1>0. HANDLE_MASK \in Nat /\ DEFAULT_SLOT_SIZE \in Nat \ {0} /\ (HANDLE_MASK + 1) % DEFAULT_SLOT_SIZE = 0
  BY HandleAssumption
<1>1. LockInv
  <2>1. Counted = {} BY DEF Init, Counted, CountedPc
  <2> QED BY <2>1, FS_EmptySet DEF Init, LockInv, Label, CountedPc, FlagPc, WritingPc
<1>2. Width = DEFAULT_SLOT_SIZE BY DEF Init, Width
<1>3. ShapeInv BY <1>0, <1>2 DEF Init, ShapeInv, M
<1>4. LocalInv BY DEF Init, LocalInv
<1>5. PlaceInv BY <1>2 DEF Init, PlaceInv
<1>6. NameInv
  <2>1. name = <<>> BY DEF Init
  <2>2. name \in Seq(NameEntry) /\ Len(name) = 0 BY <2>1
  <2> QED BY <2>2 DEF NameInv, Sorted
<1>7. ASSUME NEW p \in Proc PROVE ArgInv(p) /\ CallInv(p) /\ FreshInv(p) /\ SweepInv(p)
  BY DEF Init, ArgInv, CallInv, FreshInv, SweepInv, RetiringPc
<1> QED BY <1>1, <1>3, <1>4, <1>5, <1>6, <1>7 DEF TableInv

\* Whichever calls overlap, with one launcher, every context in the table of
\* skynet_handle.c is in the slot of its handle, or of the one it is about to get, the
\* names are sorted, and a pass of retireall leaves no handle behind it.
THEOREM TableInvHolds ==
    ASSUME SoleLauncher
    PROVE  Spec /\ []ZeroUnused => []TableInv
<1>1. TableInv /\ ZeroUnused /\ [Next]_vars => TableInv' BY TableStep
<1> QED BY <1>1, TableInit, PTL DEF Spec

\* retireall returns when a pass has found nothing to retire.
LEMMA SweepStep ==
    ASSUME SoleLauncher, ZeroUnused, TableInv, [Next]_vars, NEW p \in Proc, op[p] = "retireall", op'[p] = "none"
    PROVE  there[p] = {}
<1>0. /\ op \in [Proc -> Function \cup {"none"}] /\ i \in [Proc -> Nat] /\ ShapeInv /\ PlaceInv
      /\ slot_size \in Nat \ {0} /\ SweepInv(p) /\ pc[p] # "assign"
  BY DEF TableInv, LocalInv, ShapeInv, CallInv
<1>1. Sweep(p) /\ op' # op
  <2>1. op' # op BY <1>0
  <2>2. PICK o \in Proc : Calls(o) \/ Runs(o) BY <2>1 DEF Next, vars
  <2>3. ASSUME NEW f, op' = [op EXCEPT ![o] = f] PROVE o = p BY <1>0, <2>3
  <2>4. CASE Calls(o)
    <3>1. PICK f \in Function : op' = [op EXCEPT ![o] = f]
      BY <2>4 DEF Calls, Call, CallRegister, CallRetire, CallGrab, CallFindname, CallNamehandle,
                  CallRetireall, Function
    <3>2. o = p BY <2>3, <3>1
    <3> QED BY <1>0, <3>1, <3>2 DEF Function
  <2>5. CASE RSpins(o) \/ RCounts(o) \/ RChecks(o) \/ RBacks(o) \/ WSets(o) \/ WWaits(o)
             \/ TakeSlot(o) \/ Rehash(o) \/ Resize(o) \/ SweepReads(o)
    BY <2>1, <2>5 DEF RSpins, RCounts, RChecks, RBacks, WSets, WWaits, TakeSlot, Rehash, Resize, SweepReads
  <2>6. CASE Assign(o) BY <1>0, <2>3, <2>6 DEF Assign, Return
  <2>7. CASE Grab(o) \/ Findname(o) \/ Namehandle(o) BY <1>0, <2>3, <2>7 DEF Grab, Findname, Namehandle, Return
  <2>8. CASE Retire(o) BY <1>0, <2>1, <2>3, <2>8 DEF Retire, Return
  <2>9. CASE Sweep(o) BY <2>1, <2>3, <2>9 DEF Sweep, Return
  <2> QED BY <2>1, <2>2, <2>4, <2>5, <2>6, <2>7, <2>8, <2>9 DEF Runs
<1>2. ~(i[p] < slot_size) /\ n[p] = 0 BY <1>1 DEF Sweep, Return
<1>3. ASSUME NEW h \in there[p] PROVE FALSE
  <2>1. h \in Used /\ h % slot_size >= i[p] BY <1>0, <1>2 DEF SweepInv
  <2>2. h \in Nat BY <1>0, <2>1, UsedIs, HandleIs
  <2>3. h % slot_size \in 0..(slot_size - 1) BY <1>0, <2>2, SizeIs
  <2> QED BY <1>0, <1>2, <2>1, <2>3
<1> QED BY <1>3

\* With one launcher, skynet_handle_retireall returns only when no handle is left that was
\* in use before its last pass, although the table may be rehashed between any two of its
\* looks at slot_size and at a slot.
THEOREM SweepCompleteHolds ==
    ASSUME SoleLauncher
    PROVE  Spec /\ []ZeroUnused => SweepComplete
<1>1. TableInv /\ ZeroUnused /\ [Next]_vars
      => (\A p \in Proc : op[p] = "retireall" /\ op'[p] = "none" => there[p] = {})
  BY SweepStep
<1>2. Spec /\ []ZeroUnused => []TableInv BY TableInvHolds
<1> QED BY <1>1, <1>2, PTL DEF Spec, SweepComplete

\* The assertions of skynet_handle_register fail only when every handle is in use.
OnlyExhaustion ==
    failed => slot_size = HANDLE_MASK + 1 /\ \A k \in 0..HANDLE_MASK : slot[k] # Nil

\* Who failed holds the lock for ever.
FailInv == OnlyExhaustion /\ (failed => \E p \in Proc : pc[p] = "aborted")

\* Only a doubling fails, and only when there are as many slots as handles.
LEMMA FailStep ==
    ASSUME SoleLauncher, ZeroUnused, TableInv, FailInv, [Next]_vars
    PROVE  FailInv'
<1>0. LockInv /\ ShapeInv /\ pc \in [Proc -> Label] BY DEF TableInv, LockInv
<1>1. CASE UNCHANGED vars BY <1>1 DEF vars, table, FailInv, OnlyExhaustion
<1>2. CASE Next
  <2>1. PICK p \in Proc : Calls(p) \/ Runs(p) BY <1>2 DEF Next
  <2>2. CASE failed
    <3>1. PICK o \in Proc : pc[o] = "aborted" BY <2>2 DEF FailInv
    <3>2. pc[p] \notin WritingPc BY <1>0, <3>1 DEF LockInv, WritingPc, FlagPc
    <3>3. UNCHANGED <<slot, slot_size, failed>>
      BY <2>1, <3>2 DEF Calls, Runs, CallRegister, CallRetire, CallGrab, CallFindname, CallNamehandle,
         CallRetireall, RSpins, RCounts, RChecks, RBacks, WSets, WWaits, TakeSlot, Rehash, Resize, Assign,
         Retire, Grab, Sweep, SweepReads, Findname, Namehandle, table, WritingPc
    <3>4. pc'[o] = "aborted"
      <4>1. Move(p) BY <1>0, <2>1, StepIsMove
      <4>2. pc' = [pc EXCEPT ![p] = pc'[p]] /\ pc[p] # "aborted"
        <5>1. CASE Writes(p) BY <5>1 DEF Writes, From
        <5>2. CASE Unflags(p)
          BY <2>1, <3>1, <3>2, <5>2 DEF Unflags, From, Calls, Runs, Call, CallRegister, CallRetire, CallGrab,
             CallFindname, CallNamehandle, CallRetireall, RSpins, RCounts, RChecks, RBacks, WSets, WWaits,
             TakeSlot, Rehash, Resize, Assign, Retire, Grab, Sweep, SweepReads, Findname, Namehandle, WritingPc
        <5> QED BY <4>1, <5>1, <5>2 DEF Move, Outside, Counts, Enters, BacksOff, Discounts, Flags, From,
               OutsidePc, CountedPc
      <4> QED BY <1>0, <3>1, <4>2
    <3> QED BY <2>2, <3>3, <3>4 DEF FailInv, OnlyExhaustion
  <2>3. CASE ~failed
    <3>1. SUFFICES ASSUME failed' # failed PROVE FailInv' BY <2>3 DEF FailInv, OnlyExhaustion
    <3>2. Rehash(p)
      BY <2>1, <3>1 DEF Calls, Runs, CallRegister, CallRetire, CallGrab, CallFindname, CallNamehandle,
         CallRetireall, RSpins, RCounts, RChecks, RBacks, WSets, WWaits, TakeSlot, Resize, Assign,
         Retire, Grab, Sweep, SweepReads, Findname, Namehandle
    <3>3. /\ pc[p] = "writing" /\ op[p] = "register" /\ FreeOffer = {} /\ slot_size' = slot_size
          /\ slot' = slot /\ pc' = [pc EXCEPT ![p] = "aborted"]
          /\ \/ slot_size * 2 - 1 > HANDLE_MASK
             \/ \E j, k \in DOMAIN slot : j # k /\ Rehashed(j) = Rehashed(k)
      BY <3>1, <3>2 DEF Rehash, Goto
    <3>4. /\ Width = slot_size
          /\ \A k \in 0..(slot_size - 1) :
                slot[k] \in Ctx /\ slot[k] # Nil /\ Rehashed(k) \in {k, k + slot_size}
      BY <3>3, Full, HandleAssumption
    <3>5. slot_size \in Nat \ {0} /\ DOMAIN slot = 0..(slot_size - 1) BY <1>0, <3>4 DEF ShapeInv
    <3>6. slot_size * 2 - 1 > HANDLE_MASK
      <4>1. \A j, k \in 0..(slot_size - 1) : Rehashed(j) = Rehashed(k) => j = k BY <3>4, <3>5
      <4> QED BY <3>3, <3>5, <4>1
    <3>7. slot_size = HANDLE_MASK + 1
      <4>1. M \in Nat \ {0} /\ M % slot_size = 0 /\ M = HANDLE_MASK + 1 /\ HANDLE_MASK \in Nat
        BY <1>0, <3>4, HandleAssumption DEF ShapeInv, M
      <4>2. PICK q \in Nat : M = slot_size * q
        <5>1. M = slot_size * (M \div slot_size) + (M % slot_size) /\ M \div slot_size \in Nat
          BY <3>5, <4>1, DivMod
        <5> QED BY <3>5, <4>1, <5>1
      <4>3. q # 0 BY <3>5, <4>1, <4>2
      <4>4. ~(q >= 2)
        <5> SUFFICES ASSUME q >= 2 PROVE FALSE OBVIOUS
        <5>1. PICK y \in Nat : q = 2 + y
          <6>1. q - 2 \in Nat /\ q = 2 + (q - 2) OBVIOUS
          <6> QED BY <6>1
        <5>2. slot_size * q = slot_size * 2 + slot_size * y /\ slot_size * y \in Nat BY <3>5, <5>1
        <5> QED BY <3>5, <3>6, <4>1, <4>2, <5>2
      <4>5. q = 1 BY <4>3, <4>4
      <4> QED BY <3>5, <4>1, <4>2, <4>5
    <3>8. \A k \in 0..HANDLE_MASK : slot[k] # Nil BY <3>4, <3>7, HandleAssumption
    <3>9. pc'[p] = "aborted" BY <1>0, <3>3
    <3> QED BY <3>3, <3>7, <3>8, <3>9 DEF FailInv, OnlyExhaustion
  <2> QED BY <2>2, <2>3
<1> QED BY <1>1, <1>2

\* With one launcher the assertions of skynet_handle_register do not fail before every
\* handle is in use. (With two they do: two contexts may have the handle 0 for a moment.)
THEOREM OnlyExhaustionHolds ==
    ASSUME SoleLauncher
    PROVE  Spec /\ []ZeroUnused => []OnlyExhaustion
<1>1. Init => FailInv BY DEF Init, FailInv, OnlyExhaustion
<1>2. TableInv /\ ZeroUnused /\ FailInv /\ [Next]_vars => FailInv' BY FailStep
<1>3. FailInv => OnlyExhaustion BY DEF FailInv
<1> QED BY <1>1, <1>2, <1>3, TableInvHolds, PTL DEF Spec

-----------------------------------------------------------------------------
(* The directory                                                           *)

\* The contexts T by their handles f.
RegIn(T, f) == [h \in {f[c] : c \in T} \ {0} |-> CHOOSE c \in T : f[c] = h]
\* No two of them have one handle.
Distinct(T, f) == \A c, d \in T : f[c] = f[d] /\ f[c] # 0 => c = d

\* F is the directory of the contexts T by their handles f.
IsReg(F, T, f) ==
    /\ F = [h \in DOMAIN F |-> F[h]]
    /\ DOMAIN F = {f[c] : c \in T} \ {0}
    /\ \A c \in T : f[c] # 0 => F[f[c]] = c

\* The directory finds whom the table finds.
LEMMA RegIs ==
    ASSUME NEW T, NEW f, Distinct(T, f)
    PROVE  IsReg(RegIn(T, f), T, f)
<1>1. RegIn(T, f) = [h \in DOMAIN RegIn(T, f) |-> RegIn(T, f)[h]] BY DEF RegIn
<1>2. DOMAIN RegIn(T, f) = {f[c] : c \in T} \ {0} BY DEF RegIn
<1>3. ASSUME NEW c \in T, f[c] # 0 PROVE RegIn(T, f)[f[c]] = c
  <2>1. PICK d : d = CHOOSE x \in T : f[x] = f[c] OBVIOUS
  <2>2. d \in T /\ f[d] = f[c] BY <2>1
  <2>3. d = c BY <1>3, <2>2 DEF Distinct
  <2>4. f[c] \in {f[b] : b \in T} \ {0} BY <1>3
  <2> QED BY <2>1, <2>3, <2>4 DEF RegIn
<1> QED BY <1>1, <1>2, <1>3 DEF IsReg

\* A directory depends on the handles of its contexts only.
LEMMA RegSame ==
    ASSUME NEW T, NEW f, NEW g, Distinct(T, f), \A c \in T : g[c] = f[c]
    PROVE  RegIn(T, g) = RegIn(T, f)
<1>1. PICK F, G : F = RegIn(T, f) /\ G = RegIn(T, g) OBVIOUS
<1>2. Distinct(T, g) BY DEF Distinct
<1>3. IsReg(F, T, f) /\ IsReg(G, T, g) BY <1>1, <1>2, RegIs
<1>4. DOMAIN G = DOMAIN F BY <1>3 DEF IsReg
<1>5. \A h \in DOMAIN F : G[h] = F[h] BY <1>3 DEF IsReg
<1>6. G = F BY <1>3, <1>4, <1>5 DEF IsReg
<1> QED BY <1>1, <1>6

\* A context that is assigned a handle joins the directory.
LEMMA RegAdds ==
    ASSUME NEW T, NEW f, NEW g, NEW c \in T, NEW h, Distinct(T, f), f[c] = 0, h # 0, g[c] = h,
           h \notin {f[d] : d \in T}, \A d \in T : d # c => g[d] = f[d]
    PROVE  RegIn(T, g) = [y \in DOMAIN RegIn(T, f) \cup {h} |-> IF y = h THEN c ELSE RegIn(T, f)[y]]
<1>1. PICK F, G : F = RegIn(T, f) /\ G = RegIn(T, g) OBVIOUS
<1>2. Distinct(T, g) BY DEF Distinct
<1>3. IsReg(F, T, f) /\ IsReg(G, T, g) BY <1>1, <1>2, RegIs
<1>4. DOMAIN G = DOMAIN F \cup {h} BY <1>3 DEF IsReg
<1>5. G[h] = c BY <1>3 DEF IsReg
<1>6. \A y \in DOMAIN F : G[y] = F[y] /\ y # h BY <1>3 DEF IsReg
<1>7. G = [y \in DOMAIN F \cup {h} |-> IF y = h THEN c ELSE F[y]]
  BY <1>3, <1>4, <1>5, <1>6 DEF IsReg
<1> QED BY <1>1, <1>7

\* G is F without h.
Less(F, G, h) == G = [y \in DOMAIN F \ {h} |-> F[y]]
\* T without c.
WithoutOne(T, c) == T \ {c}

\* A context that is retired leaves the directory.
LEMMA RegDrops ==
    ASSUME NEW T, NEW f, NEW g, NEW c \in T, Distinct(T, f), f[c] # 0,
           \A d \in T : d # c => g[d] = f[d]
    PROVE  Less(RegIn(T, f), RegIn(WithoutOne(T, c), g), f[c])
<1> USE DEF WithoutOne
<1>1. PICK F, G : F = RegIn(T, f) /\ G = RegIn(T \ {c}, g) OBVIOUS
<1>2. Distinct(T \ {c}, g) BY DEF Distinct
<1>3. IsReg(F, T, f) /\ IsReg(G, T \ {c}, g) BY <1>1, <1>2, RegIs
<1>4. \A d \in T : d # c => f[d] # f[c] BY DEF Distinct
<1>5. DOMAIN G = DOMAIN F \ {f[c]} BY <1>3, <1>4 DEF IsReg
<1>6. \A y \in DOMAIN G : G[y] = F[y] BY <1>3 DEF IsReg
<1>7. Less(F, G, f[c]) BY <1>3, <1>5, <1>6 DEF IsReg, Less
<1> QED BY <1>1, <1>7

\* What a retirement and a binding do to the array of names, and to the bindings.
Lacks(s, t, h) == Entries(t) = {e \in Entries(s) : e.handle # h}
Gains(s, t, e) == Entries(t) = Entries(s) \cup {e}
Dropped(f, g, h) == g = [x \in DOMAIN f \ {m \in DOMAIN f : f[m] = h} |-> f[x]]
Added(f, g, x, v) == g = [y \in DOMAIN f \cup {x} |-> IF y = x THEN v ELSE f[y]]

\* The bindings without those of a handle.
LEMMA BoundDrops ==
    ASSUME NEW s \in Seq(NameEntry), Sorted(s), NEW t \in Seq(NameEntry), Sorted(t), NEW h, Lacks(s, t, h)
    PROVE  Dropped(BoundIn(s), BoundIn(t), h)
<1>1. PICK f : f = BoundIn(s) OBVIOUS
<1>2. PICK g : g = BoundIn(t) OBVIOUS
<1>3. /\ f = [m \in DOMAIN f |-> f[m]] /\ DOMAIN f = {e.name : e \in Entries(s)}
      /\ \A e \in Entries(s) : f[e.name] = e.handle
  BY <1>1, BoundIs
<1>4. /\ g = [m \in DOMAIN g |-> g[m]] /\ DOMAIN g = {e.name : e \in Entries(t)}
      /\ \A e \in Entries(t) : g[e.name] = e.handle
  BY <1>2, BoundIs
<1>5. DOMAIN g = DOMAIN f \ {m \in DOMAIN f : f[m] = h} BY <1>3, <1>4 DEF Lacks
<1>6. \A x \in DOMAIN g : g[x] = f[x] BY <1>3, <1>4 DEF Lacks
<1> QED BY <1>1, <1>2, <1>4, <1>5, <1>6 DEF Dropped

\* The bindings with a new one.
LEMMA BoundAdds ==
    ASSUME NEW s \in Seq(NameEntry), Sorted(s), NEW t \in Seq(NameEntry), Sorted(t), NEW e,
           Gains(s, t, e), e.name \notin DOMAIN BoundIn(s)
    PROVE  Added(BoundIn(s), BoundIn(t), e.name, e.handle)
<1>1. PICK f : f = BoundIn(s) OBVIOUS
<1>2. PICK g : g = BoundIn(t) OBVIOUS
<1>3. /\ f = [m \in DOMAIN f |-> f[m]] /\ DOMAIN f = {d.name : d \in Entries(s)}
      /\ \A d \in Entries(s) : f[d.name] = d.handle
  BY <1>1, BoundIs
<1>4. /\ g = [m \in DOMAIN g |-> g[m]] /\ DOMAIN g = {d.name : d \in Entries(t)}
      /\ \A d \in Entries(t) : g[d.name] = d.handle
  BY <1>2, BoundIs
<1>5. DOMAIN g = DOMAIN f \cup {e.name} BY <1>3, <1>4 DEF Gains
<1>6. g[e.name] = e.handle /\ \A x \in DOMAIN f : g[x] = f[x] /\ x # e.name BY <1>1, <1>3, <1>4 DEF Gains
<1> QED BY <1>1, <1>2, <1>4, <1>5, <1>6 DEF Added

\* What the mapping reads is as it was.
LEMMA Stutters ==
    ASSUME TableInv, NEW p \in Proc, pc' = [pc EXCEPT ![p] = pc'[p]], pc[p] # "assign", pc'[p] # "assign",
           InTable' = InTable, \A c \in InTable : handle'[c] = handle[c], name' = name
    PROVE  Registered' = Registered /\ Bound' = Bound
           /\ (DOMAIN got' = Proc /\ (\A o \in Proc : o # p => got'[o] = got[o]) =>
                 Returned' = [Returned EXCEPT ![p] = got'[p]])
<1>1. Distinct(InTable, handle)
  <2>1. \A c \in InTable : handle[c] # 0 => slot[handle[c] % Width] = c BY UsedIs DEF TableInv
  <2> QED BY <2>1 DEF Distinct
<1>2. Registered = RegIn(InTable, handle) /\ Registered' = RegIn(InTable', handle')
  BY DEF Registered, RegIn, Used
<1>3. Registered' = Registered BY <1>1, <1>2, RegSame
<1>4. Bound' = Bound BY DEF Bound
<1>5. pc \in [Proc -> Label] BY DEF TableInv, LockInv
<1>6. ASSUME DOMAIN got' = Proc, \A o \in Proc : o # p => got'[o] = got[o]
      PROVE  Returned' = [Returned EXCEPT ![p] = got'[p]]
  BY <1>5, <1>6 DEF Returned
<1> QED BY <1>3, <1>4, <1>6

\* The empty table is the empty directory.
LEMMA DirInit == Init => Dir!Init
<1> SUFFICES ASSUME Init PROVE Dir!Init OBVIOUS
<1>1. InTable = {} BY DEF Init, InTable
<1>2. Used = {} BY <1>1 DEF Used
<1>3. Registered = <<>> BY <1>2 DEF Registered
<1>4. Bound = <<>> BY DEF Init, Bound
<1>5. Returned = [p \in Proc |-> Nil] BY DEF Init, Returned
<1>6. op = [p \in Proc |-> "none"] /\ Asked = [p \in Proc |-> Nil] BY DEF Init, Asked
<1> QED BY <1>3, <1>4, <1>5, <1>6 DEF Dir!Init

\* Where retireall has got to is not asked for.
LEMMA AskedKept ==
    ASSUME op' = op, \A o \in Proc : op[o] # "retireall" => arg'[o] = arg[o]
    PROVE  Asked' = Asked
BY DEF Asked

\* A call that returns is over for the directory.
LEMMA ReturnEnds ==
    ASSUME TableInv, NEW p \in Proc, Return(p)
    PROVE  op' = [op EXCEPT ![p] = "none"] /\ Asked' = [Asked EXCEPT ![p] = Nil]
<1>1. op \in [Proc -> Function \cup {"none"}] /\ DOMAIN arg = Proc BY DEF TableInv, LocalInv
<1>2. op' = [op EXCEPT ![p] = "none"] /\ arg' = [arg EXCEPT ![p] = Nil] BY DEF Return
<1>3. \A o \in Proc : o # p => op'[o] = op[o] /\ arg'[o] = arg[o] BY <1>1, <1>2
<1>4. op'[p] = "none" /\ arg'[p] = Nil BY <1>1, <1>2
<1> QED BY <1>2, <1>3, <1>4 DEF Asked

\* Such a step returns nothing new, or is the call of p, or the answer to it.
LEMMA StaysPut ==
    ASSUME TableInv, NEW p \in Proc, pc' = [pc EXCEPT ![p] = pc'[p]], pc[p] # "assign", pc'[p] # "assign",
           InTable' = InTable, handle' = handle, name' = name, got' = got,
           op' = op, \A o \in Proc : op[o] # "retireall" => arg'[o] = arg[o]
    PROVE  UNCHANGED Dir!vars
<1>1. DOMAIN got = Proc BY DEF TableInv, LocalInv
<1>2. /\ Registered' = Registered /\ Bound' = Bound
      /\ Returned' = [Returned EXCEPT ![p] = got[p]]
  BY <1>1, Stutters
<1>3. Returned' = Returned BY <1>2 DEF Returned
<1>4. Asked' = Asked BY AskedKept
<1> QED BY <1>2, <1>3, <1>4 DEF Dir!vars

\* A step that gives an answer only changes what its caller got.
LEMMA Answered ==
    ASSUME TableInv, NEW p \in Proc, NEW v, pc' = [pc EXCEPT ![p] = pc'[p]], pc[p] # "assign", pc'[p] # "assign",
           InTable' = InTable, \A c \in InTable : handle'[c] = handle[c], name' = name,
           got' = [got EXCEPT ![p] = v]
    PROVE  Registered' = Registered /\ Bound' = Bound /\ Returned' = [Returned EXCEPT ![p] = v]
<1>1. DOMAIN got = Proc BY DEF TableInv, LocalInv
<1> QED BY <1>1, Stutters

\* A call is a call.
LEMMA CallIsCall ==
    ASSUME TableInv, NEW p \in Proc, Calls(p)
    PROVE  Dir!Calls(p)
<1>0. /\ pc \in [Proc -> Label] /\ DOMAIN got = Proc /\ DOMAIN arg = Proc
      /\ op \in [Proc -> Function \cup {"none"}]
  BY DEF TableInv, LockInv, LocalInv
<1>1. /\ pc' = [pc EXCEPT ![p] = pc'[p]] /\ pc[p] # "assign" /\ pc'[p] # "assign"
      /\ got' = [got EXCEPT ![p] = Nil] /\ name' = name /\ slot' = slot
  BY <1>0 DEF Calls, Call, Goto, CallRegister, CallRetire, CallGrab, CallFindname, CallNamehandle,
              CallRetireall, table
<1>2. InTable' = InTable BY <1>1 DEF InTable
<1>3. \A c \in InTable : handle'[c] = handle[c]
  <2>1. CASE \E c \in Ctx : CallRegister(p, c)
    <3>1. PICK c \in Ctx : CallRegister(p, c) BY <2>1
    <3>2. \A d \in InTable : d \in Ctx BY UsedIs DEF TableInv
    <3> QED BY <3>1, <3>2 DEF CallRegister, TableInv, ShapeInv
  <2>2. CASE UNCHANGED handle BY <2>2
  <2> QED BY <2>1, <2>2 DEF Calls, CallRetire, CallGrab, CallFindname, CallNamehandle, CallRetireall
<1>4. Registered' = Registered /\ Bound' = Bound /\ Returned' = [Returned EXCEPT ![p] = Nil]
  BY <1>1, <1>2, <1>3, Answered
<1>5. op[p] = "none" BY DEF TableInv, CallInv, Calls, Call, CallRegister, CallRetire, CallGrab,
                            CallFindname, CallNamehandle, CallRetireall
<1>6. ASSUME NEW f, NEW a, NEW l, Call(p, f, a, l), f = "retireall" => a = Nil
      PROVE  Dir!Call(p, f, a)
  <2>1. op' = [op EXCEPT ![p] = f] /\ arg' = [arg EXCEPT ![p] = a] BY <1>6 DEF Call
  <2>2. \A o \in Proc : o # p => op'[o] = op[o] /\ arg'[o] = arg[o] BY <1>0, <2>1
  <2>3. op'[p] = f /\ arg'[p] = a BY <1>0, <2>1
  <2>4. Asked' = [Asked EXCEPT ![p] = a] BY <1>6, <2>2, <2>3 DEF Asked
  <2> QED BY <1>4, <1>5, <2>1, <2>4 DEF Dir!Call
<1>7. CASE \E c \in Ctx : CallRegister(p, c)
  <2>1. PICK c \in Ctx : CallRegister(p, c) BY <1>7
  <2>2. Call(p, "register", c, "wlock") BY <2>1 DEF CallRegister
  <2>3. Dir!Call(p, "register", c) BY <1>6, <2>2
  <2>4. \A h \in DOMAIN Registered : Registered[h] \in InTable BY DEF Registered, Used
  <2>5. \A o \in Proc : op[o] = "register" => Asked[o] # c BY <2>1 DEF CallRegister, Asked
  <2>6. c \notin InTable BY <2>1 DEF CallRegister
  <2>7. Dir!New(c) BY <2>4, <2>5, <2>6 DEF Dir!New
  <2> QED BY <2>3, <2>7 DEF Dir!Calls
<1>8. CASE \E h \in Handle : CallRetire(p, h) \/ CallGrab(p, h)
  <2>1. PICK h \in Handle : CallRetire(p, h) \/ CallGrab(p, h) BY <1>8
  <2>2. Dir!Call(p, "retire", h) \/ Dir!Call(p, "grab", h)
    BY <1>6, <2>1 DEF CallRetire, CallGrab
  <2> QED BY <2>2 DEF Dir!Calls
<1>9. CASE \E m \in Name : CallFindname(p, m)
  <2>1. PICK m \in Name : CallFindname(p, m) BY <1>9
  <2>2. Dir!Call(p, "findname", m) BY <1>6, <2>1 DEF CallFindname
  <2> QED BY <2>2 DEF Dir!Calls
<1>10. CASE \E h \in Named, m \in Name : CallNamehandle(p, h, m)
  <2>1. PICK h \in Named, m \in Name : CallNamehandle(p, h, m) BY <1>10
  <2>2. Dir!Call(p, "namehandle", <<h, m>>) BY <1>6, <2>1 DEF CallNamehandle
  <2>3. h \in Handle BY HandleAssumption
  <2> QED BY <2>2, <2>3 DEF Dir!Calls
<1>11. CASE CallRetireall(p)
  <2>1. Dir!Call(p, "retireall", Nil) BY <1>6, <1>11 DEF CallRetireall
  <2> QED BY <2>1 DEF Dir!Calls
<1> QED BY <1>7, <1>8, <1>9, <1>10, <1>11 DEF Calls

\* A context in a slot is not in the directory before it has its handle.
LEMMA TakeSlotIsSilent ==
    ASSUME SoleLauncher, TableInv, NEW p \in Proc, TakeSlot(p), TableInv'
    PROVE  UNCHANGED Dir!vars
<1>0. pc \in [Proc -> Label] /\ DOMAIN got = Proc /\ ShapeInv BY DEF TableInv, LockInv, LocalInv
<1>1. /\ pc[p] = "writing" /\ op[p] = "register" /\ pc' = [pc EXCEPT ![p] = "assign"]
      /\ name' = name /\ handle' = handle /\ \E k : got' = [got EXCEPT ![p] = k]
  BY DEF TakeSlot, Goto
<1>2. got[p] = Nil BY <1>1 DEF TableInv, CallInv
<1>3. Returned' = Returned BY <1>0, <1>1, <1>2 DEF Returned
<1>4. Bound' = Bound BY <1>1 DEF Bound
<1>5. Distinct(InTable, handle)
  <2>1. \A c \in InTable : handle[c] # 0 => slot[handle[c] % Width] = c BY UsedIs DEF TableInv
  <2> QED BY <2>1 DEF Distinct
<1>6. InTable' = InTable \cup {arg[p]} /\ handle[arg[p]] = 0
  <2>1. PICK k \in FreeOffer : slot' = [slot EXCEPT ![Hash(Offered[k], slot_size)] = arg[p]]
    BY DEF TakeSlot
  <2>2. PICK s : s = Hash(Offered[k], slot_size) OBVIOUS
  <2>3. Width = slot_size BY <1>1, Alone DEF FlagPc
  <2>4. s \in DOMAIN slot /\ slot[s] = Nil
    BY <1>0, <2>2, <2>3, OfferedIs DEF FreeOffer, ShapeInv
  <2>5. arg[p] \in Ctx /\ handle[arg[p]] = 0 BY <1>1 DEF TableInv, ArgInv
  <2>6. arg[p] # Nil BY <2>5, HandleAssumption
  <2>7. slot' = [slot EXCEPT ![s] = arg[p]] BY <2>1, <2>2
  <2> QED BY <2>4, <2>5, <2>6, <2>7 DEF InTable
<1>7. {handle[c] : c \in InTable'} \ {0} = {handle[c] : c \in InTable} \ {0} BY <1>6
<1>8. PICK F, G : F = Registered /\ G = Registered' OBVIOUS
<1>9. F = RegIn(InTable, handle) /\ G = RegIn(InTable', handle)
  BY <1>1, <1>8 DEF Registered, RegIn, Used
<1>10. Distinct(InTable', handle) BY <1>5, <1>6 DEF Distinct
<1>11. IsReg(F, InTable, handle) /\ IsReg(G, InTable', handle) BY <1>5, <1>9, <1>10, RegIs
<1>12. DOMAIN G = DOMAIN F BY <1>7, <1>11 DEF IsReg
<1>13. \A h \in DOMAIN F : G[h] = F[h] BY <1>6, <1>11 DEF IsReg
<1>14. G = F BY <1>11, <1>12, <1>13 DEF IsReg
<1>15. op' = op /\ Asked' = Asked BY AskedKept DEF TakeSlot
<1> QED BY <1>3, <1>4, <1>8, <1>14, <1>15 DEF Dir!vars

\* Assigning the handle is what registers.
LEMMA AssignRegisters ==
    ASSUME SoleLauncher, ZeroUnused, TableInv, LockInv', NEW p \in Proc, Assign(p)
    PROVE  Dir!Register(p)
<1>0. pc \in [Proc -> Label] /\ DOMAIN got = Proc /\ ShapeInv BY DEF TableInv, LockInv, LocalInv
<1>1. PICK c \in Ctx, h \in Handle \ {0} : c = arg[p] /\ h = got[p] + harbor
  BY AssignKeeps, HandedUsed DEF Assign
<1>2. h \notin Used /\ InTable' = InTable /\ c \in InTable /\ handle[c] = 0 /\ h # 0
  <2>1. h \notin Used /\ InTable' = InTable /\ c \in InTable /\ handle[c] = 0 BY <1>1, AssignKeeps
  <2> QED BY <2>1
<1>3. /\ pc' = [pc EXCEPT ![p] = "idle"] /\ handle' = [handle EXCEPT ![c] = h]
      /\ got' = [got EXCEPT ![p] = h] /\ name' = name
  BY <1>1 DEF Assign, Return, Goto
<1>4. Distinct(InTable, handle) /\ \A d \in InTable : d \in Ctx
  <2>1. \A d \in InTable : d \in Ctx /\ (handle[d] # 0 => slot[handle[d] % Width] = d) BY UsedIs DEF TableInv
  <2> QED BY <2>1 DEF Distinct
<1>5. Registered = RegIn(InTable, handle) /\ Registered' = RegIn(InTable, handle')
  BY <1>2 DEF Registered, RegIn, Used
<1>6. handle'[c] = h /\ \A d \in InTable : d # c => handle'[d] = handle[d] BY <1>0, <1>3, <1>4 DEF ShapeInv
<1>7. h \notin {handle[d] : d \in InTable} BY <1>2 DEF Used
<1>8. Registered' = [y \in DOMAIN Registered \cup {h} |-> IF y = h THEN c ELSE Registered[y]]
  BY <1>2, <1>4, <1>5, <1>6, <1>7, RegAdds
<1>9. DOMAIN Registered = Used BY DEF Registered
<1>10. Bound' = Bound BY <1>3 DEF Bound
<1>11. Returned' = [Returned EXCEPT ![p] = h] BY <1>0, <1>3 DEF Returned
<1>12. op[p] = "register" BY DEF Assign, TableInv, CallInv
<1>13. c = Asked[p] BY <1>1, <1>12 DEF Asked
<1>14. Dir!Returns(p, h) BY <1>11, ReturnEnds DEF Dir!Returns, Assign
<1>15. h \in Handle \ DOMAIN Registered BY <1>2, <1>9
<1> QED BY <1>8, <1>10, <1>12, <1>13, <1>14, <1>15 DEF Dir!Register, Dir!With

\* What skynet_handle_retire does to a handle in use is a retirement, and to another nothing.
LEMMA RetireDrops ==
    ASSUME SoleLauncher, ZeroUnused, TableInv, NEW p \in Proc, Retire(p)
    PROVE  IF arg[p] \in DOMAIN Registered THEN Dir!Drop(arg[p])
           ELSE Registered' = Registered /\ Bound' = Bound
<1>0. pc \in [Proc -> Label] /\ ShapeInv /\ PlaceInv /\ NameInv BY DEF TableInv, LockInv
<1>1. /\ pc[p] = "writing" /\ pc'[p] \in {"idle", "sweep"} /\ pc' = [pc EXCEPT ![p] = pc'[p]]
  BY <1>0 DEF Retire, Return, Goto
<1>2. PICK h \in Handle \ {0} : h = arg[p] BY RetireTakes
<1>3. DOMAIN Registered = Used BY DEF Registered
<1>4. CASE h \notin Used
  <2>1. InTable' = InTable /\ handle' = handle /\ name' = name BY <1>2, <1>4, RetireTakes
  <2>2. Registered' = Registered /\ Bound' = Bound BY <1>1, <2>1, Stutters
  <2> QED BY <1>2, <1>3, <1>4, <2>2
<1>5. CASE h \in Used
  <2>1. PICK c : c = Found(h) OBVIOUS
  <2>2. Width = slot_size BY RetireTakes
  <2>3. c \in InTable /\ handle[c] = h /\ h # 0 BY <1>0, <1>5, <2>1, <2>2, FoundIs
  <2>4. /\ InTable' = InTable \ {c} /\ name' = NamesWithout(h)
        /\ \A d \in InTable : d # c => handle'[d] = handle[d]
    BY <1>2, <1>5, <2>1, RetireTakes
  <2>5. Distinct(InTable, handle)
    <3>1. \A d \in InTable : handle[d] # 0 => slot[handle[d] % Width] = d BY <1>0, UsedIs
    <3> QED BY <3>1 DEF Distinct
  <2>6. Registered = RegIn(InTable, handle) /\ Registered' = RegIn(InTable \ {c}, handle')
    BY <2>4 DEF Registered, RegIn, Used
  <2>7. Registered' = [y \in DOMAIN Registered \ {h} |-> Registered[y]]
    <3>1. Less(RegIn(InTable, handle), RegIn(InTable \ {c}, handle'), handle[c])
      <4>1. PICK T, f, g : T = InTable /\ f = handle /\ g = handle' OBVIOUS
      <4>2. /\ c \in T /\ Distinct(T, f) /\ f[c] # 0 /\ \A d \in T : d # c => g[d] = f[d]
        BY <2>3, <2>4, <2>5, <4>1
      <4>3. Less(RegIn(T, f), RegIn(WithoutOne(T, c), g), f[c]) BY ONLY <4>2, RegDrops
      <4> QED BY <4>1, <4>3 DEF WithoutOne
    <3> QED BY <2>3, <2>6, <3>1 DEF Less
  <2>8. Dropped(Bound, Bound', h)
    <3>1. name' \in Seq(NameEntry) /\ Sorted(name') /\ Lacks(name, name', h)
      BY <1>0, <2>4, NamesWithoutIs DEF NameInv, Lacks
    <3>2. Bound = BoundIn(name) /\ Bound' = BoundIn(name') BY DEF Bound, BoundIn
    <3> QED BY <1>0, <3>1, <3>2, BoundDrops DEF NameInv
  <2>9. Dir!Drop(h) BY <2>7, <2>8 DEF Dir!Drop, Dir!Without, Dropped
  <2> QED BY <1>2, <1>3, <1>5, <2>9
<1> QED BY <1>4, <1>5

\* skynet_handle_retire retires its handle, and retireall one after the other.
LEMMA RetireRetires ==
    ASSUME SoleLauncher, ZeroUnused, TableInv, NEW p \in Proc, Retire(p)
    PROVE  UNCHANGED Dir!vars \/ Dir!Retire(p) \/ Dir!Retireall(p)
<1>0. /\ pc \in [Proc -> Label] /\ DOMAIN got = Proc /\ DOMAIN arg = Proc
      /\ op \in [Proc -> Function \cup {"none"}]
  BY DEF TableInv, LockInv, LocalInv
<1>1. /\ pc[p] = "writing" /\ pc'[p] \in {"idle", "sweep"} /\ pc' = [pc EXCEPT ![p] = pc'[p]] /\ got' = got
  BY <1>0 DEF Retire, Return, Goto
<1>2. got[p] = Nil BY <1>1 DEF TableInv, CallInv
<1>3. Returned' = Returned /\ Returned' = [Returned EXCEPT ![p] = Nil] BY <1>0, <1>1, <1>2 DEF Returned
<1>4. CASE op[p] = "retire"
  <2>1. Return(p) /\ Asked[p] = arg[p] BY <1>4 DEF Retire, Asked
  <2>2. Dir!Returns(p, Nil) BY <1>3, <2>1, ReturnEnds DEF Dir!Returns
  <2> QED BY <1>4, <2>1, <2>2, RetireDrops DEF Dir!Retire
<1>5. CASE op[p] = "retireall"
  <2>1. op' = op /\ arg' = [arg EXCEPT ![p] = Nil] BY <1>5 DEF Retire
  <2>2. Asked' = Asked BY <1>5, <2>1, AskedKept
  <2> QED BY <1>3, <1>5, <2>1, <2>2, RetireDrops DEF Dir!Retireall, Dir!vars
<1> QED BY <1>4, <1>5 DEF Retire

\* skynet_handle_grab returns the context of the directory.
LEMMA GrabGrabs ==
    ASSUME SoleLauncher, ZeroUnused, TableInv, NEW p \in Proc, Grab(p)
    PROVE  Dir!Grab(p)
<1>0. pc \in [Proc -> Label] /\ DOMAIN got = Proc /\ ShapeInv /\ PlaceInv BY DEF TableInv, LockInv, LocalInv
<1>1. /\ pc[p] = "reading" /\ pc' = [pc EXCEPT ![p] = "idle"] /\ name' = name /\ handle' = handle
      /\ slot' = slot /\ got' = [got EXCEPT ![p] = Found(arg[p])]
  BY DEF Grab, Return, Goto, table
<1>2. PICK h \in Handle \ {0} : h = arg[p] BY ArgUsed DEF Grab
<1>3. Width = slot_size
  <2>1. \A o \in Proc : pc[o] # "resize" BY <1>1 DEF TableInv, LockInv, WritingPc
  <2> QED BY <2>1 DEF Width
<1>4. InTable' = InTable BY <1>1 DEF InTable
<1>5. Registered' = Registered /\ Bound' = Bound /\ Returned' = [Returned EXCEPT ![p] = Found(h)]
  BY <1>0, <1>1, <1>2, <1>4, Answered
<1>6. Found(h) = IF h \in Used THEN Registered[h] ELSE Nil
  <2>1. CASE h \notin Used BY <1>0, <1>3, <2>1, FoundIs
  <2>2. CASE h \in Used
    <3>1. PICK c : c = Found(h) OBVIOUS
    <3>2. c \in InTable /\ handle[c] = h /\ h # 0 BY <1>0, <1>3, <2>2, <3>1, FoundIs
    <3>3. Distinct(InTable, handle)
      <4>1. \A d \in InTable : handle[d] # 0 => slot[handle[d] % Width] = d BY <1>0, UsedIs
      <4> QED BY <4>1 DEF Distinct
    <3>4. IsReg(RegIn(InTable, handle), InTable, handle) BY <3>3, RegIs
    <3>5. Registered = RegIn(InTable, handle) BY DEF Registered, RegIn, Used
    <3>6. Registered[h] = c BY <3>2, <3>4, <3>5 DEF IsReg
    <3> QED BY <2>2, <3>1, <3>6
  <2> QED BY <2>1, <2>2
<1>7. DOMAIN Registered = Used BY DEF Registered
<1>8. op[p] = "grab" /\ Return(p) /\ Asked[p] = h BY <1>2 DEF Grab, Asked
<1>9. Dir!Returns(p, Found(h)) BY <1>5, <1>8, ReturnEnds DEF Dir!Returns
<1> QED BY <1>5, <1>6, <1>7, <1>8, <1>9 DEF Dir!Grab, Dir!At

\* skynet_handle_findname returns the handle of the directory.
LEMMA FindnameFinds ==
    ASSUME TableInv, NEW p \in Proc, Findname(p)
    PROVE  Dir!Findname(p)
<1>0. pc \in [Proc -> Label] /\ DOMAIN got = Proc BY DEF TableInv, LockInv, LocalInv
<1>1. /\ pc[p] = "reading" /\ pc' = [pc EXCEPT ![p] = "idle"] /\ name' = name /\ handle' = handle
      /\ slot' = slot
  BY DEF Findname, Return, Goto, table
<1>2. PICK m \in Name : m = arg[p] BY DEF Findname, TableInv, ArgInv
<1>3. PICK r : r = Search(m) OBVIOUS
<1>4. PICK v : v = IF r.found THEN name[r.at + 1].handle ELSE Nil OBVIOUS
<1>5. got' = [got EXCEPT ![p] = v] BY <1>2, <1>3, <1>4 DEF Findname
<1>6. InTable' = InTable BY <1>1 DEF InTable
<1>7. Registered' = Registered /\ Bound' = Bound /\ Returned' = [Returned EXCEPT ![p] = v]
  BY <1>0, <1>1, <1>5, <1>6, Answered
<1>8. name \in Seq(NameEntry) /\ Sorted(name) BY DEF TableInv, NameInv
<1>9. Answers(m, r) BY <1>3, <1>8, SearchIs
<1>10. /\ DOMAIN Bound = {e.name : e \in Entries(name)}
       /\ \A e \in Entries(name) : Bound[e.name] = e.handle
  <2>1. Bound = BoundIn(name) BY DEF Bound, BoundIn
  <2> QED BY <1>8, <2>1, BoundIs
<1>11. v = IF m \in DOMAIN Bound THEN Bound[m] ELSE Nil
  <2>1. CASE r.found
    <3>1. PICK e : e = name[r.at + 1] OBVIOUS
    <3>2. e \in Entries(name) /\ e.name = m BY <1>9, <2>1, <3>1 DEF Answers, Entries
    <3>3. m \in DOMAIN Bound /\ Bound[m] = e.handle BY <1>10, <3>2
    <3> QED BY <1>4, <2>1, <3>1, <3>3
  <2>2. CASE ~r.found
    <3>1. \A j \in 1..Len(name) : name[j].name # m
      <4>1. /\ r.at \in 0..Len(name)
            /\ \A j \in 1..Len(name) : /\ j <= r.at => name[j].name < m
                                       /\ j > r.at => name[j].name > m
        BY <1>9, <2>2 DEF Answers
      <4>2. m \in Nat BY HandleAssumption
      <4>3. Len(name) \in Nat BY <1>8, LenProperties
      <4> QED BY <4>1, <4>2, <4>3
    <3>2. m \notin DOMAIN Bound BY <1>10, <3>1 DEF Entries
    <3> QED BY <1>4, <2>2, <3>2
  <2> QED BY <2>1, <2>2
<1>12. op[p] = "findname" /\ Return(p) /\ Asked[p] = m BY <1>2 DEF Findname, Asked
<1>13. Dir!Returns(p, v) BY <1>7, <1>12, ReturnEnds DEF Dir!Returns
<1> QED BY <1>7, <1>11, <1>12, <1>13 DEF Dir!Findname, Dir!At

\* skynet_handle_namehandle binds a name that is not bound.
LEMMA NamehandleBinds ==
    ASSUME TableInv, NEW p \in Proc, Namehandle(p)
    PROVE  Dir!Namehandle(p)
<1>0. pc \in [Proc -> Label] /\ DOMAIN got = Proc /\ NameInv BY DEF TableInv, LockInv, LocalInv
<1>1. /\ pc[p] = "writing" /\ pc' = [pc EXCEPT ![p] = "idle"] /\ handle' = handle /\ slot' = slot
  BY DEF Namehandle, Return, Goto, table
<1>2. PICK h \in Handle, m \in Name : h = arg[p][1] /\ m = arg[p][2] BY NamehandleTakes
<1>3. InTable' = InTable BY <1>1 DEF InTable
<1>4. got[p] = Nil BY <1>1 DEF TableInv, CallInv
<1>5. /\ DOMAIN Bound = {e.name : e \in Entries(name)} /\ Bound = BoundIn(name) /\ Bound' = BoundIn(name')
  <2>1. Bound = BoundIn(name) /\ Bound' = BoundIn(name') BY DEF Bound, BoundIn
  <2> QED BY <1>0, <2>1, BoundIs DEF NameInv
<1>6. Registered' = Registered BY <1>1, <1>3 DEF Registered, Used
<1>9. op[p] = "namehandle" /\ Return(p) /\ Asked[p][1] = h /\ Asked[p][2] = m
  BY <1>2 DEF Namehandle, Asked
<1>7. CASE m \in DOMAIN Bound
  <2>1. name' = name /\ got' = got BY <1>2, <1>5, <1>7, NamehandleTakes
  <2>2. Bound' = Bound BY <2>1 DEF Bound
  <2>3. Returned' = [Returned EXCEPT ![p] = Nil] BY <1>0, <1>1, <1>4, <2>1 DEF Returned
  <2>4. Dir!Returns(p, Nil) BY <1>9, <2>3, ReturnEnds DEF Dir!Returns
  <2> QED BY <1>6, <1>7, <1>9, <2>2, <2>4 DEF Dir!Namehandle
<1>8. CASE m \notin DOMAIN Bound
  <2>1. PICK e : e = [name |-> m, handle |-> h] OBVIOUS
  <2>2. e.name = m /\ e.handle = h BY <2>1
  <2>3. /\ Entries(name') = Entries(name) \cup {e} /\ got' = [got EXCEPT ![p] = m]
        /\ name' \in Seq(NameEntry) /\ Sorted(name')
    BY <1>2, <1>5, <1>8, <2>1, NamehandleTakes DEF NameInv
  <2>4. Gains(name, name', e) BY <2>3 DEF Gains
  <2>5. Added(Bound, Bound', m, h) BY <1>0, <1>5, <1>8, <2>2, <2>3, <2>4, BoundAdds DEF NameInv
  <2>6. Returned' = [Returned EXCEPT ![p] = m] BY <1>0, <1>1, <2>3 DEF Returned
  <2>7. Dir!Returns(p, m) BY <1>9, <2>6, ReturnEnds DEF Dir!Returns
  <2> QED BY <1>6, <1>8, <1>9, <2>5, <2>7 DEF Dir!Namehandle, Dir!With, Added
<1> QED BY <1>7, <1>8

\* retireall returns, or goes round its loop.
LEMMA SweepSweeps ==
    ASSUME TableInv, NEW p \in Proc, Sweep(p)
    PROVE  [Dir!Next]_(Dir!vars)
<1>0. /\ pc \in [Proc -> Label] /\ DOMAIN got = Proc BY DEF TableInv, LockInv, LocalInv
<1>1. /\ pc' = [pc EXCEPT ![p] = pc'[p]] /\ pc[p] # "assign" /\ pc'[p] # "assign"
      /\ slot' = slot /\ handle' = handle /\ name' = name /\ got' = got
  BY <1>0 DEF Sweep, Return, Goto, table
<1>2. InTable' = InTable BY <1>1 DEF InTable
<1>3. CASE op' = op /\ arg' = arg BY <1>1, <1>2, <1>3, StaysPut
<1>4. CASE Return(p)
  <2>1. op[p] = "retireall" /\ got[p] = Nil BY DEF Sweep, TableInv, CallInv
  <2>2. got' = [got EXCEPT ![p] = Nil] BY <1>1, <2>1 DEF TableInv, LocalInv
  <2>3. Registered' = Registered /\ Bound' = Bound /\ Returned' = [Returned EXCEPT ![p] = Nil]
    BY <1>1, <1>2, <2>2, Answered
  <2>4. Dir!Returns(p, Nil) BY <1>4, <2>3, ReturnEnds DEF Dir!Returns
  <2>5. Dir!Retireall(p) BY <2>1, <2>3, <2>4 DEF Dir!Retireall
  <2> QED BY <2>5 DEF Dir!Next
<1> QED BY <1>3, <1>4 DEF Sweep

\* Every step of the table is a step of the directory or leaves it alone.
LEMMA DirStep ==
    ASSUME SoleLauncher, ZeroUnused, TableInv, [Next]_vars
    PROVE  [Dir!Next]_(Dir!vars)
<1>0. TableInv' /\ LockInv' /\ pc \in [Proc -> Label] BY TableStep DEF TableInv, LockInv
<1>1. CASE UNCHANGED vars
  BY <1>1 DEF vars, table, Dir!vars, Registered, Bound, Returned, Asked, Used, InTable
<1>2. CASE Next
  <2>1. PICK p \in Proc : Calls(p) \/ Runs(p) BY <1>2 DEF Next
  <2>2. CASE Calls(p) BY <2>2, CallIsCall DEF Dir!Next
  <2>3. CASE \/ RSpins(p) \/ RCounts(p) \/ RChecks(p) \/ RBacks(p) \/ WSets(p) \/ WWaits(p)
             \/ SweepReads(p)
    <3>1. /\ pc' = [pc EXCEPT ![p] = pc'[p]] /\ pc[p] # "assign" /\ pc'[p] # "assign"
          /\ slot' = slot /\ handle' = handle /\ name' = name /\ got' = got
      BY <1>0, <2>3 DEF RSpins, RCounts, RChecks, RBacks, WSets, WWaits, SweepReads, Goto, table
    <3>2. InTable' = InTable BY <3>1 DEF InTable
    <3>3. op' = op /\ \A o \in Proc : op[o] # "retireall" => arg'[o] = arg[o]
      BY <1>0, <2>3 DEF RSpins, RCounts, RChecks, RBacks, WSets, WWaits, SweepReads, TableInv, LocalInv
    <3> QED BY <3>1, <3>2, <3>3, StaysPut
  <2>11. CASE Sweep(p) BY <2>11, SweepSweeps
  <2>4. CASE TakeSlot(p) BY <1>0, <2>4, TakeSlotIsSilent
  <2>5. CASE Rehash(p) \/ Resize(p)
    <3>1. InTable' = InTable /\ handle' = handle /\ name' = name BY <1>0, <2>5, RehashKeeps, ResizeKeeps
    <3>2. pc' = [pc EXCEPT ![p] = pc'[p]] /\ pc[p] # "assign" /\ pc'[p] # "assign" /\ got' = got
      BY <1>0, <2>5 DEF Rehash, Resize, Goto
    <3>3. op' = op /\ arg' = arg BY <2>5 DEF Rehash, Resize
    <3> QED BY <3>1, <3>2, <3>3, StaysPut
  <2>6. CASE Assign(p) BY <1>0, <2>6, AssignRegisters DEF Dir!Next
  <2>7. CASE Retire(p) BY <2>7, RetireRetires DEF Dir!Next
  <2>8. CASE Grab(p) BY <2>8, GrabGrabs DEF Dir!Next
  <2>9. CASE Findname(p) BY <2>9, FindnameFinds DEF Dir!Next
  <2>10. CASE Namehandle(p) BY <2>10, NamehandleBinds DEF Dir!Next
  <2> QED BY <2>1, <2>2, <2>3, <2>4, <2>5, <2>6, <2>7, <2>8, <2>9, <2>10, <2>11 DEF Runs
<1> QED BY <1>1, <1>2

\* The handle table of skynet_handle.c implements the directory: a grab returns the context
\* of its handle or none, a name leads to its handle, and a retirement takes its own handle
\* and its names, through the rehashes, the wrapped indices, the binary searches and any
\* overlap of calls. Launches do not overlap: SoleLauncher.
THEOREM IsDirectoryHolds ==
    ASSUME SoleLauncher
    PROVE  Spec /\ []ZeroUnused => IsDirectory
<1>1. TableInv /\ ZeroUnused /\ [Next]_vars => [Dir!Next]_(Dir!vars) BY DirStep
<1>2. Spec /\ []ZeroUnused => []TableInv BY TableInvHolds
<1> QED BY <1>1, <1>2, DirInit, PTL DEF Spec, IsDirectory, Dir!Spec

-----------------------------------------------------------------------------
(* The timer                                                               *)

\* Blocks of blocks.
LEMMA DivDiv ==
    ASSUME NEW b \in Nat \ {0}, NEW l \in Nat \ {0}, NEW x \in Nat
    PROVE  x \div (b * l) = (x \div b) \div l
<1>1. PICK q \in Nat, r \in Nat : q = x \div b /\ r < b /\ x = b * q + r BY Divided
<1>2. PICK u \in Nat, v \in Nat : u = q \div l /\ v < l /\ q = l * u + v BY Divided
<1>3. PICK c \in Nat \ {0} : c = b * l OBVIOUS
<1>4. PICK s \in Nat : s = b * v + r OBVIOUS
<1>5. b * q = c * u + b * v
  <2>1. PICK k \in Nat : k = l * u OBVIOUS
  <2>2. q = k + v BY <1>2, <2>1
  <2>3. b * q = b * k + b * v BY <2>2
  <2>4. b * k = c * u BY <1>3, <2>1
  <2> QED BY <2>3, <2>4
<1>6. x = c * u + s
  <2>1. c * u \in Nat /\ b * v \in Nat OBVIOUS
  <2> QED BY <1>1, <1>4, <1>5, <2>1
<1>7. s < c
  <2>1. v + 1 <= l BY <1>2
  <2>2. PICK d \in Nat : l = v + 1 + d
    <3>1. l - v - 1 \in Nat /\ l = v + 1 + (l - v - 1) BY <2>1
    <3> QED BY <3>1
  <2>3. c = b * v + b + b * d BY <1>3, <2>2
  <2>4. b * d >= 0 /\ b * v \in Nat /\ b * d \in Nat OBVIOUS
  <2> QED BY <1>1, <1>4, <2>3, <2>4
<1>8. (c * u + s) \div c = u BY <1>7, ModUnique
<1> QED BY <1>1, <1>2, <1>3, <1>6, <1>8

\* Time stays in a block until a multiple of its length.
LEMMA NextBlock ==
    ASSUME NEW b \in Nat \ {0}, NEW y \in Nat, (y + 1) % b # 0
    PROVE  (y + 1) \div b = y \div b
<1>1. PICK q \in Nat, r \in Nat : q = y \div b /\ r < b /\ y = b * q + r BY Divided
<1>2. CASE r + 1 < b
  <2>1. y + 1 = b * q + (r + 1) BY <1>1
  <2>2. (b * q + (r + 1)) \div b = q BY <1>2, ModUnique
  <2> QED BY <1>1, <2>1, <2>2
<1>3. CASE r + 1 = b
  <2>1. y + 1 = b * (q + 1) + 0 BY <1>1, <1>3
  <2>2. (b * (q + 1) + 0) % b = 0 BY ModUnique
  <2> QED BY <2>1, <2>2
<1> QED BY <1>1, <1>2, <1>3

\* y is the last of its block.
LEMMA LastOfBlock ==
    ASSUME NEW b \in Nat \ {0}, NEW y \in Nat, (y + 1) % b = 0, NEW x \in Nat, x \div b = y \div b
    PROVE  x <= y /\ y - x < b
<1>1. PICK q \in Nat, r \in Nat : q = y \div b /\ r < b /\ y = b * q + r BY Divided
<1>2. PICK s \in Nat : s < b /\ x = b * q + s
  <2>1. PICK p \in Nat, s \in Nat : p = x \div b /\ s < b /\ x = b * p + s BY Divided
  <2>2. p = q BY <1>1, <2>1
  <2> QED BY <2>1, <2>2
<1>3. r = b - 1
  <2>1. SUFFICES ASSUME r + 1 < b PROVE FALSE BY <1>1
  <2>2. y + 1 = b * q + (r + 1) BY <1>1
  <2>3. (b * q + (r + 1)) % b = r + 1
    <3>1. r + 1 \in Nat OBVIOUS
    <3> QED BY <2>1, <3>1, ModUnique
  <2> QED BY <2>2, <2>3
<1>4. b * q \in Nat OBVIOUS
<1> QED BY <1>1, <1>2, <1>3, <1>4

\* The digit after a 0 is 0 when the larger unit divides too.
LEMMA DigitZero ==
    ASSUME NEW b \in Nat \ {0}, NEW l \in Nat \ {0}, NEW x \in Nat, x % b = 0
    PROVE  (x \div b) % l = 0 <=> x % (b * l) = 0
<1>1. PICK q \in Nat : q = x \div b /\ x = b * q BY DivMod
<1>2. PICK u \in Nat, v \in Nat : v = q % l /\ v < l /\ q = l * u + v BY Divided
<1>3. PICK c \in Nat \ {0} : c = b * l OBVIOUS
<1>4. PICK s \in Nat : s = b * v OBVIOUS
<1>5. x = c * u + s
  <2>1. PICK k \in Nat : k = l * u OBVIOUS
  <2>2. q = k + v BY <1>2, <2>1
  <2>3. b * q = b * k + b * v BY <2>2
  <2>4. b * k = c * u BY <1>3, <2>1
  <2> QED BY <1>1, <1>4, <2>3, <2>4
<1>6. s < c
  <2>1. PICK d \in Nat : l = v + 1 + d
    <3>1. l - v - 1 \in Nat /\ l = v + 1 + (l - v - 1) BY <1>2
    <3> QED BY <3>1
  <2>2. c = b * v + b + b * d BY <1>3, <2>1
  <2>3. b * d \in Nat /\ b * v \in Nat OBVIOUS
  <2> QED BY <1>4, <2>2, <2>3
<1>7. (c * u + s) % c = s BY <1>6, ModUnique
<1>8. s = 0 <=> v = 0 BY <1>4
<1> QED BY <1>1, <1>2, <1>3, <1>5, <1>7, <1>8

\* The units of the wheel.
LEMMA MaskIs ==
    /\ \A j \in 0..4 : Mask(j) \in Nat \ {0}
    /\ \A j \in 0..3 : Mask(j + 1) = Mask(j) * TIME_LEVEL
    /\ Mask(0) = TIME_NEAR /\ Mask(4) = Word /\ Word \in Nat \ {0}
    /\ \A j \in 0..3 : Mask(j) * 2 <= Word
<1>0. TIME_NEAR \in Nat \ {0} /\ TIME_LEVEL \in Nat \ {0} /\ TIME_LEVEL >= 2 BY TimerAssumption
<1>1. PICK a \in Nat \ {0} : a = TIME_NEAR BY <1>0
<1>2. PICK b \in Nat \ {0} : b = TIME_NEAR * TIME_LEVEL BY <1>0
<1>3. PICK c \in Nat \ {0} : c = TIME_NEAR * TIME_LEVEL * TIME_LEVEL BY <1>0, <1>2
<1>4. PICK d \in Nat \ {0} : d = TIME_NEAR * TIME_LEVEL * TIME_LEVEL * TIME_LEVEL BY <1>0, <1>3
<1>5. PICK e \in Nat \ {0} : e = TIME_NEAR * TIME_LEVEL * TIME_LEVEL * TIME_LEVEL * TIME_LEVEL BY <1>0, <1>4
<1>6. Mask(0) = a /\ Mask(1) = b /\ Mask(2) = c /\ Mask(3) = d /\ Mask(4) = e
  BY <1>1, <1>2, <1>3, <1>4, <1>5 DEF Mask
<1>7. b = a * TIME_LEVEL /\ c = b * TIME_LEVEL /\ d = c * TIME_LEVEL /\ e = d * TIME_LEVEL
  BY <1>1, <1>2, <1>3, <1>4, <1>5
<1>8. ASSUME NEW x \in Nat PROVE x * 2 <= x * TIME_LEVEL
  <2>1. PICK y \in Nat : TIME_LEVEL = 2 + y
    <3>1. TIME_LEVEL - 2 \in Nat /\ TIME_LEVEL = 2 + (TIME_LEVEL - 2) BY <1>0
    <3> QED BY <3>1
  <2>2. x * TIME_LEVEL = x * 2 + x * y /\ x * y \in Nat BY <2>1
  <2> QED BY <2>2
<1>9. d * 2 <= e /\ c * 2 <= d /\ b * 2 <= c /\ a * 2 <= b BY <1>7, <1>8
<1>10. d * 2 <= e /\ c * 2 <= e /\ b * 2 <= e /\ a * 2 <= e BY <1>9
<1>11. \A j \in 0..4 : j = 0 \/ j = 1 \/ j = 2 \/ j = 3 \/ j = 4 OBVIOUS
<1>12. \A j \in 0..3 : (j = 0 /\ j + 1 = 1) \/ (j = 1 /\ j + 1 = 2) \/ (j = 2 /\ j + 1 = 3) \/ (j = 3 /\ j + 1 = 4)
  OBVIOUS
<1>13. \A j \in 0..4 : Mask(j) \in Nat \ {0} BY <1>6, <1>11
<1>14. \A j \in 0..3 : Mask(j + 1) = Mask(j) * TIME_LEVEL BY <1>6, <1>7, <1>12
<1>15. \A j \in 0..3 : Mask(j) * 2 <= e BY <1>6, <1>10, <1>12
<1> QED BY <1>1, <1>6, <1>13, <1>14, <1>15 DEF Word

\* The levels of the wheel.
LEMMA Levels ==
    /\ \A j \in Level : j = 0 \/ j = 1 \/ j = 2 \/ j = 3
    /\ \A j \in Level : j \in 0..4 /\ j + 1 \in 0..4 /\ j \in Int
BY DEF Level

\* A finer unit divides a coarser one.
LEMMA MaskDivides ==
    ASSUME NEW j \in 0..4, NEW k \in 0..4, j <= k
    PROVE  Mask(k) % Mask(j) = 0
<1>1. \A a \in 0..4 : Mask(a) \in Nat \ {0} BY MaskIs
<1>2. \A a \in 0..3 : Mask(a + 1) = Mask(a) * TIME_LEVEL BY MaskIs
<1>3. TIME_LEVEL \in Nat BY TimerAssumption
<1>4. ASSUME NEW a \in 0..4 PROVE Mask(a) % Mask(a) = 0
  <2>1. (Mask(a) * 1 + 0) % Mask(a) = 0 BY <1>1, ModUnique
  <2> QED BY <1>1, <2>1
<1>5. ASSUME NEW a \in 0..3 PROVE Mask(a + 1) % Mask(a) = 0
  <2>1. (Mask(a) * TIME_LEVEL + 0) % Mask(a) = 0
    <3>1. Mask(a) \in Nat \ {0} BY <1>1
    <3> QED BY <1>3, <3>1, ModUnique
  <2>2. Mask(a) * TIME_LEVEL \in Nat BY <1>1, <1>3
  <2> QED BY <1>2, <2>1, <2>2
<1>6. ASSUME NEW a \in 0..4, NEW b \in 0..3, Mask(b) % Mask(a) = 0 PROVE Mask(b + 1) % Mask(a) = 0
  <2>1. Mask(b + 1) \in Nat /\ Mask(b) \in Nat \ {0} /\ Mask(a) \in Nat \ {0} BY <1>1
  <2> QED BY <1>5, <1>6, <2>1, Divides
<1>7. DEFINE T == {d \in 0..4 : j + d \in 0..4 => Mask(j + d) % Mask(j) = 0}
<1>8. 0 \in T BY <1>4
<1>9. \A d \in 0..4 : d < 4 /\ d \in T => d + 1 \in T
  <2> SUFFICES ASSUME NEW d \in 0..4, d < 4, d \in T, j + (d + 1) \in 0..4
               PROVE  Mask(j + (d + 1)) % Mask(j) = 0
    OBVIOUS
  <2>1. j + d \in 0..3 /\ j + (d + 1) = (j + d) + 1 OBVIOUS
  <2>2. Mask(j + d) % Mask(j) = 0 BY <2>1
  <2> HIDE DEF T
  <2> QED BY <1>6, <2>1, <2>2
<1> HIDE DEF T
<1>10. \A d \in 0..4 : d \in T BY <1>8, <1>9, Climb
<1>11. k - j \in 0..4 /\ j + (k - j) = k OBVIOUS
<1> QED BY <1>10, <1>11 DEF T

\* Two times in one block are in one block of every coarser unit.
LEMMA Coarser ==
    ASSUME NEW x \in Nat, NEW y \in Nat, NEW j \in 0..4, NEW k \in 0..4, j <= k,
           SameBlock(x, y, Mask(j))
    PROVE  SameBlock(x, y, Mask(k))
<1>1. ASSUME NEW a \in 0..3, SameBlock(x, y, Mask(a)) PROVE SameBlock(x, y, Mask(a + 1))
  <2>1. Mask(a) \in Nat \ {0} /\ TIME_LEVEL \in Nat \ {0} /\ Mask(a + 1) = Mask(a) * TIME_LEVEL
    BY MaskIs, TimerAssumption
  <2>2. /\ x \div Mask(a + 1) = (x \div Mask(a)) \div TIME_LEVEL
        /\ y \div Mask(a + 1) = (y \div Mask(a)) \div TIME_LEVEL
    BY <2>1, DivDiv
  <2> QED BY <1>1, <2>2 DEF SameBlock
<1>2. DEFINE T == {d \in 0..4 : j + d \in 0..4 => SameBlock(x, y, Mask(j + d))}
<1>3. 0 \in T OBVIOUS
<1>4. \A d \in 0..4 : d < 4 /\ d \in T => d + 1 \in T
  <2> SUFFICES ASSUME NEW d \in 0..4, d < 4, d \in T, j + (d + 1) \in 0..4
               PROVE  SameBlock(x, y, Mask(j + (d + 1)))
    OBVIOUS
  <2>1. j + d \in 0..3 /\ j + (d + 1) = (j + d) + 1 OBVIOUS
  <2>2. SameBlock(x, y, Mask(j + d)) BY <2>1
  <2> HIDE DEF T
  <2> QED BY <1>1, <2>1, <2>2
<1> HIDE DEF T
<1>5. \A d \in 0..4 : d \in T BY <1>3, <1>4, Climb
<1>6. k - j \in 0..4 /\ j + (k - j) = k OBVIOUS
<1> QED BY <1>5, <1>6 DEF T

\* x belongs on level l at the time y.
OnLevel(x, y, l) ==
    /\ ~SameBlock(x, y, Mask(l))
    /\ l = 3 \/ SameBlock(x, y, Mask(l + 1))

\* add_node puts x on the level on which it belongs.
LEMMA OnLevelIs ==
    ASSUME NEW x \in Nat, NEW y \in Nat, NEW l \in Level, OnLevel(x, y, l)
    PROVE  /\ LevelOf(x, y) = l
           /\ ~SameBlock(x, y, TIME_NEAR)
           /\ PlaceOf(x, y) = <<l, (x \div Mask(l)) % TIME_LEVEL>>
<1>1. \A a \in 0..4 : a <= l => ~SameBlock(x, y, Mask(a))
  BY Coarser, Levels DEF OnLevel
<1>2. ~SameBlock(x, y, TIME_NEAR) BY <1>1, MaskIs, Levels DEF Level
<1> DEFINE P(i_) == (i_ = 3 \/ SameBlock(x, y, Mask(i_ + 1)))
                    /\ \A j \in Level : j < i_ => ~SameBlock(x, y, Mask(j + 1))
<1>3. P(l) BY <1>1, Levels DEF OnLevel, Level
<1>4. ASSUME NEW a \in Level, P(a) PROVE a = l
  <2>1. CASE a < l
    <3>1. a # 3 /\ a + 1 \in 0..4 /\ a + 1 <= l BY <2>1, Levels DEF Level
    <3> QED BY <1>1, <1>4, <3>1
  <2>2. CASE l < a
    <3>1. l # 3 BY <2>2 DEF Level
    <3> QED BY <1>4, <2>2, <3>1 DEF OnLevel
  <2> QED BY <2>1, <2>2 DEF Level
<1>5. LevelOf(x, y) = CHOOSE a \in Level : P(a) BY DEF LevelOf
<1> HIDE DEF P
<1>6. LevelOf(x, y) \in Level /\ P(LevelOf(x, y)) BY <1>3, <1>5
<1>7. LevelOf(x, y) = l BY <1>4, <1>6
<1> QED BY <1>2, <1>7 DEF PlaceOf

\* Every time has a place: in the near lists, or on a level.
LEMMA PlaceIs ==
    ASSUME NEW x \in Nat, NEW y \in Nat
    PROVE  \/ /\ SameBlock(x, y, Mask(0))
              /\ PlaceOf(x, y) = Near(x % TIME_NEAR)
           \/ \E l \in Level : OnLevel(x, y, l)
<1>1. CASE SameBlock(x, y, Mask(0)) BY <1>1, MaskIs DEF PlaceOf
<1>2. CASE ~SameBlock(x, y, Mask(0))
  <2>1. \E l \in {0, 1, 2, 3} : OnLevel(x, y, l)
    <3>1. 0 + 1 = 1 /\ 1 + 1 = 2 /\ 2 + 1 = 3 OBVIOUS
    <3> QED BY <1>2, <3>1 DEF OnLevel
  <2> QED BY <2>1 DEF Level
<1> QED BY <1>1, <1>2

\* add_node finds a list of the wheel.
LEMMA PlaceIn ==
    ASSUME NEW x \in Nat, NEW y \in Nat
    PROVE  PlaceOf(x, y) \in Place
<1>1. TIME_NEAR \in Nat \ {0} /\ TIME_LEVEL \in Nat \ {0} BY TimerAssumption
<1>2. x % TIME_NEAR \in 0..(TIME_NEAR - 1) BY <1>1
<1>3. ASSUME NEW l \in Level PROVE (x \div Mask(l)) % TIME_LEVEL \in 0..(TIME_LEVEL - 1)
  <2>1. Mask(l) \in Nat \ {0} BY MaskIs, Levels
  <2>2. x \div Mask(l) \in Nat BY <2>1, DivMod
  <2> QED BY <1>1, <2>2
<1>4. CASE PlaceOf(x, y) = Near(x % TIME_NEAR) BY <1>2, <1>4 DEF Place, Near
<1>5. CASE \E l \in Level : OnLevel(x, y, l)
  <2>1. PICK l \in Level : OnLevel(x, y, l) BY <1>5
  <2>2. PlaceOf(x, y) = <<l, (x \div Mask(l)) % TIME_LEVEL>> BY <2>1, OnLevelIs
  <2> QED BY <1>3, <2>2 DEF Place
<1> QED BY <1>4, <1>5, PlaceIs

\* The values of a machine word.
Ticks == 0..(Word - 1)

\* The time a timeout of d ticks names: at or after now, or behind it by more than half a word.
LEMMA Expiry ==
    ASSUME NEW now \in Ticks, NEW d \in Nat, d * 2 < Word
    PROVE  /\ (now + d) % Word \in Ticks
           /\ \/ (now + d) % Word = now + d
              \/ (now + d) % Word = now + d - Word
           /\ (now + d) % Word = now <=> d = 0
<1>1. Word \in Nat \ {0} BY MaskIs
<1>2. CASE now + d < Word
  <2>1. (Word * 0 + (now + d)) % Word = now + d
    <3>1. now + d \in Nat BY DEF Ticks
    <3> QED BY <1>1, <1>2, <3>1, ModUnique
  <2>2. Word * 0 + (now + d) = now + d BY <1>1 DEF Ticks
  <2> QED BY <1>1, <1>2, <2>1, <2>2 DEF Ticks
<1>3. CASE now + d >= Word
  <2>1. now + d - Word \in Nat /\ now + d - Word < Word BY <1>1, <1>3 DEF Ticks
  <2>2. (Word * 1 + (now + d - Word)) % Word = now + d - Word BY <1>1, <2>1, ModUnique
  <2>3. Word * 1 + (now + d - Word) = now + d BY <1>1 DEF Ticks
  <2>4. d # 0 /\ now + d - Word # now BY <1>1, <1>3 DEF Ticks
  <2>5. (now + d) % Word = now + d - Word BY <2>2, <2>3
  <2> QED BY <1>1, <2>1, <2>4, <2>5 DEF Ticks
<1> QED BY <1>1, <1>2, <1>3 DEF Ticks

\* The next tick.
LEMMA Tick ==
    ASSUME NEW now \in Ticks
    PROVE  /\ (now + 1) % Word \in Ticks
           /\ (now + 1) % Word # 0 => (now + 1) % Word = now + 1
           /\ (now + 1) % Word = 0 => now + 1 = Word
<1>1. Word \in Nat \ {0} BY MaskIs
<1>2. CASE now + 1 < Word
  <2>1. (Word * 0 + (now + 1)) % Word = now + 1
    <3>1. now + 1 \in Nat BY DEF Ticks
    <3> QED BY <1>1, <1>2, <3>1, ModUnique
  <2>2. Word * 0 + (now + 1) = now + 1 BY <1>1 DEF Ticks
  <2> QED BY <1>1, <1>2, <2>1, <2>2 DEF Ticks
<1>3. CASE now + 1 = Word
  <2>1. (Word * 1 + 0) % Word = 0 BY <1>1, ModUnique
  <2>2. Word * 1 + 0 = now + 1 BY <1>1, <1>3
  <2>3. (now + 1) % Word = 0 BY <2>1, <2>2
  <2> QED BY <1>1, <1>3, <2>3 DEF Ticks
<1> QED BY <1>1, <1>2, <1>3 DEF Ticks

\* The near list of a time holds the timeouts of that time.
LEMMA NearIs ==
    ASSUME NEW x \in Nat, NEW y \in Nat
    PROVE  PlaceOf(x, y) = Near(y % TIME_NEAR) <=> x = y
<1>1. TIME_NEAR \in Nat \ {0} BY TimerAssumption
<1>2. ASSUME PlaceOf(x, y) = Near(y % TIME_NEAR) PROVE x = y
  <2>1. CASE SameBlock(x, y, Mask(0)) /\ PlaceOf(x, y) = Near(x % TIME_NEAR)
    <3>1. x % TIME_NEAR = y % TIME_NEAR BY <1>2, <2>1 DEF Near
    <3>2. x \div TIME_NEAR = y \div TIME_NEAR BY <2>1, MaskIs DEF SameBlock
    <3>3. /\ x = TIME_NEAR * (x \div TIME_NEAR) + (x % TIME_NEAR)
          /\ y = TIME_NEAR * (y \div TIME_NEAR) + (y % TIME_NEAR)
      BY <1>1, DivMod
    <3> QED BY ONLY <3>1, <3>2, <3>3
  <2>2. CASE \E l \in Level : OnLevel(x, y, l)
    <3>1. PICK l \in Level : OnLevel(x, y, l) BY <2>2
    <3>2. PlaceOf(x, y) = <<l, (x \div Mask(l)) % TIME_LEVEL>> BY <3>1, OnLevelIs
    <3>3. l # -1 BY DEF Level
    <3> QED BY <1>2, <3>2, <3>3 DEF Near
  <2> QED BY <2>1, <2>2, PlaceIs
<1>3. ASSUME x = y PROVE PlaceOf(x, y) = Near(y % TIME_NEAR)
  BY <1>3 DEF PlaceOf, SameBlock
<1> QED BY <1>2, <1>3

\* Two times whose blocks are the same put a timeout in the same place.
LEMMA SamePlace ==
    ASSUME NEW x \in Nat, NEW y \in Nat, NEW z \in Nat,
           \A j \in 0..3 : SameBlock(y, z, Mask(j))
    PROVE  PlaceOf(x, y) = PlaceOf(x, z)
<1>1. \A j \in 0..3 : SameBlock(x, y, Mask(j)) <=> SameBlock(x, z, Mask(j)) BY DEF SameBlock
<1>2. CASE SameBlock(x, y, Mask(0)) BY <1>1, <1>2, MaskIs DEF PlaceOf
<1>3. CASE \E l \in Level : OnLevel(x, y, l)
  <2>1. PICK l \in Level : OnLevel(x, y, l) BY <1>3
  <2>2. l \in 0..3 /\ (l # 3 => l + 1 \in 0..3) BY DEF Level
  <2>3. OnLevel(x, z, l) BY <1>1, <2>1, <2>2 DEF OnLevel
  <2> QED BY <2>1, <2>3, OnLevelIs
<1> QED BY <1>2, <1>3, PlaceIs

\* At the time ct, which follows now, the carry reaches level l.
Reaches(ct, l) ==
    /\ ct % Mask(l) = 0
    /\ (ct = 0 /\ l = 3) \/ ct % Mask(l + 1) # 0

\* A tick leaves every timeout in its place except those of the list that timer_shift spreads.
LEMMA Stays ==
    ASSUME NEW now \in Ticks, NEW d \in Nat, d # 0, d * 2 < Word, NEW l \in Level,
           Reaches((now + 1) % Word, l),
           PlaceOf((now + d) % Word, now)
               # <<l, (((now + 1) % Word) \div Mask(l)) % TIME_LEVEL>>
    PROVE  PlaceOf((now + d) % Word, (now + 1) % Word) = PlaceOf((now + d) % Word, now)
<1>1. PICK x \in Ticks : x = (now + d) % Word BY Expiry
<1>2. PICK ct \in Ticks : ct = (now + 1) % Word BY Tick
<1>3. \A j \in 0..4 : Mask(j) \in Nat \ {0} BY MaskIs
<1>4. x \in Nat /\ ct \in Nat /\ now \in Nat /\ now + 1 \in Nat /\ Word \in Nat \ {0}
  BY MaskIs DEF Ticks
<1>5. l \in 0..3 /\ l \in 0..4 /\ l + 1 \in 0..4 BY DEF Level
<1>6. ASSUME NEW j \in 0..4, j <= l PROVE (now + 1) % Mask(j) = 0
  <2>1. CASE ct # 0
    <3>1. ct = now + 1 BY <1>2, <2>1, Tick
    <3>2. ct % Mask(l) = 0 BY <1>2 DEF Reaches
    <3>3. Mask(l) % Mask(j) = 0 BY <1>5, <1>6, MaskDivides
    <3>4. Mask(l) \in Nat \ {0} /\ Mask(j) \in Nat \ {0} BY <1>3, <1>5
    <3> QED BY <1>4, <3>1, <3>2, <3>3, <3>4, Divides
  <2>2. CASE ct = 0
    <3>1. now + 1 = Word BY <1>2, <2>2, Tick
    <3>2. Mask(4) % Mask(j) = 0 BY MaskDivides
    <3> QED BY <3>1, <3>2, MaskIs
  <2> QED BY <2>1, <2>2
<1>7. ASSUME NEW j \in 0..4, j <= l PROVE ~SameBlock(x, now, Mask(j))
  <2>1. SUFFICES ASSUME SameBlock(x, now, Mask(j)) PROVE FALSE OBVIOUS
  <2>2. Mask(j) \in Nat \ {0} BY <1>3
  <2>3. x <= now /\ now - x < Mask(j)
    BY <1>4, <1>6, <1>7, <2>1, <2>2, LastOfBlock DEF SameBlock
  <2>4. j \in 0..3 BY <1>5, <1>7
  <2>5. Mask(j) * 2 <= Word BY <2>4, MaskIs
  <2>6. x = now + d \/ x = now + d - Word BY <1>1, Expiry
  <2> QED BY <1>4, <2>2, <2>3, <2>5, <2>6
<1>8. ASSUME NEW j \in 0..3, j > l PROVE SameBlock(now, ct, Mask(j))
  <2>1. ~(ct = 0 /\ l = 3) BY <1>8
  <2>2. ct % Mask(l + 1) # 0 BY <1>2, <2>1 DEF Reaches
  <2>3. Mask(l + 1) \in Nat \ {0} /\ Mask(j) \in Nat \ {0} BY <1>3, <1>5
  <2>4. Mask(j) % Mask(l + 1) = 0
    <3>1. l + 1 <= j /\ j \in 0..4 BY <1>5, <1>8
    <3> QED BY <1>5, <3>1, MaskDivides
  <2>5. ct % Mask(j) # 0 BY <1>4, <2>2, <2>3, <2>4, Divides
  <2>6. ct # 0
    <3>1. 0 % Mask(j) = 0 BY <2>3, DivMod
    <3> QED BY <2>5, <3>1
  <2>7. ct = now + 1 BY <1>2, <2>6, Tick
  <2>8. (now + 1) \div Mask(j) = now \div Mask(j) BY <1>4, <2>3, <2>5, <2>7, NextBlock
  <2> QED BY <2>7, <2>8 DEF SameBlock
<1>9. PICK h \in Level : OnLevel(x, now, h)
  <2>1. ~SameBlock(x, now, Mask(0)) BY <1>5, <1>7
  <2> QED BY <1>4, <2>1, PlaceIs
<1>10. h >= l /\ h \in 0..3 /\ h \in 0..4 /\ h + 1 \in 0..4
  <2>1. h \in 0..3 /\ h \in 0..4 /\ h + 1 \in 0..4 BY DEF Level
  <2>2. ~(h < l)
    <3> SUFFICES ASSUME h < l PROVE FALSE OBVIOUS
    <3>1. h # 3 /\ h + 1 <= l BY <1>5, <2>1
    <3> QED BY <1>7, <1>9, <2>1, <3>1 DEF OnLevel
  <2> QED BY <1>5, <2>1, <2>2
<1>11. PlaceOf(x, now) = <<h, (x \div Mask(h)) % TIME_LEVEL>> BY <1>4, <1>9, OnLevelIs
<1>12. ~SameBlock(x, ct, Mask(h))
  <2>1. CASE h > l
    <3>1. SameBlock(now, ct, Mask(h)) BY <1>8, <1>10, <2>1
    <3> QED BY <1>9, <3>1 DEF OnLevel, SameBlock
  <2>2. CASE h = l
    <3>1. (x \div Mask(l)) % TIME_LEVEL # (ct \div Mask(l)) % TIME_LEVEL BY <1>1, <1>2, <1>11, <2>2
    <3> QED BY <2>2, <3>1 DEF SameBlock
  <2> QED BY <1>5, <1>10, <2>1, <2>2
<1>13. h = 3 \/ SameBlock(x, ct, Mask(h + 1))
  <2> SUFFICES ASSUME h # 3 PROVE SameBlock(x, ct, Mask(h + 1)) OBVIOUS
  <2>1. h + 1 \in 0..3 /\ h + 1 > l BY <1>5, <1>10
  <2>2. SameBlock(now, ct, Mask(h + 1)) BY <1>8, <2>1
  <2> QED BY <1>9, <2>2 DEF OnLevel, SameBlock
<1>14. OnLevel(x, ct, h) BY <1>12, <1>13 DEF OnLevel
<1>15. PlaceOf(x, ct) = <<h, (x \div Mask(h)) % TIME_LEVEL>> BY <1>4, <1>14, OnLevelIs
<1> QED BY <1>1, <1>2, <1>11, <1>15

\* Without a carry every timeout stays in its place.
LEMMA StaysWhole ==
    ASSUME NEW now \in Ticks, ((now + 1) % Word) % TIME_NEAR # 0, NEW x \in Nat
    PROVE  PlaceOf(x, (now + 1) % Word) = PlaceOf(x, now)
<1>1. PICK ct \in Ticks : ct = (now + 1) % Word BY Tick
<1>2. ct \in Nat /\ now \in Nat /\ TIME_NEAR \in Nat \ {0} /\ TIME_NEAR = Mask(0)
  BY MaskIs, TimerAssumption DEF Ticks
<1>3. ct # 0
  <2>1. 0 % TIME_NEAR = 0 BY <1>2, DivMod
  <2> QED BY <1>1, <2>1
<1>4. ct = now + 1 BY <1>1, <1>3, Tick
<1>5. ASSUME NEW j \in 0..3 PROVE SameBlock(ct, now, Mask(j))
  <2>1. Mask(j) \in Nat \ {0} /\ Mask(j) % Mask(0) = 0
    <3>1. j \in 0..4 /\ 0 \in 0..4 /\ 0 <= j OBVIOUS
    <3> QED BY <3>1, MaskIs, MaskDivides
  <2>2. ct % Mask(j) # 0 BY <1>1, <1>2, <2>1, Divides
  <2>3. (now + 1) \div Mask(j) = now \div Mask(j) BY <1>2, <1>4, <2>1, <2>2, NextBlock
  <2> QED BY <1>4, <2>3 DEF SameBlock
<1> QED BY <1>1, <1>2, <1>5, SamePlace

\* The level that timer_shift finds is one that the carry reaches.
LEMMA CarryReaches ==
    ASSUME NEW ct \in Nat, NEW l \in Carry(ct)
    PROVE  l \in Level /\ Reaches(ct, l)
<1>1. l \in Level /\ l \in 0..3 /\ l \in 0..4 BY DEF Carry, Level
<1>2. Mask(l) \in Nat \ {0} /\ TIME_LEVEL \in Nat \ {0} /\ Mask(l + 1) = Mask(l) * TIME_LEVEL
  BY <1>1, MaskIs, TimerAssumption
<1>3. ct % Mask(l) = 0 /\ (ct \div Mask(l)) % TIME_LEVEL # 0 BY DEF Carry
<1>4. ct % Mask(l + 1) # 0 BY <1>2, <1>3, DigitZero
<1> QED BY <1>1, <1>3, <1>4 DEF Reaches

\* timer_shift finds a level whenever the near lists are used up.
LEMMA NoCarry ==
    ASSUME NEW ct \in Ticks, ct # 0, Carry(ct) = {}
    PROVE  ct % TIME_NEAR # 0
<1>1. ct \in Nat /\ ct < Word /\ TIME_LEVEL \in Nat \ {0} BY MaskIs, TimerAssumption DEF Ticks
<1>2. ct % Mask(4) # 0
  <2>1. Word \in Nat \ {0} /\ Mask(4) = Word BY MaskIs
  <2>2. (Word * 0 + ct) % Word = ct BY <1>1, <2>1, ModUnique
  <2>3. Word * 0 + ct = ct BY <1>1, <2>1
  <2> QED BY <2>1, <2>2, <2>3
<1>3. ASSUME NEW j \in 0..3, ct % Mask(j) = 0
      PROVE  (ct \div Mask(j)) % TIME_LEVEL = 0 <=> ct % Mask(j + 1) = 0
  <2>1. Mask(j) \in Nat \ {0} /\ Mask(j + 1) = Mask(j) * TIME_LEVEL
    <3>1. j \in 0..4 OBVIOUS
    <3> QED BY <3>1, MaskIs
  <2> QED BY <1>1, <1>3, <2>1, DigitZero
<1>4. SUFFICES ASSUME ct % Mask(0) = 0 PROVE FALSE BY MaskIs
<1>5. ASSUME NEW j \in Level, ct % Mask(j) = 0, \A k \in 0..(j - 1) : (ct \div Mask(k)) % TIME_LEVEL = 0
      PROVE  (ct \div Mask(j)) % TIME_LEVEL = 0
  BY <1>5 DEF Carry
<1>6. ct % Mask(1) = 0 /\ (ct \div Mask(0)) % TIME_LEVEL = 0
  <2>1. 0 \in Level /\ 0 \in 0..3 /\ 0 + 1 = 1 BY DEF Level
  <2>2. \A k \in 0..(0 - 1) : FALSE OBVIOUS
  <2> QED BY <1>3, <1>4, <1>5, <2>1, <2>2
<1>7. ct % Mask(2) = 0 /\ (ct \div Mask(1)) % TIME_LEVEL = 0
  <2>1. 1 \in Level /\ 1 \in 0..3 /\ 1 + 1 = 2 BY DEF Level
  <2>2. \A k \in 0..(1 - 1) : k = 0 OBVIOUS
  <2> QED BY <1>3, <1>5, <1>6, <2>1, <2>2
<1>8. ct % Mask(3) = 0 /\ (ct \div Mask(2)) % TIME_LEVEL = 0
  <2>1. 2 \in Level /\ 2 \in 0..3 /\ 2 + 1 = 3 BY DEF Level
  <2>2. \A k \in 0..(2 - 1) : k = 0 \/ k = 1 OBVIOUS
  <2> QED BY <1>3, <1>5, <1>6, <1>7, <2>1, <2>2
<1>9. ct % Mask(4) = 0
  <2>1. 3 \in Level /\ 3 \in 0..3 /\ 3 + 1 = 4 BY DEF Level
  <2>2. \A k \in 0..(3 - 1) : k = 0 \/ k = 1 \/ k = 2 OBVIOUS
  <2> QED BY <1>3, <1>5, <1>6, <1>7, <1>8, <2>1, <2>2
<1> QED BY <1>2, <1>9

\* The timeouts of a list that have one time are in the order b.
Ranked(s, x, b) ==
    \A j, k \in 1..Len(s) : j < k /\ x[s[j]] = x[s[k]] => <<s[j], s[k]>> \in b

\* The lists of the wheel.
Wheels == [Place -> Seq(Node)]

\* A list stays in order when what is appended was added after all of its time.
LEMMA AppendRanks ==
    ASSUME NEW s \in Seq(Node), NEW m \in Node, NEW x, NEW b,
           Ranked(s, x, b), \A e \in Entries(s) : x[e] = x[m] => <<e, m>> \in b
    PROVE  /\ Append(s, m) \in Seq(Node)
           /\ Entries(Append(s, m)) = Entries(s) \cup {m}
           /\ Ranked(Append(s, m), x, b)
<1>1. PICK t : t = Append(s, m) OBVIOUS
<1>2. /\ t \in Seq(Node) /\ Len(s) \in Nat /\ Len(t) = Len(s) + 1
      /\ \A j \in 1..Len(s) : t[j] = s[j]
      /\ t[Len(s) + 1] = m
  BY <1>1, AppendProperties, LenProperties
<1>3. 1..Len(t) = 1..Len(s) \cup {Len(s) + 1} BY <1>2
<1>4. Entries(t) = Entries(s) \cup {m} BY <1>2, <1>3 DEF Entries
<1>5. ASSUME NEW j \in 1..Len(t), NEW k \in 1..Len(t), j < k, x[t[j]] = x[t[k]]
      PROVE  <<t[j], t[k]>> \in b
  <2>1. j \in 1..Len(s) BY <1>2, <1>5
  <2>2. CASE k \in 1..Len(s) BY <1>2, <1>5, <2>1, <2>2 DEF Ranked
  <2>3. CASE k = Len(s) + 1
    <3>1. t[j] \in Entries(s) /\ t[k] = m BY <1>2, <2>1, <2>3 DEF Entries
    <3> QED BY <1>5, <3>1
  <2> QED BY <1>3, <2>2, <2>3
<1> QED BY <1>1, <1>2, <1>4, <1>5 DEF Ranked

\* add_node appends to one list.
LEMMA AddIs ==
    ASSUME NEW w \in Wheels, NEW m, NEW x \in Nat, NEW now \in Nat
    PROVE  /\ Add_node(w, m, x, now)[PlaceOf(x, now)] = Append(w[PlaceOf(x, now)], m)
           /\ \A p \in Place : p # PlaceOf(x, now) => Add_node(w, m, x, now)[p] = w[p]
           /\ m \in Node => Add_node(w, m, x, now) \in Wheels
<1>1. PICK p \in Place : p = PlaceOf(x, now) BY PlaceIn
<1>2. Add_node(w, m, x, now) = [w EXCEPT ![p] = Append(w[p], m)] BY <1>1 DEF Add_node
<1>3. w[p] \in Seq(Node) BY DEF Wheels
<1>4. m \in Node => Append(w[p], m) \in Seq(Node) BY <1>3, AppendProperties
<1> QED BY <1>1, <1>2, <1>4 DEF Wheels

-----------------------------------------------------------------------------
\* link_clear
Emptied(w, p) == [w EXCEPT ![p] = <<>>]

\* The function of move_list is defined.
LEMMA MovedIs ==
    ASSUME NEW w, NEW p, NEW now, Len(w[p]) \in Nat
    PROVE  /\ Moved(w, p, now)[0] = Emptied(w, p)
           /\ \A k \in 0..Len(w[p]) : k < Len(w[p]) =>
                 Moved(w, p, now)[k + 1] =
                     Add_node(Moved(w, p, now)[k], w[p][k + 1], expire[w[p][k + 1]], now)
<1> DEFINE G(f, k) == IF k = 0 THEN Emptied(w, p)
                      ELSE LET m == w[p][k] IN Add_node(f[k - 1], m, expire[m], now)
           F(f) == [k \in 0..Len(w[p]) |-> G(f, k)]
           Upto(f, j) == \A k \in 0..Len(w[p]) : k <= j => f[k] = G(f, k)
           T == {j \in 0..Len(w[p]) : \E f : Upto(f, j)}
<1>1. ASSUME NEW f, NEW k \in 0..Len(w[p]) PROVE F(f)[k] = G(f, k) OBVIOUS
<1>2. ASSUME NEW f, NEW g, NEW k \in 0..Len(w[p]), k # 0 => f[k - 1] = g[k - 1] PROVE G(f, k) = G(g, k)
  BY <1>2
<1> HIDE DEF F, G
<1>3. 0 \in T
  <2>1. PICK f : f = F([k \in 0..Len(w[p]) |-> 0]) OBVIOUS
  <2>2. \A k \in 0..Len(w[p]) : k <= 0 => f[k] = G(f, k) BY <1>1, <1>2, <2>1
  <2>3. Upto(f, 0) BY <2>2
  <2> HIDE DEF Upto
  <2> QED BY <2>3
<1>4. ASSUME NEW j \in 0..Len(w[p]), j < Len(w[p]), j \in T PROVE j + 1 \in T
  <2>1. PICK f : Upto(f, j) BY <1>4
  <2>2. PICK g : g = F(f) OBVIOUS
  <2>3. ASSUME NEW k \in 0..Len(w[p]), k <= j + 1 PROVE g[k] = G(g, k)
    <3>1. k # 0 => k - 1 \in 0..Len(w[p]) /\ k - 1 <= j BY <2>3
    <3>2. k # 0 => f[k - 1] = g[k - 1] BY <1>1, <2>1, <2>2, <3>1
    <3> QED BY <1>1, <1>2, <2>2, <3>2
  <2>4. Upto(g, j + 1) BY <2>3
  <2> HIDE DEF Upto
  <2> QED BY <1>4, <2>4
<1>5. Len(w[p]) \in T
  <2> HIDE DEF T
  <2>1. \A j \in 0..Len(w[p]) : j \in T BY <1>3, <1>4, Climb
  <2> QED BY <2>1
<1>6. PICK f : Upto(f, Len(w[p])) BY <1>5
<1>7. PICK g : g = F(f) OBVIOUS
<1>8. \A k \in 0..Len(w[p]) : G(f, k) = G(g, k)
  <2> TAKE k \in 0..Len(w[p])
  <2>1. k # 0 => k - 1 \in 0..Len(w[p]) OBVIOUS
  <2>2. k # 0 => f[k - 1] = g[k - 1] BY <1>1, <1>6, <1>7, <2>1
  <2> QED BY <1>2, <2>2
<1>9. g = F(g) BY <1>7, <1>8 DEF F
<1>10. PICK h : h = Moved(w, p, now) OBVIOUS
<1>11. h = F(h)
  <2>1. \E y : y = F(y) BY <1>9
  <2>2. Moved(w, p, now) = F(Moved(w, p, now)) BY <2>1, Zenon DEF Moved, F, G, Emptied
  <2> QED BY <1>10, <2>2
<1>12. \A k \in 0..Len(w[p]) : h[k] = G(h, k) BY <1>1, <1>11
<1>13. h[0] = Emptied(w, p)
  <2>1. 0 \in 0..Len(w[p]) OBVIOUS
  <2> QED BY <1>12, <2>1 DEF G
<1>14. ASSUME NEW k \in 0..Len(w[p]), k < Len(w[p])
       PROVE  h[k + 1] = Add_node(h[k], w[p][k + 1], expire[w[p][k + 1]], now)
  <2>1. k + 1 \in 0..Len(w[p]) /\ k + 1 # 0 /\ (k + 1) - 1 = k BY <1>14
  <2>2. h[k + 1] = G(h, k + 1) BY <1>12, <2>1
  <2> QED BY <2>1, <2>2 DEF G
<1> QED BY <1>10, <1>13, <1>14

\* Timeouts of other lists than p have other times than those of p.
Differ(w, p) ==
    \A q \in Place : \A e \in Entries(w[q]), m \in Entries(w[p]) :
        q # p => expire[e] # expire[m]

\* f is w after the list p was spread at the time now.
Spread(f, w, p, now) ==
    \A q \in Place : \A e :
        e \in Entries(f[q]) <=> \/ q # p /\ e \in Entries(w[q])
                                \/ e \in Entries(w[p]) /\ PlaceOf(expire[e], now) = q

\* Every list of the wheel is in order.
AllRanked(w, b) == \A q \in Place : Ranked(w[q], expire, b)

\* Spreading a list: its timeouts go where the time now wants them, behind those of the same
\* time that were there.
LEMMA SpreadIs ==
    ASSUME NEW w \in Wheels, NEW p \in Place, NEW now \in Nat, NEW b,
           expire \in [Node -> Nat], AllRanked(w, b), Differ(w, p)
    PROVE  LET f == Moved(w, p, now)[Len(w[p])] IN
           f \in Wheels /\ AllRanked(f, b) /\ Spread(f, w, p, now)
<1> USE DEF AllRanked
<1> DEFINE In(q, k, e) == \/ q # p /\ e \in Entries(w[q])
                          \/ \E j \in 1..k : e = w[p][j] /\ PlaceOf(expire[e], now) = q
           Good(f, k) == /\ f \in Wheels
                         /\ \A q \in Place : Ranked(f[q], expire, b)
                         /\ \A q \in Place : \A e : e \in Entries(f[q]) <=> In(q, k, e)
           T == {k \in 0..Len(w[p]) : Good(Moved(w, p, now)[k], k)}
<1>0. /\ w[p] \in Seq(Node) /\ Len(w[p]) \in Nat
      /\ \A k \in 1..Len(w[p]) : w[p][k] \in Node /\ w[p][k] \in Entries(w[p])
  <2>1. w[p] \in Seq(Node) BY DEF Wheels
  <2> QED BY <2>1, LenProperties, ElementOfSeq DEF Entries
<1>1. 0 \in T
  <2>1. PICK f : f = Emptied(w, p) OBVIOUS
  <2>2. PICK s : s = <<>> OBVIOUS
  <2>3. s \in Seq(Node) /\ Len(s) = 0 BY <2>2
  <2>4. f \in Wheels /\ f[p] = s /\ \A q \in Place : q # p => f[q] = w[q] BY <2>1, <2>2, <2>3 DEF Wheels, Emptied
  <2>5. Ranked(s, expire, b) /\ Entries(s) = {} BY <2>3 DEF Ranked, Entries
  <2>6. \A q \in Place : Ranked(f[q], expire, b) BY <2>4, <2>5
  <2>7. \A q \in Place : \A e : e \in Entries(f[q]) <=> In(q, 0, e) BY <2>4, <2>5
  <2>8. Good(f, 0) BY <2>4, <2>6, <2>7
  <2>9. Moved(w, p, now)[0] = f BY <1>0, <2>1, MovedIs
  <2> HIDE DEF Good
  <2> QED BY <1>0, <2>8, <2>9
<1>2. ASSUME NEW k \in 0..Len(w[p]), k < Len(w[p]), k \in T PROVE k + 1 \in T
  <2>1. PICK f : f = Moved(w, p, now)[k] OBVIOUS
  <2>2. Good(f, k) BY <1>2, <2>1
  <2>3. k + 1 \in 1..Len(w[p]) /\ k + 1 \in 0..Len(w[p]) BY <1>0, <1>2
  <2>4. PICK m \in Node : m = w[p][k + 1] BY <1>0, <2>3
  <2>5. expire[m] \in Nat BY <2>4
  <2>6. PICK h \in Place : h = PlaceOf(expire[m], now) BY <2>5, PlaceIn
  <2>7. PICK g : g = Add_node(f, m, expire[m], now) OBVIOUS
  <2>8. /\ g \in Wheels /\ g[h] = Append(f[h], m)
        /\ \A q \in Place : q # h => g[q] = f[q]
    BY <2>2, <2>5, <2>6, <2>7, AddIs
  <2>9. f[h] \in Seq(Node) /\ Ranked(f[h], expire, b) BY <2>2 DEF Wheels
  <2>10. ASSUME NEW e \in Entries(f[h]), expire[e] = expire[m] PROVE <<e, m>> \in b
    <3>1. In(h, k, e) BY <2>2
    <3>2. CASE h # p /\ e \in Entries(w[h]) BY <1>0, <2>3, <2>4, <2>10, <3>2 DEF Differ
    <3>3. CASE \E j \in 1..k : e = w[p][j]
      <4>1. PICK j \in 1..k : e = w[p][j] BY <3>3
      <4>2. j \in 1..Len(w[p]) /\ j < k + 1 BY <2>3
      <4> QED BY <2>3, <2>4, <2>10, <4>1, <4>2 DEF Ranked
    <3> QED BY <3>1, <3>2, <3>3
  <2>11. Entries(g[h]) = Entries(f[h]) \cup {m} /\ Ranked(g[h], expire, b)
    BY <2>8, <2>9, <2>10, AppendRanks
  <2>12. \A q \in Place : Ranked(g[q], expire, b) BY <2>2, <2>8, <2>11
  <2>13. ASSUME NEW q \in Place, NEW e PROVE e \in Entries(g[q]) <=> In(q, k + 1, e)
    <3>1. 1..(k + 1) = 1..k \cup {k + 1} OBVIOUS
    <3>2. In(q, k + 1, e) <=> In(q, k, e) \/ (e = m /\ h = q) BY <2>4, <2>6, <3>1
    <3>3. e \in Entries(f[q]) <=> In(q, k, e) BY <2>2
    <3>4. e \in Entries(g[q]) <=> e \in Entries(f[q]) \/ (e = m /\ h = q) BY <2>8, <2>11
    <3> HIDE DEF In
    <3> QED BY <3>2, <3>3, <3>4
  <2>14. Good(g, k + 1) BY <2>8, <2>12, <2>13
  <2>15. Moved(w, p, now)[k + 1] = g
    <3>1. Moved(w, p, now)[k + 1] =
              Add_node(Moved(w, p, now)[k], w[p][k + 1], expire[w[p][k + 1]], now)
      <4>1. Len(w[p]) \in Nat /\ k \in 0..Len(w[p]) /\ k < Len(w[p]) BY <1>0, <1>2
      <4>2. \A j \in 0..Len(w[p]) : j < Len(w[p]) =>
               Moved(w, p, now)[j + 1] =
                   Add_node(Moved(w, p, now)[j], w[p][j + 1], expire[w[p][j + 1]], now)
        BY <4>1, MovedIs
      <4> QED BY ONLY <4>1, <4>2, Zenon
    <3> QED BY <2>1, <2>4, <2>7, <3>1
  <2> HIDE DEF Good
  <2> QED BY <2>3, <2>14, <2>15
<1>3. Len(w[p]) \in T
  <2> HIDE DEF T
  <2>1. \A k \in 0..Len(w[p]) : k \in T BY <1>0, <1>1, <1>2, Climb
  <2> QED BY <1>0, <2>1
<1>4. PICK f : f = Moved(w, p, now)[Len(w[p])] OBVIOUS
<1>5. Good(f, Len(w[p])) BY <1>3, <1>4
<1>6. Spread(f, w, p, now)
  <2>1. \A q \in Place : \A e : e \in Entries(f[q]) <=> In(q, Len(w[p]), e) BY <1>5
  <2>2. ASSUME NEW q \in Place, NEW e
        PROVE  e \in Entries(f[q]) <=> \/ q # p /\ e \in Entries(w[q])
                                       \/ e \in Entries(w[p]) /\ PlaceOf(expire[e], now) = q
    <3>1. e \in Entries(f[q]) <=> In(q, Len(w[p]), e) BY <2>1
    <3>2. In(q, Len(w[p]), e) <=> \/ q # p /\ e \in Entries(w[q])
                                  \/ e \in Entries(w[p]) /\ PlaceOf(expire[e], now) = q
      BY DEF Entries
    <3> HIDE DEF In
    <3> QED BY <3>1, <3>2
  <2> QED BY <2>2 DEF Spread
<1> QED BY <1>4, <1>5, <1>6

\* The timeouts in the wheel.
Waiting == armed \ Entries(list)

\* The expiry of a pending timeout is what it still has to wait, from now.
TimeInv ==
    /\ time \in Ticks
    /\ expire \in [Node -> Ticks]
    /\ due \in [Node -> 0..MaxDelay]
    /\ armed \subseteq Node
    /\ \A m \in armed : expire[m] = (time + due[m]) % Word
    /\ \A m \in Node : <<m, m>> \notin before

\* Every list of w has the timeouts of A whose place it is at the time now, in order.
Placed(w, A, now) ==
    /\ w \in Wheels
    /\ \A p \in Place : /\ \A m : m \in Entries(w[p]) <=> m \in A /\ PlaceOf(expire[m], now) = p
                        /\ Ranked(w[p], expire, before)
\* The nodes in the hands of the timer thread are those that are due, in order.
ListInv ==
    /\ list \in Seq(Node)
    /\ \A m \in Entries(list) : m \in armed
    /\ \A m \in armed : m \in Entries(list) <=> due[m] = 0
    /\ InOrder

\* The invariant of the timer.
WheelInv == TimeInv /\ Placed(wheel, Waiting, time) /\ ListInv

\* A delay is less than half a word.
LEMMA DelayIs ==
    ASSUME NEW d \in 0..MaxDelay
    PROVE  d \in Nat /\ d * 2 < Word
BY TimerAssumption, MaskIs

\* timer_shift puts every timeout in its place of the next tick.
LEMMA ShiftPlaces ==
    ASSUME TimeInv, Placed(wheel, armed, time), \A m \in armed : due[m] # 0
    PROVE  Placed(Shift(wheel, (time + 1) % Word), armed, (time + 1) % Word)
<1>1. PICK ct \in Ticks : ct = (time + 1) % Word BY Tick DEF TimeInv
<1>2. ct \in Nat /\ time \in Nat /\ time \in Ticks BY MaskIs DEF TimeInv, Ticks
<1>3. wheel \in Wheels /\ expire \in [Node -> Nat]
  BY MaskIs DEF Placed, TimeInv, Ticks
<1>4. ASSUME NEW m \in armed
      PROVE  /\ expire[m] = (time + due[m]) % Word /\ expire[m] \in Nat
             /\ due[m] \in Nat /\ due[m] # 0 /\ due[m] * 2 < Word
  <2>1. m \in Node /\ due[m] \in 0..MaxDelay BY <1>4 DEF TimeInv
  <2> QED BY <1>3, <1>4, <2>1, DelayIs DEF TimeInv
<1>5. ASSUME NEW l \in Level, NEW c, c = (ct \div Mask(l)) % TIME_LEVEL, Reaches(ct, l)
      PROVE  Placed(Move_list(wheel, l, c, ct), armed, ct)
  <2>1. PICK p : p = <<l, c>> OBVIOUS
  <2>2. p \in Place
    <3>1. Mask(l) \in Nat \ {0} /\ TIME_LEVEL \in Nat \ {0} BY MaskIs, Levels, TimerAssumption
    <3>2. ct \div Mask(l) \in Nat BY <1>2, <3>1, DivMod
    <3>3. c \in 0..(TIME_LEVEL - 1) BY <1>5, <3>1, <3>2
    <3> QED BY <2>1, <3>3 DEF Place
  <2>3. PICK f : f = Move_list(wheel, l, c, ct) OBVIOUS
  <2>4. f = Moved(wheel, p, ct)[Len(wheel[p])] BY <2>1, <2>3 DEF Move_list
  <2>5. AllRanked(wheel, before) BY DEF Placed, AllRanked
  <2>6. Differ(wheel, p) BY <2>2 DEF Placed, Differ
  <2>7. f \in Wheels /\ AllRanked(f, before) /\ Spread(f, wheel, p, ct)
    BY <1>2, <1>3, <2>2, <2>4, <2>5, <2>6, SpreadIs
  <2>8. ASSUME NEW m \in armed, PlaceOf(expire[m], time) # p
        PROVE  PlaceOf(expire[m], ct) = PlaceOf(expire[m], time)
    <3>1. PICK d \in Nat : d = due[m] BY <1>4
    <3>2. d # 0 /\ d * 2 < Word /\ expire[m] = (time + d) % Word BY <1>4, <3>1
    <3> QED BY <1>1, <1>2, <1>5, <2>1, <2>8, <3>2, Stays
  <2>9. ASSUME NEW q \in Place, NEW m
        PROVE  m \in Entries(f[q]) <=> m \in armed /\ PlaceOf(expire[m], ct) = q
    <3>1. m \in Entries(wheel[q]) <=> m \in armed /\ PlaceOf(expire[m], time) = q BY DEF Placed
    <3>2. m \in Entries(wheel[p]) <=> m \in armed /\ PlaceOf(expire[m], time) = p BY <2>2 DEF Placed
    <3> QED BY <2>7, <2>8, <3>1, <3>2 DEF Spread
  <2> QED BY <2>3, <2>7, <2>9 DEF Placed, AllRanked
<1>6. CASE ct = 0
  <2>1. 3 \in Level /\ Mask(3) \in Nat \ {0} /\ TIME_LEVEL \in Nat \ {0}
    <3>1. 3 \in Level /\ 3 \in 0..4 BY DEF Level
    <3> QED BY <3>1, MaskIs, TimerAssumption
  <2>2. 0 % Mask(3) = 0 /\ 0 \div Mask(3) = 0 /\ 0 % TIME_LEVEL = 0 BY <2>1
  <2>3. Reaches(ct, 3) /\ 0 = (ct \div Mask(3)) % TIME_LEVEL BY <1>6, <2>2 DEF Reaches
  <2>4. Placed(Move_list(wheel, 3, 0, ct), armed, ct) BY <1>5, <2>1, <2>3
  <2> QED BY <1>1, <1>6, <2>4 DEF Shift
<1>7. CASE ct # 0 /\ Carry(ct) = {}
  <2>1. ct % TIME_NEAR # 0 BY <1>7, NoCarry
  <2>2. \A x \in Nat : PlaceOf(x, ct) = PlaceOf(x, time) BY <1>1, <1>2, <2>1, StaysWhole
  <2>3. \A m \in armed : PlaceOf(expire[m], ct) = PlaceOf(expire[m], time) BY <1>4, <2>2
  <2>4. Shift(wheel, ct) = wheel BY <1>7 DEF Shift
  <2> QED BY <1>1, <2>3, <2>4 DEF Placed
<1>8. CASE ct # 0 /\ Carry(ct) # {}
  <2>1. PICK l : l = CHOOSE j \in Carry(ct) : TRUE OBVIOUS
  <2>2. l \in Carry(ct) BY <1>8, <2>1
  <2>3. l \in Level /\ Reaches(ct, l) BY <1>2, <2>2, CarryReaches
  <2>4. Shift(wheel, ct) = Move_list(wheel, l, (ct \div Mask(l)) % TIME_LEVEL, ct)
    BY <1>8, <2>1 DEF Shift
  <2> QED BY <1>1, <1>5, <2>3, <2>4
<1> QED BY <1>6, <1>7, <1>8

\* timer_execute takes the timeouts of this time, in order.
LEMMA ExecuteTakes ==
    ASSUME TimeInv', NEW w, Placed(w, armed, time'), UNCHANGED <<expire, armed, before>>,
           list' = w[Near(time' % TIME_NEAR)],
           wheel' = [w EXCEPT ![Near(time' % TIME_NEAR)] = <<>>]
    PROVE  WheelInv'
<1>1. PICK now : now = time' OBVIOUS
<1>2. now \in Ticks /\ now \in Nat /\ TIME_NEAR \in Nat \ {0} BY <1>1, MaskIs, TimerAssumption DEF TimeInv, Ticks
<1>3. PICK p \in Place : p = Near(now % TIME_NEAR)
  <2>1. now % TIME_NEAR \in 0..(TIME_NEAR - 1) BY <1>2
  <2> QED BY <2>1 DEF Place, Near
<1>4. w \in Wheels /\ w[p] \in Seq(Node) BY DEF Placed, Wheels
<1>5. ASSUME NEW m \in armed
      PROVE  expire[m] \in Nat /\ (PlaceOf(expire[m], now) = p <=> expire[m] = now)
  <2>1. expire[m] \in Nat BY MaskIs DEF TimeInv, Ticks
  <2> QED BY <1>2, <1>3, <2>1, NearIs
<1>6. \A m : m \in Entries(w[p]) <=> m \in armed /\ expire[m] = now BY <1>1, <1>5 DEF Placed
<1>7. list' = w[p] /\ wheel' = Emptied(w, p) BY <1>1, <1>3 DEF Emptied
<1>8. ListInv'
  <2>1. list' \in Seq(Node) BY <1>4, <1>7
  <2>2. Entries(list)' = Entries(w[p]) BY <1>7 DEF Entries
  <2>3. \A m \in Entries(list)' : m \in armed' BY <1>6, <2>2
  <2>4. ASSUME NEW m \in armed' PROVE m \in Entries(list)' <=> due'[m] = 0
    <3>1. due'[m] \in 0..MaxDelay /\ expire[m] = (now + due'[m]) % Word BY <1>1, <2>4 DEF TimeInv
    <3>2. PICK d \in 0..MaxDelay : d = due'[m] BY <3>1
    <3>3. d \in Nat /\ d * 2 < Word BY DelayIs
    <3>4. (now + d) % Word = now <=> d = 0 BY <1>2, <3>3, Expiry
    <3> QED BY <1>6, <2>2, <2>4, <3>1, <3>2, <3>4
  <2>5. InOrder'
    <3>1. Ranked(w[p], expire, before) BY DEF Placed
    <3>2. Len(w[p]) \in Nat /\ DOMAIN w[p] = 1..Len(w[p]) BY <1>4, LenProperties
    <3>3. ASSUME NEW j \in 1..Len(w[p]), NEW k \in 1..Len(w[p]), j < k
          PROVE  <<w[p][j], w[p][k]>> \in before
      <4>1. w[p][j] \in Entries(w[p]) /\ w[p][k] \in Entries(w[p]) BY DEF Entries
      <4>2. expire[w[p][j]] = expire[w[p][k]] BY <1>6, <4>1
      <4> QED BY <3>1, <3>3, <4>2 DEF Ranked
    <3> QED BY <1>7, <3>2, <3>3 DEF InOrder
  <2> QED BY <2>1, <2>3, <2>4, <2>5 DEF ListInv
<1>9. Placed(wheel, Waiting, time)'
  <2>1. PICK s : s = <<>> OBVIOUS
  <2>2. s \in Seq(Node) /\ Len(s) = 0 BY <2>1
  <2>3. Entries(s) = {} /\ Ranked(s, expire, before) BY <2>2 DEF Entries, Ranked
  <2>4. wheel' \in Wheels /\ wheel'[p] = s /\ \A q \in Place : q # p => wheel'[q] = w[q]
    BY <1>4, <1>7, <2>1, <2>2 DEF Wheels, Emptied
  <2>5. \A m : m \in Waiting' <=> m \in armed /\ expire[m] # now
    <3>1. Waiting' = armed \ Entries(w[p]) BY <1>7 DEF Waiting, Entries
    <3> QED BY <1>6, <3>1
  <2>6. ASSUME NEW q \in Place
        PROVE  /\ \A m : m \in Entries(wheel'[q]) <=> m \in Waiting' /\ PlaceOf(expire[m], now) = q
               /\ Ranked(wheel'[q], expire, before)
    <3>1. CASE q = p BY <1>5, <2>3, <2>4, <2>5, <3>1
    <3>2. CASE q # p
      <4>1. \A m : m \in Entries(w[q]) <=> m \in armed /\ PlaceOf(expire[m], now) = q BY <1>1 DEF Placed
      <4>2. Ranked(w[q], expire, before) BY DEF Placed
      <4>3. \A m \in armed : PlaceOf(expire[m], now) = q => expire[m] # now BY <1>5, <3>2
      <4> QED BY <2>4, <2>5, <3>2, <4>1, <4>2, <4>3
    <3> QED BY <3>1, <3>2
  <2>7. \A q \in Place :
            /\ \A m : m \in Entries(wheel'[q]) <=> m \in Waiting' /\ PlaceOf(expire[m], time') = q
            /\ Ranked(wheel'[q], expire, before)
    BY <1>1, <2>6
  <2>8. expire' = expire /\ before' = before OBVIOUS
  <2> QED BY <2>4, <2>7, <2>8 DEF Placed
<1> QED BY <1>8, <1>9 DEF WheelInv

\* timer_create_timer
LEMMA WheelInit == Create_timer => WheelInv
<1> SUFFICES ASSUME Create_timer PROVE WheelInv OBVIOUS
<1>1. PICK s : s = <<>> OBVIOUS
<1>2. s \in Seq(Node) /\ Len(s) = 0 /\ DOMAIN s = {} BY <1>1
<1>3. \A b : Entries(s) = {} /\ Ranked(s, expire, b) BY <1>2 DEF Entries, Ranked
<1>4. time \in Ticks /\ 0 \in Ticks /\ 0 \in 0..MaxDelay BY MaskIs, TimerAssumption DEF Create_timer, Ticks
<1>5. TimeInv BY <1>4 DEF TimeInv, Create_timer
<1>6. list = s /\ wheel \in Wheels /\ \A p \in Place : wheel[p] = s
  BY <1>1, <1>2 DEF Create_timer, Wheels
<1>7. Placed(wheel, Waiting, time)
  <2>1. Waiting = {} BY DEF Waiting, Create_timer
  <2> QED BY <1>3, <1>6, <2>1 DEF Placed
<1>8. ListInv BY <1>2, <1>3, <1>6 DEF ListInv, InOrder, Create_timer
<1> QED BY <1>5, <1>7, <1>8 DEF WheelInv

\* skynet_timeout
LEMMA TimeoutKeeps ==
    ASSUME WheelInv, NEW m \in Node, NEW d \in 1..MaxDelay, Timeout(m, d)
    PROVE  WheelInv'
<1>0. TimeInv /\ Placed(wheel, Waiting, time) /\ ListInv BY DEF WheelInv
<1>1. d \in 0..MaxDelay /\ d # 0 BY TimerAssumption
<1>2. d \in Nat /\ d * 2 < Word BY <1>1, DelayIs
<1>3. d + time = time + d /\ time \in Ticks /\ time \in Nat BY <1>0, <1>2, MaskIs DEF TimeInv, Ticks
<1>4. PICK x \in Ticks : x = (d + time) % Word BY <1>2, <1>3, Expiry
<1>5. x \in Nat BY MaskIs DEF Ticks
<1>6. /\ m \notin armed /\ time' = time /\ list' = list
      /\ expire' = [expire EXCEPT ![m] = x]
      /\ wheel' = Add_node(wheel, m, x, time)
      /\ due' = [due EXCEPT ![m] = d]
      /\ armed' = armed \cup {m}
      /\ before' = before \cup (armed \X {m})
  BY <1>4 DEF Timeout
<1>7. /\ expire'[m] = x /\ \A e \in armed : e # m /\ e \in Node /\ expire'[e] = expire[e]
      /\ due'[m] = d /\ \A e \in armed : due'[e] = due[e]
  BY <1>0, <1>6 DEF TimeInv
<1>8. TimeInv'
  <2>1. expire' \in [Node -> Ticks] /\ due' \in [Node -> 0..MaxDelay] /\ armed' \subseteq Node
    BY <1>0, <1>1, <1>6 DEF TimeInv
  <2>2. \A e \in armed' : expire'[e] = (time' + due'[e]) % Word BY <1>0, <1>3, <1>4, <1>6, <1>7 DEF TimeInv
  <2>3. \A e \in Node : <<e, e>> \notin before' BY <1>0, <1>6 DEF TimeInv
  <2> QED BY <1>3, <1>6, <2>1, <2>2, <2>3 DEF TimeInv
<1>9. ListInv'
  <2>1. m \notin Entries(list) BY <1>0, <1>6 DEF ListInv
  <2>2. InOrder' BY <1>0, <1>6 DEF ListInv, InOrder
  <2> QED BY <1>0, <1>1, <1>6, <1>7, <2>1, <2>2 DEF ListInv
<1>10. PICK h \in Place : h = PlaceOf(x, time) BY <1>3, <1>5, PlaceIn
<1>11. wheel \in Wheels BY <1>0 DEF Placed
<1>12. /\ wheel'[h] = Append(wheel[h], m) /\ wheel' \in Wheels
       /\ \A p \in Place : p # h => wheel'[p] = wheel[p]
  BY <1>3, <1>5, <1>6, <1>10, <1>11, AddIs
<1>13. \A p \in Place : \A e \in Entries(wheel[p]) : e \in armed BY <1>0 DEF Placed, Waiting
<1>14. ASSUME NEW p \in Place PROVE Ranked(wheel[p], expire', before')
  <2>1. Ranked(wheel[p], expire, before) BY <1>0 DEF Placed
  <2>2. \A k \in 1..Len(wheel[p]) : wheel[p][k] \in armed BY <1>13 DEF Entries
  <2>3. \A j, k \in 1..Len(wheel[p]) : /\ expire'[wheel[p][j]] = expire[wheel[p][j]]
                                       /\ expire'[wheel[p][k]] = expire[wheel[p][k]]
    BY <1>7, <2>2
  <2>4. \A r \in before : r \in before' BY <1>6
  <2> QED BY <2>1, <2>3, <2>4 DEF Ranked
<1>15. Entries(wheel'[h]) = Entries(wheel[h]) \cup {m} /\ Ranked(wheel'[h], expire', before')
  <2>1. wheel[h] \in Seq(Node) BY <1>11 DEF Wheels
  <2>2. \A e \in Entries(wheel[h]) : <<e, m>> \in before' BY <1>6, <1>13
  <2>3. Ranked(wheel[h], expire', before') BY <1>14
  <2>4. PICK y, b : y = expire' /\ b = before' OBVIOUS
  <2>5. Ranked(wheel[h], y, b) /\ \A e \in Entries(wheel[h]) : y[e] = y[m] => <<e, m>> \in b
    BY <2>2, <2>3, <2>4
  <2>6. Entries(Append(wheel[h], m)) = Entries(wheel[h]) \cup {m} /\ Ranked(Append(wheel[h], m), y, b)
    BY <2>1, <2>5, AppendRanks
  <2> QED BY <1>12, <2>4, <2>6
<1>16. \A e : e \in Waiting' <=> e \in Waiting \/ e = m
  <2>1. m \notin Entries(list) BY <1>0, <1>6 DEF ListInv
  <2> QED BY <1>6, <2>1 DEF Waiting
<1>17. ASSUME NEW p \in Place, NEW e
       PROVE  e \in Entries(wheel'[p]) <=> e \in Waiting' /\ PlaceOf(expire'[e], time) = p
  <2>1. e \in Entries(wheel[p]) <=> e \in Waiting /\ PlaceOf(expire[e], time) = p BY <1>0 DEF Placed
  <2>2. e \in Waiting => expire'[e] = expire[e] /\ e # m BY <1>7 DEF Waiting
  <2>3. e \in Entries(wheel'[p]) <=> e \in Entries(wheel[p]) \/ (e = m /\ p = h) BY <1>12, <1>15
  <2>4. PlaceOf(expire'[m], time) = h BY <1>7, <1>10
  <2> QED BY <1>16, <2>1, <2>2, <2>3, <2>4
<1>18. \A p \in Place : Ranked(wheel'[p], expire', before') BY <1>12, <1>14, <1>15
<1>19. Placed(wheel, Waiting, time)' BY <1>6, <1>12, <1>17, <1>18 DEF Placed
<1> QED BY <1>8, <1>9, <1>19 DEF WheelInv

\* When nothing is left to dispatch, nothing pending is due.
LEMMA NothingTaken ==
    ASSUME WheelInv, list = <<>>
    PROVE  Placed(wheel, armed, time) /\ \A m \in armed : due[m] # 0
<1>1. Entries(list) = {} BY DEF Entries
<1>2. Waiting = armed BY <1>1 DEF Waiting
<1> QED BY <1>1, <1>2 DEF WheelInv, ListInv

\* timer_update: the first timer_execute finds nothing, or the time goes on by a tick.
LEMMA UpdateKeeps ==
    ASSUME WheelInv, Update
    PROVE  WheelInv'
<1>0. TimeInv /\ Placed(wheel, armed, time) /\ \A m \in armed : due[m] # 0
  BY NothingTaken DEF WheelInv, Update
<1>1. UNCHANGED <<expire, armed, before>> BY DEF Update
<1>2. CASE wheel[Near(time % TIME_NEAR)] # <<>>
  <2>1. Execute(wheel, time, "first", "first") /\ time' = time /\ due' = due BY <1>2 DEF Update
  <2>2. TimeInv' BY <1>0, <1>1, <2>1 DEF TimeInv
  <2> QED BY <1>0, <1>1, <2>1, <2>2, ExecuteTakes DEF Execute
<1>3. CASE wheel[Near(time % TIME_NEAR)] = <<>>
  <2>1. PICK ct \in Ticks : ct = (time + 1) % Word BY <1>0, Tick DEF TimeInv
  <2>2. /\ time' = ct
        /\ due' = [m \in Node |-> IF m \in armed THEN due[m] - 1 ELSE due[m]]
        /\ ExecuteLast(Shift(wheel, ct), ct)
    BY <1>3, <2>1 DEF Update
  <2>3. Placed(Shift(wheel, ct), armed, ct) BY <1>0, <2>1, ShiftPlaces
  <2>4. ASSUME NEW m \in armed
        PROVE  due'[m] \in 0..MaxDelay /\ expire[m] = (ct + due'[m]) % Word
    <3>1. m \in Node /\ due[m] \in 0..MaxDelay /\ due[m] # 0 /\ expire[m] = (time + due[m]) % Word
      BY <1>0 DEF TimeInv
    <3>2. PICK d \in 0..MaxDelay : d = due[m] BY <3>1
    <3>3. due'[m] = d - 1 /\ d - 1 \in 0..MaxDelay BY <2>2, <3>1, <3>2, TimerAssumption
    <3>4. (time + d) % Word = (ct + (d - 1)) % Word
      <4>0. d \in Nat /\ d - 1 \in Nat /\ time \in Nat /\ Word \in Nat \ {0} /\ ct \in Nat
        BY <1>0, <3>1, <3>2, <3>3, MaskIs, TimerAssumption DEF TimeInv, Ticks
      <4>1. CASE ct # 0
        <5>1. ct = time + 1 BY <1>0, <2>1, <4>1, Tick DEF TimeInv
        <5>2. ct + (d - 1) = time + d BY <4>0, <5>1
        <5> QED BY <5>2
      <4>2. CASE ct = 0
        <5>1. time + 1 = Word BY <1>0, <2>1, <4>2, Tick DEF TimeInv
        <5>2. time + d = (d - 1) + Word /\ ct + (d - 1) = d - 1 BY <4>0, <4>2, <5>1
        <5>3. Word % Word = 0 BY <4>0
        <5>4. ((d - 1) + Word) % Word = (d - 1) % Word BY <4>0, <5>3, ModPlus
        <5> QED BY <5>2, <5>4
      <4> QED BY <4>1, <4>2
    <3> QED BY <3>1, <3>2, <3>3, <3>4
  <2>5. TimeInv'
    <3>1. due' \in [Node -> 0..MaxDelay] BY <1>0, <2>2, <2>4 DEF TimeInv
    <3> QED BY <1>0, <1>1, <2>2, <2>4, <3>1 DEF TimeInv
  <2> QED BY <1>1, <2>2, <2>3, <2>5, ExecuteTakes DEF ExecuteLast, Execute
<1> QED BY <1>2, <1>3

\* timer_execute: nothing that is due was added while the lock was given away.
LEMMA RelockKeeps ==
    ASSUME WheelInv, Relock
    PROVE  WheelInv'
<1>1. TimeInv /\ Placed(wheel, armed, time) BY NothingTaken DEF WheelInv, Relock
<1>2. TimeInv' BY <1>1 DEF TimeInv, Relock
<1> QED BY <1>1, <1>2, ExecuteTakes DEF Relock, ExecuteLast, Execute

\* dispatch_list: the first node goes, the others stay in order.
LEMMA DispatchKeeps ==
    ASSUME WheelInv, Dispatch
    PROVE  WheelInv'
<1>0. TimeInv /\ Placed(wheel, Waiting, time) /\ ListInv BY DEF WheelInv
<1>1. /\ list # <<>> /\ list' = Tail(list)
      /\ armed' = armed \ {Head(list)}
      /\ before' = {r \in before : Head(list) \notin {r[1], r[2]}}
      /\ UNCHANGED <<time, wheel, expire, due>>
  BY DEF Dispatch
<1>2. /\ Len(list) \in Nat /\ Len(list) >= 1 /\ DOMAIN list = 1..Len(list)
      /\ \A k \in 1..Len(list) : list[k] \in Node /\ list[k] \in Entries(list)
  <2>1. list \in Seq(Node) BY <1>0 DEF ListInv
  <2> QED BY <1>1, <2>1, LenProperties, ElementOfSeq, EmptySeq DEF Entries
<1>3. PICK h : h = list[1] OBVIOUS
<1>4. PICK t \in Seq(Node) : t = Tail(list) BY <1>0, <1>1, HeadTailProperties DEF ListInv
<1>5. /\ Len(t) = Len(list) - 1 /\ DOMAIN t = 1..Len(t) /\ Head(list) = h
      /\ \A k \in 1..Len(t) : t[k] = list[k + 1]
  BY <1>0, <1>1, <1>2, <1>3, <1>4, HeadTailProperties, LenProperties DEF ListInv
<1>6. \A j, k \in 1..Len(list) : j < k => <<list[j], list[k]>> \in before
  BY <1>0, <1>2 DEF ListInv, InOrder
<1>7. \A k \in 1..Len(t) : k + 1 \in 1..Len(list) /\ 1 < k + 1 BY <1>2, <1>5
<1>8. \A k \in 1..Len(t) : t[k] # h
  <2> TAKE k \in 1..Len(t)
  <2>1. <<list[1], list[k + 1]>> \in before BY <1>2, <1>6, <1>7
  <2>2. list[1] \in Node BY <1>2
  <2> QED BY <1>0, <1>3, <1>5, <2>1, <2>2 DEF TimeInv
<1>9. \A e : e \in Entries(list) <=> e = h \/ e \in Entries(t)
  <2> TAKE e
  <2>1. ASSUME e \in Entries(list) PROVE e = h \/ e \in Entries(t)
    <3>1. PICK k \in 1..Len(list) : e = list[k] BY <2>1 DEF Entries
    <3>2. CASE k = 1 BY <1>3, <3>1, <3>2
    <3>3. CASE k # 1
      <4>1. k - 1 \in 1..Len(t) /\ (k - 1) + 1 = k BY <1>2, <1>5, <3>3
      <4>2. t[k - 1] = e BY <1>5, <3>1, <4>1
      <4> QED BY <4>1, <4>2 DEF Entries
    <3> QED BY <3>2, <3>3
  <2>2. ASSUME e = h PROVE e \in Entries(list)
    <3>1. 1 \in 1..Len(list) BY <1>2
    <3> QED BY <1>2, <1>3, <2>2, <3>1
  <2>3. ASSUME e \in Entries(t) PROVE e \in Entries(list)
    <3>1. PICK k \in 1..Len(t) : e = t[k] BY <2>3 DEF Entries
    <3> QED BY <1>2, <1>5, <1>7, <3>1
  <2> QED BY <2>1, <2>2, <2>3
<1>10. h \notin Entries(t) BY <1>8 DEF Entries
<1>11. TimeInv' BY <1>0, <1>1 DEF TimeInv
<1>12. ListInv'
  <2>1. ASSUME NEW j \in 1..Len(t), NEW k \in 1..Len(t), j < k PROVE <<t[j], t[k]>> \in before'
    <3>1. <<list[j + 1], list[k + 1]>> \in before BY <1>6, <1>7, <2>1
    <3>2. <<t[j], t[k]>> \in before BY <1>5, <3>1
    <3> QED BY <1>1, <1>5, <1>8, <3>2
  <2>2. InOrder' BY <1>1, <1>4, <1>5, <2>1 DEF InOrder
  <2> QED BY <1>0, <1>1, <1>4, <1>5, <1>9, <1>10, <2>2 DEF ListInv
<1>13. Placed(wheel, Waiting, time)'
  <2>1. \A e : e \in Waiting' <=> e \in Waiting
    <3>1. Waiting' = armed' \ Entries(t) BY <1>1, <1>4 DEF Waiting
    <3> QED BY <1>1, <1>5, <1>9, <3>1 DEF Waiting
  <2>2. ASSUME NEW p \in Place PROVE Ranked(wheel[p], expire, before')
    <3>1. \A k \in 1..Len(wheel[p]) : wheel[p][k] # h
      <4>1. \A k \in 1..Len(wheel[p]) : wheel[p][k] \in Entries(wheel[p]) BY DEF Entries
      <4>2. \A e \in Entries(wheel[p]) : e \notin Entries(list) BY <1>0 DEF Placed, Waiting
      <4> QED BY <1>9, <4>1, <4>2
    <3>2. Ranked(wheel[p], expire, before) BY <1>0 DEF Placed
    <3> QED BY <1>1, <1>5, <3>1, <3>2 DEF Ranked
  <2> QED BY <1>0, <1>1, <2>1, <2>2 DEF Placed
<1> QED BY <1>11, <1>12, <1>13 DEF WheelInv

\* The invariant is inductive.
LEMMA WheelStep ==
    ASSUME WheelInv, [TimerNext]_timerVars
    PROVE  WheelInv'
<1>1. ASSUME NEW m \in Node, NEW d \in 1..MaxDelay, Timeout(m, d) PROVE WheelInv' BY <1>1, TimeoutKeeps
<1>2. ASSUME UNCHANGED <<time, wheel, expire, list, due, armed, before>> PROVE WheelInv'
  BY <1>2 DEF WheelInv, TimeInv, Placed, ListInv, InOrder, Waiting
<1>3. ASSUME NEW d \in 1..MaxDiff, Updatetime(d) PROVE WheelInv' BY <1>2, <1>3 DEF Updatetime
<1>4. CASE UNCHANGED timerVars BY <1>2, <1>4 DEF timerVars
<1> QED BY <1>1, <1>3, <1>4, UpdateKeeps, DispatchKeeps, RelockKeeps DEF TimerNext

\* Every pending timeout that is not yet due is in the list that add_node would choose for
\* it now, and every list has the timeouts of one tick in the order of the calls.
LEMMA WheelInvHolds == TimerSpec => []WheelInv
BY WheelInit, WheelStep, PTL DEF TimerSpec

\* skynet_timer.c, for every size of its wheel and every delay below half of the word: a
\* timeout of d ticks is taken out by the d-th tick and not before, whatever levels it
\* passed through and whether or not the word wrapped.
THEOREM OnTimeHolds == TimerSpec => []OnTime
<1>1. WheelInv => OnTime
  <2> SUFFICES ASSUME WheelInv PROVE OnTime OBVIOUS
  <2>1. DOMAIN list = 1..Len(list) BY LenProperties DEF WheelInv, ListInv
  <2> QED BY <2>1 DEF WheelInv, ListInv, OnTime, Entries
<1> QED BY <1>1, WheelInvHolds, PTL

\* skynet_timer.c, for every size of its wheel: timeouts that fall due in one tick are
\* dispatched in the order in which they were added, although timer_shift brings them
\* together from different levels.
THEOREM InOrderHolds == TimerSpec => []InOrder
<1>1. WheelInv => InOrder BY DEF WheelInv, ListInv
<1> QED BY <1>1, WheelInvHolds, PTL
=============================================================================

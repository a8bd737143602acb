------------------------ MODULE RomCodeScannerProofs ------------------------
(***************************************************************************)
(* What the search returns, whatever the width of the codes: the codes of  *)
(* real devices only, in whatever moments they are unplugged; with up to   *)
(* two devices all of them, each once; with three, all of them if it ends. *)
(***************************************************************************)
EXTENDS RomCodeScanner, FiniteSetTheorems, WellFoundedInduction, TLAPS

-----------------------------------------------------------------------------
(* The inductive invariant. *)

\* d sends what has been chosen so far.
Agrees(d) == \A i \in Position : i < n => d[i] = buf[i]

Types == /\ devices \subseteq connected /\ connected \subseteq Code
         /\ taking_part \subseteq devices
         /\ n \in -1..Width
         /\ buf \in [Position -> {0, 1}]
         /\ prev_discrepancy_ \in -1..(Width - 1)
         /\ curr_discrepancy_ \in -1..(Width - 1)

\* The devices that take part are those that agree with the code so far.
PartAgrees == n # Between => \A d \in taking_part : Agrees(d)

\* The code so far is the beginning of that of some device there was, even when
\* none takes part any more.
PrefixIsReal == n # Between => \E d \in connected : Agrees(d)

IInv == Types /\ PartAgrees /\ PrefixIsReal /\ OnlyConnectedDevices

-----------------------------------------------------------------------------
\* Whether the devices agree or not, the bit chosen is one that some device sends.
LEMMA BitLemma ==
  ASSUME Types, AtBit, Agreement \/ Resolve \/ Discover \/ Follow
  PROVE  \E b \in {0, 1} : Choose(b) /\ \E d \in taking_part : d[n] = b
<1>1. n \in Position
  BY DEF AtBit
<1>2. \A d \in taking_part : d[n] \in {0, 1}
  BY <1>1 DEF Types, Code
<1>3. ASSUME Discrepancy, NEW b \in {0, 1} PROVE \E d \in taking_part : d[n] = b
  BY <1>2, <1>3 DEF Discrepancy, AllSend
<1>4. CASE Agreement
  BY <1>2, <1>4 DEF Agreement, AllSend
<1>5. CASE Resolve
  BY <1>3, <1>5 DEF Resolve
<1>6. CASE Discover
  BY <1>3, <1>6 DEF Discover
<1>7. CASE Follow
  <2>1. prev_discrepancy_ \in Position
    BY <1>7, WidthAssumption DEF Follow, Types, Position
  <2>2. buf[prev_discrepancy_] \in {0, 1}
    BY <2>1 DEF Types
  <2> QED BY <1>3, <1>7, <2>2 DEF Follow
<1> QED BY <1>4, <1>5, <1>6, <1>7

\* A choice keeps the devices that go on in agreement with the code so far.
LEMMA ChooseLemma ==
  ASSUME IInv, AtBit, NEW b \in {0, 1}, Choose(b),
         \E d \in taking_part : d[n] = b,
         UNCHANGED given
  PROVE  /\ n' \in -1..Width /\ buf' \in [Position -> {0, 1}]
         /\ taking_part' \subseteq devices'
         /\ PartAgrees' /\ PrefixIsReal' /\ OnlyConnectedDevices'
<1>1. n \in Position /\ n \in Int /\ n' = n + 1
  BY DEF AtBit, Choose, Position
<1>2. /\ buf' \in [Position -> {0, 1}]
      /\ \A i \in Position : buf'[i] = IF i = n THEN b ELSE buf[i]
  BY <1>1 DEF IInv, Types, Choose
<1>3. ASSUME NEW d \in taking_part, d[n] = b PROVE Agrees(d)'
  <2>1. Agrees(d)
    BY <1>1 DEF IInv, PartAgrees, Between, Position
  <2>2. \A i \in Position : i < n' => i < n \/ i = n
    BY <1>1 DEF Position
  <2> QED BY <1>2, <1>3, <2>1, <2>2 DEF Agrees
<1>4. PartAgrees'
  BY <1>3 DEF PartAgrees, Choose
<1>5. taking_part' \subseteq devices' /\ taking_part \subseteq connected'
  BY DEF IInv, Types, Choose, given
<1>6. PrefixIsReal'
  BY <1>3, <1>5 DEF PrefixIsReal
<1>7. n' \in -1..Width
  BY <1>1, WidthAssumption DEF Position
<1> QED
  BY <1>2, <1>4, <1>5, <1>6, <1>7 DEF IInv, OnlyConnectedDevices, Choose, ends, given

LEMMA InitLemma == Init => IInv
BY WidthAssumption
   DEF Init, IInv, Types, PartAgrees, PrefixIsReal, OnlyConnectedDevices, Between

LEMMA StepLemma == IInv /\ [Next]_vars => IInv'
<1> SUFFICES ASSUME IInv, [Next]_vars PROVE IInv'
  OBVIOUS
<1> USE DEF IInv
<1>1. CASE NoMoreCodes
  BY <1>1 DEF NoMoreCodes, End, scanVars, memory, given, Types, PartAgrees,
              PrefixIsReal, Agrees, OnlyConnectedDevices
<1>2. CASE BusReset
  <2>1. CASE UNCHANGED scanVars
    BY <1>2, <2>1 DEF BusReset, End, scanVars, memory, ends, given, Types, PartAgrees,
                      PrefixIsReal, Agrees, OnlyConnectedDevices
  <2>2. CASE /\ devices # {} /\ taking_part' = devices /\ n' = 0
             /\ buf' = [i \in Position |-> 0] /\ UNCHANGED ends
    <3>1. \A d : Agrees(d)'
      BY <2>2 DEF Agrees, Position
    <3>2. UNCHANGED <<devices, connected, prev_discrepancy_, curr_discrepancy_, found>>
      BY <1>2, <2>2 DEF BusReset, memory, given, ends
    <3> QED BY <2>2, <3>1, <3>2, WidthAssumption
            DEF Types, PartAgrees, PrefixIsReal, OnlyConnectedDevices
  <2> QED BY <1>2, <2>1, <2>2 DEF BusReset
<1>3. CASE UNCHANGED given /\ (Agreement \/ Resolve \/ Discover \/ Follow)
  <2>1. AtBit
    BY <1>3 DEF Agreement, Resolve, Discover, Follow
  <2>2. PICK b \in {0, 1} : Choose(b) /\ \E d \in taking_part : d[n] = b
    BY <1>3, <2>1, BitLemma
  <2>3. /\ n' \in -1..Width /\ buf' \in [Position -> {0, 1}]
        /\ taking_part' \subseteq devices'
        /\ PartAgrees' /\ PrefixIsReal' /\ OnlyConnectedDevices'
    BY <1>3, <2>1, <2>2, ChooseLemma
  <2>4. n \in 0..(Width - 1)
    BY <2>1 DEF AtBit, Position
  <2>5. prev_discrepancy_' \in -1..(Width - 1) /\ curr_discrepancy_' \in -1..(Width - 1)
    BY <1>3, <2>4, WidthAssumption
       DEF Types, Agreement, Resolve, Discover, Follow, memory
  <2> QED BY <1>3, <2>3, <2>5 DEF Types, given
<1>4. CASE UNCHANGED given /\ (Silence \/ AssertionFails)
  BY <1>4 DEF Silence, AssertionFails, End, scanVars, memory, given, Types, PartAgrees,
              PrefixIsReal, Agrees, OnlyConnectedDevices
<1>5. CASE CodeRead
  <2>1. PICK d \in connected : Agrees(d)
    BY <1>5, WidthAssumption DEF CodeRead, PrefixIsReal, Between
  <2>2. \A i \in Position : d[i] = buf[i]
    BY <1>5, <2>1, WidthAssumption DEF Agrees, CodeRead, Position
  <2>3. d = buf
    BY <2>1, <2>2 DEF Types, Code
  <2> QED BY <1>5, <2>1, <2>3
          DEF CodeRead, given, Types, PartAgrees, PrefixIsReal, OnlyConnectedDevices,
              Between
<1>6. ASSUME NEW d \in devices, Unplug(d) PROVE IInv'
  <2>1. UNCHANGED <<connected, n, buf, prev_discrepancy_, curr_discrepancy_, found>>
    BY <1>6 DEF Unplug, memory, ends
  <2>2. taking_part' \subseteq devices' /\ taking_part' \subseteq taking_part
        /\ devices' \subseteq connected
    BY <1>6 DEF Unplug, Types
  <2>3. \A e : Agrees(e)' <=> Agrees(e)
    BY <2>1 DEF Agrees
  <2> QED BY <2>1, <2>2, <2>3 DEF Types, PartAgrees, PrefixIsReal, OnlyConnectedDevices
<1>7. CASE BusFails
  BY <1>7 DEF BusFails, End, scanVars, memory, Types, PartAgrees, PrefixIsReal, Agrees,
              OnlyConnectedDevices
<1>8. CASE UNCHANGED vars
  BY <1>8 DEF vars, scanVars, memory, ends, given, Types, PartAgrees, PrefixIsReal,
              Agrees, OnlyConnectedDevices
<1> QED
  BY <1>1, <1>2, <1>3, <1>4, <1>5, <1>6, <1>7, <1>8 DEF Next, Scan, OneBit

-----------------------------------------------------------------------------
\* Every code the scanner returns is that of a device that was on the bus.
THEOREM CodesAreReal == Spec => []OnlyConnectedDevices
<1>1. IInv => OnlyConnectedDevices
  BY DEF IInv
<1> QED BY <1>1, InitLemma, StepLemma, PTL DEF Spec

-----------------------------------------------------------------------------
(* What the scanner remembers and who takes part, by how far the scan is.  *)

\* As long as nothing disturbs the bus, D is what is on it.
Quiet(D) == ~disturbed /\ devices = D /\ connected = D

\* From position i up to j, after the codes F have been found: the devices D take part,
\* and the scanner remembers two positions and a count.
Phase(F, i, j, prev, curr, count, D) ==
  /\ found = F
  /\ i <= n /\ n <= j
  /\ prev_discrepancy_ = prev /\ curr_discrepancy_ = curr /\ conflict_count_ = count
  /\ n # Between => taking_part = D

Searching == Running /\ ~finished_ /\ wanted \notin found
AllFound(D) == /\ found = D /\ finished_ /\ n = Between
               /\ outcome \in {"running", "NoData"} /\ wanted \notin D

\* The current discrepancy after the one at p has been resolved, p being the only one.
Resolved(p) == IF p = 0 THEN -1 ELSE p

\* No device: the first reset fails.
NoneInv == /\ ~repeated /\ found = {} /\ ~finished_ /\ n = Between
           /\ outcome \in {"running", "Error"}

\* One device.
OneInv(z) ==
  /\ ~repeated
  /\ \/ Searching /\ Phase({}, Between, Width, -1, -1, 0, {z})
     \/ AllFound({z})
     \/ outcome = "Found" /\ wanted = z

\* Two devices differ first at p, where z has 0 and o has 1.
Fork(z, o, p) == /\ p \in Position /\ z[p] = 0 /\ o[p] = 1
                 /\ \A i \in Position : i < p => z[i] = o[i]
TwoInv(z, o, p) ==
  /\ ~repeated
  /\ \/ /\ Searching
        /\ \/ Phase({}, Between, p, -1, -1, 0, {z, o})
           \/ Phase({}, p + 1, Width, p, p, 1, {z})
           \/ Phase({z}, Between, p, p, p, 1, {z, o})
           \/ Phase({z}, p + 1, Width, p, Resolved(p), 0, {o})
     \/ AllFound({z, o})
     \/ outcome = "Found" /\ wanted \in {z, o}

\* Three devices: x and y differ first at q, where x has 0 and y has 1, and both differ
\* from l at p, before it.
Forks(x, y, l, p, q) == /\ Fork(x, y, q) /\ p \in Position /\ p < q
                        /\ x[p] # l[p] /\ \A i \in Position : i < p => x[i] = l[i]

\* l has the 1: the search goes to x, from there to y, and to l in the end.
LastInv(x, y, l, p, q) ==
  \/ /\ Searching
     /\ \/ Phase({}, Between, p, -1, -1, 0, {x, y, l})
        \/ Phase({}, p + 1, q, p, p, 1, {x, y})
        \/ Phase({}, q + 1, Width, p, q, 2, {x})
        \/ Phase({x}, Between, p, p, q, 2, {x, y, l})
        \/ Phase({x}, p + 1, q, p, q, 2, {x, y})
        \/ Phase({x}, q + 1, Width, p, p, 1, {y})
        \/ Phase({x, y}, Between, p, p, p, 1, {x, y, l})
        \/ Phase({x, y}, p + 1, Width, p, Resolved(p), 0, {l})
  \/ AllFound({x, y, l})
  \/ outcome = "Found" /\ wanted \in {x, y, l}

\* l has the 0 and is found first.  What the scanner remembers of p is lost on the way to
\* x, so that it comes back to l for ever, or panics: it never says that it has finished.
FirstInv(x, y, l, p, q) ==
  \/ /\ Running /\ ~finished_
     /\ \/ Phase({}, Between, p, -1, -1, 0, {x, y, l})
        \/ Phase({}, p + 1, Width, p, p, 1, {l})
        \/ Phase({l}, Between, p, p, p, 1, {x, y, l})
        \/ Phase({l}, p + 1, q, p, Resolved(p), 0, {x, y})
        \/ Phase({l}, q + 1, Width, Resolved(p), q, 1, {x})
        \/ Phase({l, x}, Between, p, Resolved(p), q, 1, {x, y, l})
        \/ Phase({l, x}, p + 1, Width, p, q, 1, {l}) /\ p > 0
  \/ outcome \in {"Found", "panic"}

\* The buffer is cleared before a scan, and filled bit by bit.
Cleared == n # Between => \A i \in Position : n <= i => buf[i] = 0

-----------------------------------------------------------------------------
(* What a step does to a phase.                                            *)

\* On a bus that is not disturbed, it is the search that steps.
LEMMA QuietStep ==
  ASSUME NEW D, [Next]_vars, Quiet(D)'
  PROVE  Quiet(D) /\ UNCHANGED given /\ (Scan \/ UNCHANGED vars)
<1>1. ASSUME NEW d, Unplug(d) PROVE FALSE
  BY <1>1 DEF Quiet, Unplug
<1>2. CASE BusFails
  BY <1>2 DEF Quiet, BusFails
<1>3. CASE Scan
  <2>1. UNCHANGED given
    BY <1>3 DEF Scan, NoMoreCodes, BusReset, OneBit, CodeRead
  <2> QED BY <1>3, <2>1 DEF Quiet, given
<1>4. CASE UNCHANGED vars
  BY <1>4 DEF Quiet, vars, given
<1> QED BY <1>1, <1>2, <1>3, <1>4 DEF Next

\* The search steps between two scans, within one, or at its end, and only while it runs.
LEMMA ScanCases ==
  ASSUME Types, Scan
  PROVE  /\ Running
         /\ \/ n = Between /\ (NoMoreCodes \/ BusReset)
            \/ n \in Position /\ OneBit
            \/ n = Width /\ CodeRead
BY WidthAssumption
   DEF Types, Scan, NoMoreCodes, BusReset, OneBit, CodeRead, AtBit, Silence, Agreement,
       Resolve, Discover, Follow, AssertionFails

\* The next scan begins in the phase the one before left.
LEMMA NextScan ==
  ASSUME BusReset, NEW F, NEW j \in Position \cup {Width}, NEW prev, NEW curr, NEW count,
         devices # {}, Phase(F, Between, j, prev, curr, count, devices)
  PROVE  /\ Phase(F, Between, j, prev, curr, count, devices)'
         /\ UNCHANGED <<finished_, ends>>
<1>1. n' = 0 /\ taking_part' = devices /\ UNCHANGED <<memory, ends, given>>
  BY DEF BusReset
<1>2. Between <= 0 /\ 0 <= j
  BY WidthAssumption DEF Between, Position
<1> QED BY <1>1, <1>2 DEF Phase, memory, ends, given

\* A bit all devices that take part have in common.
LEMMA CommonBit ==
  ASSUME n \in Position, OneBit, NEW D, D # {}, NEW b \in {0, 1}, \A d \in D : d[n] = b,
         NEW F, NEW i \in Int, NEW j \in Int, NEW prev, NEW curr, NEW count,
         Phase(F, i, j, prev, curr, count, D), n < j
  PROVE  Phase(F, i, j, prev, curr, count, D)' /\ UNCHANGED <<finished_, ends>>
<1>1. n \in Int /\ n # Between /\ taking_part = D
  BY DEF Position, Phase, Between
<1>2. AllSend(b) /\ ~Discrepancy /\ \A c \in {0, 1} : AllSend(c) => c = b
  BY <1>1 DEF AllSend, Discrepancy
<1>3. Agreement
  BY <1>1, <1>2 DEF OneBit, Silence, Resolve, Discover, Follow, AssertionFails
<1>4. Choose(b) /\ UNCHANGED <<memory, given>>
  BY <1>2, <1>3 DEF Agreement, OneBit
<1>5. taking_part' = D /\ n' = n + 1 /\ UNCHANGED <<finished_, ends, found>>
  BY <1>1, <1>4 DEF Choose, memory, ends
<1> QED BY <1>1, <1>4, <1>5 DEF Phase, memory

\* A bit they differ in.
Differ(D, p) == (\E d \in D : d[p] = 0) /\ (\E d \in D : d[p] = 1)

LEMMA BitDiffers ==
  ASSUME OneBit, n \in Position, NEW D, taking_part = D, Differ(D, n)
  PROVE  Discrepancy /\ (Resolve \/ Discover \/ Follow \/ AssertionFails)
<1>1. Discrepancy /\ ~AllSend(0) /\ ~AllSend(1) /\ taking_part # {}
  BY DEF Discrepancy, AllSend, Differ
<1>2. ~Silence /\ ~Agreement
  BY <1>1 DEF Silence, Agreement
<1> QED BY <1>1, <1>2 DEF OneBit

Branch(D, p, b) == {d \in D : d[p] = b}

LEMMA NewBranch ==
  ASSUME n \in Position, OneBit, NEW D, NEW p \in Int, Differ(D, p),
         NEW F, NEW i, NEW j \in Int, p < j,
         NEW prev \in Int, NEW curr \in Int, NEW count \in Int,
         Phase(F, i, p, prev, curr, count, D), n = p, curr < p
  PROVE  /\ Phase(F, p + 1, j, IF prev < 0 THEN p ELSE curr, p, count + 1, Branch(D, p, 0))'
         /\ UNCHANGED <<finished_, ends>>
<1>1. taking_part = D /\ found = F
      /\ prev_discrepancy_ = prev /\ curr_discrepancy_ = curr /\ conflict_count_ = count
  BY DEF Position, Phase, Between
<1>2. Discover
  BY <1>1, BitDiffers DEF Resolve, Follow, AssertionFails
<1>3. Choose(0) /\ UNCHANGED finished_
  BY <1>2 DEF Discover
<1>4. /\ prev_discrepancy_' = IF prev < 0 THEN p ELSE curr
      /\ curr_discrepancy_' = p /\ conflict_count_' = count + 1
  BY <1>1, <1>2 DEF Discover
<1>5. taking_part' = Branch(D, p, 0) /\ n' = p + 1 /\ UNCHANGED ends /\ found' = F
  BY <1>1, <1>3 DEF Choose, Branch, ends
<1> QED BY <1>3, <1>4, <1>5 DEF Phase

LEMMA OtherBranch ==
  ASSUME n \in Position, OneBit, NEW D, NEW p \in Int, Differ(D, p),
         NEW F, NEW i, NEW j \in Int, p < j,
         NEW prev \in Int, NEW count \in Int, count # 0,
         Phase(F, i, p, prev, p, count, D), n = p
  PROVE  /\ Phase(F, p + 1, j, IF p = 0 THEN 0 ELSE prev, IF p = 0 THEN -1 ELSE prev,
                  IF p = 0 THEN 0 ELSE count - 1, Branch(D, p, 1))'
         /\ UNCHANGED <<finished_, ends>>
<1>1. taking_part = D /\ found = F
      /\ prev_discrepancy_ = prev /\ curr_discrepancy_ = p /\ conflict_count_ = count
  BY DEF Position, Phase, Between
<1>2. Resolve
  BY <1>1, BitDiffers DEF Discover, Follow, AssertionFails
<1>3. Choose(1) /\ UNCHANGED finished_
  BY <1>2 DEF Resolve
<1>4. /\ prev_discrepancy_' = IF p = 0 THEN 0 ELSE prev
      /\ curr_discrepancy_' = IF p = 0 THEN -1 ELSE prev
      /\ conflict_count_' = IF p = 0 THEN 0 ELSE count - 1
  BY <1>1, <1>2 DEF Resolve
<1>5. taking_part' = Branch(D, p, 1) /\ n' = p + 1 /\ UNCHANGED ends /\ found' = F
  BY <1>1, <1>3 DEF Choose, Branch, ends
<1> QED BY <1>3, <1>4, <1>5 DEF Phase

LEMMA SameBranch ==
  ASSUME n \in Position, OneBit, NEW D, NEW p \in Int, Differ(D, p),
         NEW F, NEW i, NEW j \in Int, p < j,
         NEW prev \in Int, NEW curr \in Int, NEW count, prev >= 0,
         NEW b, buf[prev] = b,
         Phase(F, i, p, prev, curr, count, D), n = p, p < curr
  PROVE  /\ Phase(F, p + 1, j, p, curr, count, Branch(D, p, b))'
         /\ UNCHANGED <<finished_, ends>>
<1>1. taking_part = D /\ found = F
      /\ prev_discrepancy_ = prev /\ curr_discrepancy_ = curr /\ conflict_count_ = count
  BY DEF Position, Phase, Between
<1>2. Follow
  BY <1>1, BitDiffers DEF Resolve, Discover, AssertionFails
<1>3. Choose(b) /\ UNCHANGED finished_
  BY <1>1, <1>2 DEF Follow
<1>4. /\ prev_discrepancy_' = p
      /\ curr_discrepancy_' = curr /\ conflict_count_' = count
  BY <1>1, <1>2 DEF Follow
<1>5. taking_part' = Branch(D, p, b) /\ n' = p + 1 /\ UNCHANGED ends /\ found' = F
  BY <1>1, <1>3 DEF Choose, Branch, ends
<1> QED BY <1>3, <1>4, <1>5 DEF Phase

\* The code that is read is that of the only device left.
LEMMA EndOfScan ==
  ASSUME IInv, CodeRead, NEW F, NEW i, NEW prev, NEW curr, NEW count, NEW d,
         Phase(F, i, Width, prev, curr, count, {d})
  PROVE  /\ found' = F \cup {d} /\ n' = Between
         /\ finished_' = (count = 0)
         /\ repeated' = (repeated \/ d \in F)
         /\ outcome' = IF d = wanted THEN "Found" ELSE outcome
         /\ prev_discrepancy_' = prev /\ curr_discrepancy_' = curr
         /\ conflict_count_' = count
<1>1. taking_part = {d} /\ n = Width
  BY WidthAssumption DEF Phase, Between, CodeRead
<1>2. d \in Code /\ Agrees(d)
  BY <1>1, WidthAssumption DEF IInv, Types, PartAgrees, Between
<1>3. d = buf
  BY <1>1, <1>2, WidthAssumption DEF IInv, Types, Code, Agrees, Position
<1> QED BY <1>3 DEF CodeRead, Phase

-----------------------------------------------------------------------------
(* The cases by the number of devices.                                     *)

LEMMA NoneStep ==
  ASSUME Types, Quiet({}), NoneInv, Scan PROVE NoneInv'
<1>1. n = Between /\ (NoMoreCodes \/ BusReset)
  BY ScanCases, WidthAssumption DEF NoneInv, Between, Position
<1> QED BY <1>1 DEF NoneInv, Quiet, NoMoreCodes, BusReset, End, scanVars, memory

\* A search that has found everything has nothing to do but to say so.
LEMMA AllFoundStep ==
  ASSUME Types, NEW D, AllFound(D), Scan, UNCHANGED given
  PROVE  AllFound(D)' /\ UNCHANGED repeated
<1>1. NoMoreCodes
  BY ScanCases, WidthAssumption DEF AllFound, Between, Position, BusReset
<1> QED BY <1>1 DEF AllFound, NoMoreCodes, End, scanVars, memory, given

LEMMA OneStep ==
  ASSUME IInv, NEW z \in Code, Quiet({z}), OneInv(z), Scan, UNCHANGED given
  PROVE  OneInv(z)'
<1>0. Types /\ Running /\ Width \in Nat
  BY ScanCases, WidthAssumption DEF IInv
<1>1. CASE Searching /\ Phase({}, Between, Width, -1, -1, 0, {z})
  <2>1. CASE n = Between /\ (NoMoreCodes \/ BusReset)
    <3>1. BusReset /\ devices = {z}
      BY <1>1, <2>1 DEF Searching, NoMoreCodes, Quiet
    <3> QED BY <1>1, <3>1, NextScan DEF OneInv, Searching, Running, Quiet, ends, given
  <2>2. CASE n \in Position /\ OneBit
    <3>1. z[n] \in {0, 1} /\ n < Width
      BY <1>0, <2>2 DEF Code, Position
    <3>2. Phase({}, Between, Width, -1, -1, 0, {z})' /\ UNCHANGED <<finished_, ends>>
      BY <1>0, <1>1, <2>2, <3>1, CommonBit DEF Between
    <3> QED BY <1>1, <3>2 DEF OneInv, Searching, Running, ends, given
  <2>3. CASE n = Width /\ CodeRead
    <3>1. /\ found' = {z} /\ n' = Between /\ finished_'
          /\ ~repeated' /\ outcome' = IF z = wanted THEN "Found" ELSE outcome
      <4>1. /\ found' = {} \cup {z} /\ n' = Between /\ finished_' = (0 = 0)
            /\ repeated' = (repeated \/ z \in {})
            /\ outcome' = IF z = wanted THEN "Found" ELSE outcome
        BY <1>1, <2>3, EndOfScan
      <4> QED BY <4>1 DEF OneInv
    <3> QED BY <1>0, <3>1 DEF OneInv, AllFound, Running, given
  <2> QED BY <1>0, <2>1, <2>2, <2>3, ScanCases
<1>2. CASE AllFound({z})
  BY <1>0, <1>2, AllFoundStep DEF OneInv
<1> QED BY <1>0, <1>1, <1>2 DEF OneInv, Running

\* All the devices D send the same at the positions of a range.
Common(D, i, j) == \A k \in Position : i <= k /\ k < j => \A d, e \in D : d[k] = e[k]

\* On the way to position j, from the reset or from a position behind a fork.
LEMMA UpTo ==
  ASSUME Types, ~finished_, Scan, NEW D, D # {}, D \subseteq Code,
         NEW i \in Position \cup {Between, Width}, NEW j \in Position \cup {Width},
         i = Between => devices = D, Common(D, i, j),
         NEW F, NEW prev, NEW curr, NEW count,
         Phase(F, i, j, prev, curr, count, D), n # j
  PROVE  Phase(F, i, j, prev, curr, count, D)' /\ UNCHANGED <<finished_, ends>>
<1>1. /\ Width \in Nat \ {0} /\ i \in Int /\ j \in Int /\ j <= Width /\ n \in Int
      /\ Between <= i
  BY WidthAssumption DEF Types, Position, Between
<1>2. i <= n /\ n < j /\ n # Width
  BY <1>1 DEF Phase
<1>3. CASE n = Between
  <2>1. BusReset /\ i = Between
    BY <1>1, <1>2, <1>3, ScanCases DEF NoMoreCodes, Position, Between
  <2>2. BusReset /\ Phase(F, Between, j, prev, curr, count, devices)
    BY <2>1
  <2>3. Phase(F, Between, j, prev, curr, count, devices)' /\ UNCHANGED <<finished_, ends>>
    BY <2>1, <2>2, NextScan
  <2>4. devices' = devices
    BY <2>1 DEF BusReset, given
  <2> QED BY <2>1, <2>3, <2>4 DEF Phase
<1>4. CASE n # Between
  <2>1. n \in Position /\ OneBit
    BY <1>2, <1>4, ScanCases
  <2>2. PICK d \in D : TRUE
    OBVIOUS
  <2>3. d[n] \in {0, 1} /\ \A e \in D : e[n] = d[n]
    BY <1>2, <2>1 DEF Code, Common
  <2> QED BY <1>1, <1>2, <2>1, <2>3, CommonBit
<1> QED BY <1>3, <1>4

\* A scan that ends with the code of d, not found before, either ends the loop or is
\* followed by another one, which finds the memory as this one left it.
LEMMA CodeFound ==
  ASSUME IInv, CodeRead, UNCHANGED given, wanted \notin found,
         NEW F, NEW i, NEW prev, NEW curr, NEW count, NEW d, d \notin F,
         Phase(F, i, Width, prev, curr, count, {d})
  PROVE  /\ ~repeated => ~repeated'
         /\ \/ outcome' = "Found" /\ wanted' = d
            \/ count = 0 /\ AllFound(F \cup {d})'
            \/ /\ count # 0 /\ Searching'
               /\ \A E, j : Between <= j => Phase(F \cup {d}, Between, j, prev, curr, count, E)'
<1>1. /\ found' = F \cup {d} /\ n' = Between
      /\ finished_' = (count = 0)
      /\ repeated' = (repeated \/ d \in F)
      /\ outcome' = IF d = wanted THEN "Found" ELSE outcome
      /\ prev_discrepancy_' = prev /\ curr_discrepancy_' = curr
      /\ conflict_count_' = count
  BY EndOfScan
<1>2. found = F /\ wanted' = wanted /\ outcome = "running"
  BY DEF Phase, given, CodeRead, Running
<1>3. ~repeated => ~repeated'
  BY <1>1, <1>2
<1>4. CASE d = wanted
  BY <1>1, <1>2, <1>3, <1>4
<1>5. CASE d # wanted
  <2>1. outcome' = "running" /\ wanted' \notin found'
    BY <1>1, <1>2, <1>5
  <2>2. CASE count = 0
    BY <1>1, <1>3, <2>1, <2>2 DEF AllFound
  <2>3. CASE count # 0
    <3>1. Searching'
      BY <1>1, <2>1, <2>3 DEF Searching, Running
    <3>2. ASSUME NEW E, NEW j, Between <= j
          PROVE  Phase(F \cup {d}, Between, j, prev, curr, count, E)'
      BY <1>1, <3>2 DEF Phase, Between
    <3> QED BY <1>3, <2>3, <3>1, <3>2
  <2> QED BY <2>2, <2>3
<1> QED BY <1>4, <1>5

\* Between two scans and while a scan goes on nothing changes that Searching is about.
LEMMA StillSearching ==
  ASSUME Searching, UNCHANGED <<finished_, ends>>, UNCHANGED given
  PROVE  Searching' /\ repeated' = repeated
BY DEF Searching, Running, ends, given

LEMMA TwoStep ==
  ASSUME IInv, NEW z \in Code, NEW o \in Code, NEW p, Fork(z, o, p),
         Quiet({z, o}), TwoInv(z, o, p), Scan, UNCHANGED given
  PROVE  TwoInv(z, o, p)'
<1>0. /\ Types /\ Running /\ p \in Position /\ p \in Int /\ p < Width
      /\ Width \in Nat \ {0} /\ p + 1 \in Position \cup {Width} /\ p >= 0
  BY ScanCases, WidthAssumption DEF IInv, Fork, Position
<1>1. ~repeated /\ z # o /\ (z[p] = 0 /\ o[p] = 1)
  BY DEF TwoInv, Fork
<1>2. /\ Common({z, o}, Between, p) /\ Common({z}, p + 1, Width)
      /\ Common({o}, p + 1, Width) /\ p + 1 # Between
      /\ {z} # {} /\ {o} # {} /\ {z} \subseteq Code /\ {o} \subseteq Code
  BY <1>0 DEF Common, Fork, Between
<1>3. /\ Branch({z, o}, p, 0) = {z} /\ Branch({z, o}, p, 1) = {o}
      /\ Differ({z, o}, p)
  BY <1>1 DEF Branch, Differ
<1>4. CASE Searching /\ Phase({}, Between, p, -1, -1, 0, {z, o})
  <2>1. CASE n # p
    <3>1. Phase({}, Between, p, -1, -1, 0, {z, o})' /\ UNCHANGED <<finished_, ends>>
      BY <1>0, <1>2, <1>4, <2>1, UpTo DEF Searching, Quiet
    <3> QED BY <1>1, <1>4, <3>1, StillSearching DEF TwoInv
  <2>2. CASE n = p
    <3>1. n \in Position /\ OneBit
      BY <1>0, <2>2, ScanCases DEF Between, Position
    <3>2. /\ Phase({}, p + 1, Width, IF -1 < 0 THEN p ELSE -1, p, 0 + 1, {z})'
          /\ UNCHANGED <<finished_, ends>>
      BY <1>0, <1>1, <1>3, <1>4, <2>2, <3>1, NewBranch
    <3> QED BY <1>1, <1>4, <3>2, StillSearching DEF TwoInv
  <2> QED BY <2>1, <2>2
<1>5. CASE Searching /\ Phase({}, p + 1, Width, p, p, 1, {z})
  <2>1. CASE n # Width
    <3>1. Phase({}, p + 1, Width, p, p, 1, {z})' /\ UNCHANGED <<finished_, ends>>
      BY <1>0, <1>2, <1>5, <2>1, UpTo DEF Searching, Between
    <3> QED BY <1>1, <1>5, <3>1, StillSearching DEF TwoInv
  <2>2. CASE n = Width
    <3>1. CodeRead /\ wanted \notin found /\ Between <= p
      BY <1>0, <1>5, <2>2, ScanCases DEF Between, Position, Searching
    <3>2. /\ ~repeated'
          /\ \/ outcome' = "Found" /\ wanted' = z
             \/ Searching' /\ Phase({} \cup {z}, Between, p, p, p, 1, {z, o})'
      <4>1. z \notin {} /\ 1 # 0
        OBVIOUS
      <4> QED BY <1>1, <1>5, <3>1, <4>1, CodeFound
    <3>3. {} \cup {z} = {z}
      OBVIOUS
    <3> QED BY <3>2, <3>3 DEF TwoInv
  <2> QED BY <2>1, <2>2
<1>6. CASE Searching /\ Phase({z}, Between, p, p, p, 1, {z, o})
  <2>1. CASE n # p
    <3>1. Phase({z}, Between, p, p, p, 1, {z, o})' /\ UNCHANGED <<finished_, ends>>
      BY <1>0, <1>2, <1>6, <2>1, UpTo DEF Searching, Quiet
    <3> QED BY <1>1, <1>6, <3>1, StillSearching DEF TwoInv
  <2>2. CASE n = p
    <3>1. n \in Position /\ OneBit
      BY <1>0, <2>2, ScanCases DEF Between, Position
    <3>2. /\ Phase({z}, p + 1, Width, IF p = 0 THEN 0 ELSE p, IF p = 0 THEN -1 ELSE p,
                   IF p = 0 THEN 0 ELSE 1 - 1, {o})'
          /\ UNCHANGED <<finished_, ends>>
      BY <1>0, <1>1, <1>3, <1>6, <2>2, <3>1, OtherBranch
    <3>3. /\ (IF p = 0 THEN 0 ELSE p) = p /\ (IF p = 0 THEN -1 ELSE p) = Resolved(p)
          /\ (IF p = 0 THEN 0 ELSE 1 - 1) = 0
      BY <1>0 DEF Resolved
    <3> QED BY <1>1, <1>6, <3>2, <3>3, StillSearching DEF TwoInv
  <2> QED BY <2>1, <2>2
<1>7. CASE Searching /\ Phase({z}, p + 1, Width, p, Resolved(p), 0, {o})
  <2>1. CASE n # Width
    <3>1. Phase({z}, p + 1, Width, p, Resolved(p), 0, {o})' /\ UNCHANGED <<finished_, ends>>
      BY <1>0, <1>2, <1>7, <2>1, UpTo DEF Searching, Between
    <3> QED BY <1>1, <1>7, <3>1, StillSearching DEF TwoInv
  <2>2. CASE n = Width
    <3>1. CodeRead /\ wanted \notin found
      BY <1>0, <1>7, <2>2, ScanCases DEF Between, Position, Searching
    <3>2. /\ ~repeated'
          /\ \/ outcome' = "Found" /\ wanted' = o
             \/ AllFound({z} \cup {o})'
      BY <1>1, <1>7, <3>1, CodeFound
    <3>3. {z} \cup {o} = {z, o}
      OBVIOUS
    <3> QED BY <3>2, <3>3 DEF TwoInv
  <2> QED BY <2>1, <2>2
<1>8. CASE AllFound({z, o})
  BY <1>0, <1>8, AllFoundStep DEF TwoInv
<1> QED BY <1>0, <1>4, <1>5, <1>6, <1>7, <1>8 DEF TwoInv, Running

\* Three devices, the one that branches off first having the 1.
LEMMA LastStep ==
  ASSUME IInv, NEW x \in Code, NEW y \in Code, NEW l \in Code, NEW p, NEW q,
         Forks(x, y, l, p, q), l[p] = 1,
         Quiet({x, y, l}), LastInv(x, y, l, p, q), Scan, UNCHANGED given, Cleared
  PROVE  LastInv(x, y, l, p, q)'
<1>0. /\ Types /\ Running /\ p \in Position /\ p \in Int /\ q \in Position /\ q \in Int
      /\ p >= 0 /\ p < q /\ q < Width /\ p < Width /\ Width \in Nat \ {0}
      /\ p + 1 \in Position \cup {Width} /\ q + 1 \in Position \cup {Width}
  BY ScanCases, WidthAssumption DEF IInv, Forks, Fork, Position
<1>1. /\ x # y /\ x # l /\ y # l
      /\ x[q] = 0 /\ y[q] = 1 /\ x[p] = 0 /\ y[p] = 0
  BY <1>0 DEF Forks, Fork, Code
<1>2. /\ Common({x, y, l}, Between, p) /\ Common({x, y}, p + 1, q)
      /\ Common({x}, q + 1, Width) /\ Common({y}, q + 1, Width) /\ Common({l}, p + 1, Width)
      /\ p + 1 # Between /\ q + 1 # Between /\ p # q
      /\ {x, y, l} # {} /\ {x, y} # {} /\ {x} # {} /\ {y} # {} /\ {l} # {}
      /\ {x, y, l} \subseteq Code /\ {x, y} \subseteq Code
      /\ {x} \subseteq Code /\ {y} \subseteq Code /\ {l} \subseteq Code
  BY <1>0 DEF Common, Forks, Fork, Between
<1>3. /\ Branch({x, y, l}, p, 0) = {x, y} /\ Branch({x, y, l}, p, 1) = {l}
      /\ Branch({x, y}, q, 0) = {x} /\ Branch({x, y}, q, 1) = {y}
      /\ Differ({x, y, l}, p) /\ Differ({x, y}, q)
  BY <1>1 DEF Branch, Differ
<1>4. CASE Searching /\ Phase({}, Between, p, -1, -1, 0, {x, y, l})
  <2>1. CASE n # p
    <3>1. Phase({}, Between, p, -1, -1, 0, {x, y, l})' /\ UNCHANGED <<finished_, ends>>
      BY <1>0, <1>2, <1>4, <2>1, UpTo DEF Searching, Quiet
    <3> QED BY <1>4, <3>1, StillSearching DEF LastInv
  <2>2. CASE n = p
    <3>1. n \in Position /\ OneBit
      BY <1>0, <2>2, ScanCases DEF Between, Position
    <3>2. /\ p \in Int /\ q \in Int /\ Width \in Int /\ p < q /\ -1 < p
          /\ Differ({x, y, l}, p) /\ Phase({}, Between, p, -1, -1, 0, {x, y, l})
      BY <1>0, <1>3, <1>4
    <3>3. /\ Phase({}, p + 1, q, IF -1 < 0 THEN p ELSE -1, p, 0 + 1, Branch({x, y, l}, p, 0))'
          /\ UNCHANGED <<finished_, ends>>
      BY <2>2, <3>1, <3>2, NewBranch
    <3>4. /\ (IF -1 < 0 THEN p ELSE -1) = p /\ 0 + 1 = 1
          /\ Branch({x, y, l}, p, 0) = {x, y}
      BY <1>0, <1>3 DEF Resolved
    <3> QED BY <1>0, <1>4, <3>3, <3>4, StillSearching DEF LastInv
  <2> QED BY <2>1, <2>2
<1>5. CASE Searching /\ Phase({}, p + 1, q, p, p, 1, {x, y})
  <2>1. CASE n # q
    <3>1. Phase({}, p + 1, q, p, p, 1, {x, y})' /\ UNCHANGED <<finished_, ends>>
      BY <1>0, <1>2, <1>5, <2>1, UpTo DEF Searching, Quiet
    <3> QED BY <1>5, <3>1, StillSearching DEF LastInv
  <2>2. CASE n = q
    <3>1. n \in Position /\ OneBit
      BY <1>0, <2>2, ScanCases DEF Between, Position
    <3>2. /\ p \in Int /\ q \in Int /\ Width \in Int /\ q < Width /\ p < q
          /\ Differ({x, y}, q) /\ Phase({}, p + 1, q, p, p, 1, {x, y})
      BY <1>0, <1>3, <1>5
    <3>3. /\ Phase({}, q + 1, Width, IF p < 0 THEN q ELSE p, q, 1 + 1, Branch({x, y}, q, 0))'
          /\ UNCHANGED <<finished_, ends>>
      BY <2>2, <3>1, <3>2, NewBranch
    <3>4. /\ (IF p < 0 THEN q ELSE p) = p /\ 1 + 1 = 2
          /\ Branch({x, y}, q, 0) = {x}
      BY <1>0, <1>3 DEF Resolved
    <3> QED BY <1>0, <1>5, <3>3, <3>4, StillSearching DEF LastInv
  <2> QED BY <2>1, <2>2
<1>6. CASE Searching /\ Phase({}, q + 1, Width, p, q, 2, {x})
  <2>1. CASE n # Width
    <3>1. Phase({}, q + 1, Width, p, q, 2, {x})' /\ UNCHANGED <<finished_, ends>>
      BY <1>0, <1>2, <1>6, <2>1, UpTo DEF Searching, Quiet
    <3> QED BY <1>6, <3>1, StillSearching DEF LastInv
  <2>2. CASE n = Width
    <3>1. CodeRead /\ wanted \notin found /\ Between <= p
      BY <1>0, <1>6, <2>2, ScanCases DEF Between, Position, Searching
    <3>2. x \notin {} /\ 2 # 0
      BY <1>1
    <3>5. Phase({}, q + 1, Width, p, q, 2, {x})
      BY <1>6
    <3>6. \/ outcome' = "Found" /\ wanted' = x
          \/ 2 = 0 /\ AllFound({} \cup {x})'
          \/ /\ 2 # 0 /\ Searching'
             /\ \A E, j : Between <= j
                  => Phase({} \cup {x}, Between, j, p, q, 2, E)'
      BY <3>1, <3>2, <3>5, CodeFound
    <3>3. \/ outcome' = "Found" /\ wanted' = x
          \/ Searching' /\ Phase({} \cup {x}, Between, p, p, q, 2, {x, y, l})'
      BY <3>1, <3>2, <3>6
    <3>4. {} \cup {x} = {x}
      OBVIOUS
    <3> QED BY <3>3, <3>4 DEF LastInv
  <2> QED BY <2>1, <2>2
<1>7. CASE Searching /\ Phase({x}, Between, p, p, q, 2, {x, y, l})
  <2>1. CASE n # p
    <3>1. Phase({x}, Between, p, p, q, 2, {x, y, l})' /\ UNCHANGED <<finished_, ends>>
      BY <1>0, <1>2, <1>7, <2>1, UpTo DEF Searching, Quiet
    <3> QED BY <1>7, <3>1, StillSearching DEF LastInv
  <2>2. CASE n = p
    <3>1. n \in Position /\ OneBit
      BY <1>0, <2>2, ScanCases DEF Between, Position
    <3>5. buf[p] = 0 /\ p \in Position /\ n # Between
      BY <1>0, <2>2 DEF Cleared, Between
    <3>2. /\ p \in Int /\ q \in Int /\ Width \in Int /\ p < q /\ p >= 0 /\ p < q
          /\ Differ({x, y, l}, p) /\ Phase({x}, Between, p, p, q, 2, {x, y, l})
      BY <1>0, <1>3, <1>7
    <3>3. /\ Phase({x}, p + 1, q, p, q, 2, Branch({x, y, l}, p, 0))'
          /\ UNCHANGED <<finished_, ends>>
      BY <2>2, <3>1, <3>2, <3>5, SameBranch
    <3>4. /\ p \in Int
          /\ Branch({x, y, l}, p, 0) = {x, y}
      BY <1>0, <1>3 DEF Resolved
    <3> QED BY <1>0, <1>7, <3>3, <3>4, StillSearching DEF LastInv
  <2> QED BY <2>1, <2>2
<1>8. CASE Searching /\ Phase({x}, p + 1, q, p, q, 2, {x, y})
  <2>1. CASE n # q
    <3>1. Phase({x}, p + 1, q, p, q, 2, {x, y})' /\ UNCHANGED <<finished_, ends>>
      BY <1>0, <1>2, <1>8, <2>1, UpTo DEF Searching, Quiet
    <3> QED BY <1>8, <3>1, StillSearching DEF LastInv
  <2>2. CASE n = q
    <3>1. n \in Position /\ OneBit
      BY <1>0, <2>2, ScanCases DEF Between, Position
    <3>2. /\ p \in Int /\ q \in Int /\ Width \in Int /\ q < Width /\ 2 # 0 /\ 2 \in Int
          /\ Differ({x, y}, q) /\ Phase({x}, p + 1, q, p, q, 2, {x, y})
      BY <1>0, <1>3, <1>8
    <3>3. /\ Phase({x}, q + 1, Width, IF q = 0 THEN 0 ELSE p, IF q = 0 THEN -1 ELSE p,
                   IF q = 0 THEN 0 ELSE 2 - 1, Branch({x, y}, q, 1))'
          /\ UNCHANGED <<finished_, ends>>
      BY <2>2, <3>1, <3>2, OtherBranch
    <3>4. /\ (IF q = 0 THEN 0 ELSE p) = p /\ (IF q = 0 THEN -1 ELSE p) = p
          /\ (IF q = 0 THEN 0 ELSE 2 - 1) = 1
          /\ Branch({x, y}, q, 1) = {y}
      BY <1>0, <1>3 DEF Resolved
    <3> QED BY <1>0, <1>8, <3>3, <3>4, StillSearching DEF LastInv
  <2> QED BY <2>1, <2>2
<1>9. CASE Searching /\ Phase({x}, q + 1, Width, p, p, 1, {y})
  <2>1. CASE n # Width
    <3>1. Phase({x}, q + 1, Width, p, p, 1, {y})' /\ UNCHANGED <<finished_, ends>>
      BY <1>0, <1>2, <1>9, <2>1, UpTo DEF Searching, Quiet
    <3> QED BY <1>9, <3>1, StillSearching DEF LastInv
  <2>2. CASE n = Width
    <3>1. CodeRead /\ wanted \notin found /\ Between <= p
      BY <1>0, <1>9, <2>2, ScanCases DEF Between, Position, Searching
    <3>2. y \notin {x} /\ 1 # 0
      BY <1>1
    <3>5. Phase({x}, q + 1, Width, p, p, 1, {y})
      BY <1>9
    <3>6. \/ outcome' = "Found" /\ wanted' = y
          \/ 1 = 0 /\ AllFound({x} \cup {y})'
          \/ /\ 1 # 0 /\ Searching'
             /\ \A E, j : Between <= j
                  => Phase({x} \cup {y}, Between, j, p, p, 1, E)'
      BY <3>1, <3>2, <3>5, CodeFound
    <3>3. \/ outcome' = "Found" /\ wanted' = y
          \/ Searching' /\ Phase({x} \cup {y}, Between, p, p, p, 1, {x, y, l})'
      BY <3>1, <3>2, <3>6
    <3>4. {x} \cup {y} = {x, y}
      OBVIOUS
    <3> QED BY <3>3, <3>4 DEF LastInv
  <2> QED BY <2>1, <2>2
<1>10. CASE Searching /\ Phase({x, y}, Between, p, p, p, 1, {x, y, l})
  <2>1. CASE n # p
    <3>1. Phase({x, y}, Between, p, p, p, 1, {x, y, l})' /\ UNCHANGED <<finished_, ends>>
      BY <1>0, <1>2, <1>10, <2>1, UpTo DEF Searching, Quiet
    <3> QED BY <1>10, <3>1, StillSearching DEF LastInv
  <2>2. CASE n = p
    <3>1. n \in Position /\ OneBit
      BY <1>0, <2>2, ScanCases DEF Between, Position
    <3>2. /\ p \in Int /\ q \in Int /\ Width \in Int /\ p < Width /\ 1 # 0 /\ 1 \in Int
          /\ Differ({x, y, l}, p) /\ Phase({x, y}, Between, p, p, p, 1, {x, y, l})
      BY <1>0, <1>3, <1>10
    <3>3. /\ Phase({x, y}, p + 1, Width, IF p = 0 THEN 0 ELSE p, IF p = 0 THEN -1 ELSE p,
                   IF p = 0 THEN 0 ELSE 1 - 1, Branch({x, y, l}, p, 1))'
          /\ UNCHANGED <<finished_, ends>>
      BY <2>2, <3>1, <3>2, OtherBranch
    <3>4. /\ (IF p = 0 THEN 0 ELSE p) = p /\ (IF p = 0 THEN -1 ELSE p) = Resolved(p)
          /\ (IF p = 0 THEN 0 ELSE 1 - 1) = 0
          /\ Branch({x, y, l}, p, 1) = {l}
      BY <1>0, <1>3 DEF Resolved
    <3> QED BY <1>0, <1>10, <3>3, <3>4, StillSearching DEF LastInv
  <2> QED BY <2>1, <2>2
<1>11. CASE Searching /\ Phase({x, y}, p + 1, Width, p, Resolved(p), 0, {l})
  <2>1. CASE n # Width
    <3>1. Phase({x, y}, p + 1, Width, p, Resolved(p), 0, {l})' /\ UNCHANGED <<finished_, ends>>
      BY <1>0, <1>2, <1>11, <2>1, UpTo DEF Searching, Quiet
    <3> QED BY <1>11, <3>1, StillSearching DEF LastInv
  <2>2. CASE n = Width
    <3>1. CodeRead /\ wanted \notin found /\ Between <= p
      BY <1>0, <1>11, <2>2, ScanCases DEF Between, Position, Searching
    <3>2. l \notin {x, y}
      BY <1>1
    <3>5. Phase({x, y}, p + 1, Width, p, Resolved(p), 0, {l})
      BY <1>11
    <3>6. \/ outcome' = "Found" /\ wanted' = l
          \/ 0 = 0 /\ AllFound({x, y} \cup {l})'
          \/ /\ 0 # 0 /\ Searching'
             /\ \A E, j : Between <= j
                  => Phase({x, y} \cup {l}, Between, j, p, Resolved(p), 0, E)'
      BY <3>1, <3>2, <3>5, CodeFound
    <3>3. \/ outcome' = "Found" /\ wanted' = l
          \/ AllFound({x, y} \cup {l})'
      BY <3>1, <3>2, <3>6
    <3>4. {x, y} \cup {l} = {x, y, l}
      OBVIOUS
    <3> QED BY <3>3, <3>4 DEF LastInv
  <2> QED BY <2>1, <2>2
<1>12. CASE AllFound({x, y, l})
  BY <1>0, <1>12, AllFoundStep DEF LastInv
<1> QED
  BY <1>0, <1>4, <1>5, <1>6, <1>7, <1>8, <1>9, <1>10, <1>11, <1>12 DEF LastInv, Running

\* A scan that ends with a conflict left over either ends the loop, or is followed by
\* another one.
LEMMA NotTheLast ==
  ASSUME IInv, CodeRead, NEW F, NEW i, NEW prev, NEW curr, NEW count, NEW d,
         Phase(F, i, Width, prev, curr, count, {d})
  PROVE  \/ outcome' = "Found"
         \/ /\ Running' /\ (count # 0 => ~finished_')
            /\ \A E, j : Between <= j => Phase(F \cup {d}, Between, j, prev, curr, count, E)'
<1>1. /\ found' = F \cup {d} /\ n' = Between
      /\ finished_' = (count = 0)
      /\ repeated' = (repeated \/ d \in F)
      /\ outcome' = IF d = wanted THEN "Found" ELSE outcome
      /\ prev_discrepancy_' = prev /\ curr_discrepancy_' = curr
      /\ conflict_count_' = count
  BY EndOfScan
<1>2. outcome' = "Found" \/ Running'
  BY <1>1 DEF CodeRead, Running
<1>3. ASSUME NEW E, NEW j, Between <= j
      PROVE  Phase(F \cup {d}, Between, j, prev, curr, count, E)'
  BY <1>1, <1>3 DEF Phase, Between
<1> QED BY <1>1, <1>2, <1>3

\* Three devices, the one that branches off first having the 0.
LEMMA FirstStep ==
  ASSUME IInv, NEW x \in Code, NEW y \in Code, NEW l \in Code, NEW p, NEW q,
         Forks(x, y, l, p, q), l[p] = 0,
         Quiet({x, y, l}), FirstInv(x, y, l, p, q), Scan, UNCHANGED given, Cleared
  PROVE  FirstInv(x, y, l, p, q)'
<1>0. /\ Types /\ Running /\ p \in Position /\ p \in Int /\ q \in Position /\ q \in Int
      /\ p >= 0 /\ p < q /\ q < Width /\ p < Width /\ Width \in Nat \ {0}
      /\ p + 1 \in Position \cup {Width} /\ q + 1 \in Position \cup {Width}
      /\ Resolved(p) \in Int /\ Resolved(p) < q
  BY ScanCases, WidthAssumption DEF IInv, Forks, Fork, Position, Resolved
<1>1. /\ x # y /\ x # l /\ y # l
      /\ x[q] = 0 /\ y[q] = 1 /\ x[p] = 1 /\ y[p] = 1
  BY <1>0 DEF Forks, Fork, Code
<1>2. /\ Common({x, y, l}, Between, p) /\ Common({x, y}, p + 1, q)
      /\ Common({x}, q + 1, Width) /\ Common({l}, p + 1, Width)
      /\ p + 1 # Between /\ q + 1 # Between /\ p # q
      /\ {x, y, l} # {} /\ {x, y} # {} /\ {x} # {} /\ {l} # {}
      /\ {x, y, l} \subseteq Code /\ {x, y} \subseteq Code
      /\ {x} \subseteq Code /\ {l} \subseteq Code
  BY <1>0 DEF Common, Forks, Fork, Between
<1>3. /\ Branch({x, y, l}, p, 0) = {l} /\ Branch({x, y, l}, p, 1) = {x, y}
      /\ Branch({x, y}, q, 0) = {x}
      /\ Differ({x, y, l}, p) /\ Differ({x, y}, q)
  BY <1>1 DEF Branch, Differ
<1>4. CASE Running /\ ~finished_ /\ Phase({}, Between, p, -1, -1, 0, {x, y, l})
  <2>1. CASE n # p
    <3>1. Phase({}, Between, p, -1, -1, 0, {x, y, l})' /\ UNCHANGED <<finished_, ends>>
      BY <1>0, <1>2, <1>4, <2>1, UpTo DEF Quiet
    <3> QED BY <1>4, <3>1 DEF FirstInv, Running, ends
  <2>2. CASE n = p
    <3>1. n \in Position /\ OneBit
      BY <1>0, <2>2, ScanCases DEF Between, Position
    <3>2. /\ p \in Int /\ q \in Int /\ Width \in Int /\ p < Width /\ -1 < p
          /\ Differ({x, y, l}, p) /\ Phase({}, Between, p, -1, -1, 0, {x, y, l})
      BY <1>0, <1>3, <1>4
    <3>3. /\ Phase({}, p + 1, Width, IF -1 < 0 THEN p ELSE -1, p, 0 + 1, Branch({x, y, l}, p, 0))'
          /\ UNCHANGED <<finished_, ends>>
      BY <2>2, <3>1, <3>2, NewBranch
    <3>4. /\ (IF -1 < 0 THEN p ELSE -1) = p /\ 0 + 1 = 1
          /\ Branch({x, y, l}, p, 0) = {l}
      BY <1>0, <1>3 DEF Resolved
    <3> QED BY <1>0, <1>4, <3>3, <3>4 DEF FirstInv, Running, ends
  <2> QED BY <2>1, <2>2
<1>5. CASE Running /\ ~finished_ /\ Phase({}, p + 1, Width, p, p, 1, {l})
  <2>1. CASE n # Width
    <3>1. Phase({}, p + 1, Width, p, p, 1, {l})' /\ UNCHANGED <<finished_, ends>>
      BY <1>0, <1>2, <1>5, <2>1, UpTo DEF Quiet
    <3> QED BY <1>5, <3>1 DEF FirstInv, Running, ends
  <2>2. CASE n = Width
    <3>1. CodeRead /\ Between <= p /\ 1 # 0
      BY <1>0, <2>2, ScanCases DEF Between, Position
    <3>2. Phase({}, p + 1, Width, p, p, 1, {l})
      BY <1>5
    <3>3. \/ outcome' = "Found"
          \/ /\ Running' /\ ~finished_'
             /\ \A E, j : Between <= j
                  => Phase({} \cup {l}, Between, j, p, p, 1, E)'
      BY <3>1, <3>2, NotTheLast
    <3>4. {} \cup {l} = {l}
      OBVIOUS
    <3> QED BY <1>0, <1>5, <3>1, <3>3, <3>4 DEF FirstInv, Resolved
  <2> QED BY <2>1, <2>2
<1>6. CASE Running /\ ~finished_ /\ Phase({l}, Between, p, p, p, 1, {x, y, l})
  <2>1. CASE n # p
    <3>1. Phase({l}, Between, p, p, p, 1, {x, y, l})' /\ UNCHANGED <<finished_, ends>>
      BY <1>0, <1>2, <1>6, <2>1, UpTo DEF Quiet
    <3> QED BY <1>6, <3>1 DEF FirstInv, Running, ends
  <2>2. CASE n = p
    <3>1. n \in Position /\ OneBit
      BY <1>0, <2>2, ScanCases DEF Between, Position
    <3>2. /\ p \in Int /\ q \in Int /\ Width \in Int /\ p < q /\ 1 # 0 /\ 1 \in Int
          /\ Differ({x, y, l}, p) /\ Phase({l}, Between, p, p, p, 1, {x, y, l})
      BY <1>0, <1>3, <1>6
    <3>3. /\ Phase({l}, p + 1, q, IF p = 0 THEN 0 ELSE p, IF p = 0 THEN -1 ELSE p,
                   IF p = 0 THEN 0 ELSE 1 - 1, Branch({x, y, l}, p, 1))'
          /\ UNCHANGED <<finished_, ends>>
      BY <2>2, <3>1, <3>2, OtherBranch
    <3>4. /\ (IF p = 0 THEN 0 ELSE p) = p /\ (IF p = 0 THEN -1 ELSE p) = Resolved(p)
          /\ (IF p = 0 THEN 0 ELSE 1 - 1) = 0
          /\ Branch({x, y, l}, p, 1) = {x, y}
      BY <1>0, <1>3 DEF Resolved
    <3> QED BY <1>0, <1>6, <3>3, <3>4 DEF FirstInv, Running, ends
  <2> QED BY <2>1, <2>2
<1>7. CASE Running /\ ~finished_ /\ Phase({l}, p + 1, q, p, Resolved(p), 0, {x, y})
  <2>1. CASE n # q
    <3>1. Phase({l}, p + 1, q, p, Resolved(p), 0, {x, y})' /\ UNCHANGED <<finished_, ends>>
      BY <1>0, <1>2, <1>7, <2>1, UpTo DEF Quiet
    <3> QED BY <1>7, <3>1 DEF FirstInv, Running, ends
  <2>2. CASE n = q
    <3>1. n \in Position /\ OneBit
      BY <1>0, <2>2, ScanCases DEF Between, Position
    <3>2. /\ p \in Int /\ q \in Int /\ Width \in Int /\ q < Width /\ Resolved(p) \in Int /\ Resolved(p) < q
          /\ Differ({x, y}, q) /\ Phase({l}, p + 1, q, p, Resolved(p), 0, {x, y})
      BY <1>0, <1>3, <1>7
    <3>3. /\ Phase({l}, q + 1, Width, IF p < 0 THEN q ELSE Resolved(p), q,
                   0 + 1, Branch({x, y}, q, 0))'
          /\ UNCHANGED <<finished_, ends>>
      BY <2>2, <3>1, <3>2, NewBranch
    <3>4. /\ (IF p < 0 THEN q ELSE Resolved(p)) = Resolved(p) /\ 0 + 1 = 1
          /\ Branch({x, y}, q, 0) = {x}
      BY <1>0, <1>3 DEF Resolved
    <3> QED BY <1>0, <1>7, <3>3, <3>4 DEF FirstInv, Running, ends
  <2> QED BY <2>1, <2>2
<1>8. CASE Running /\ ~finished_ /\ Phase({l}, q + 1, Width, Resolved(p), q, 1, {x})
  <2>1. CASE n # Width
    <3>1. Phase({l}, q + 1, Width, Resolved(p), q, 1, {x})' /\ UNCHANGED <<finished_, ends>>
      BY <1>0, <1>2, <1>8, <2>1, UpTo DEF Quiet
    <3> QED BY <1>8, <3>1 DEF FirstInv, Running, ends
  <2>2. CASE n = Width
    <3>1. CodeRead /\ Between <= p /\ 1 # 0
      BY <1>0, <2>2, ScanCases DEF Between, Position
    <3>2. Phase({l}, q + 1, Width, Resolved(p), q, 1, {x})
      BY <1>8
    <3>3. \/ outcome' = "Found"
          \/ /\ Running' /\ ~finished_'
             /\ \A E, j : Between <= j
                  => Phase({l} \cup {x}, Between, j, Resolved(p), q, 1, E)'
      BY <3>1, <3>2, NotTheLast
    <3>4. {l} \cup {x} = {l, x}
      OBVIOUS
    <3> QED BY <1>0, <1>8, <3>1, <3>3, <3>4 DEF FirstInv, Resolved
  <2> QED BY <2>1, <2>2
<1>9. CASE Running /\ ~finished_ /\ Phase({l, x}, Between, p, Resolved(p), q, 1, {x, y, l})
  <2>1. CASE n # p
    <3>1. Phase({l, x}, Between, p, Resolved(p), q, 1, {x, y, l})' /\ UNCHANGED <<finished_, ends>>
      BY <1>0, <1>2, <1>9, <2>1, UpTo DEF Quiet
    <3> QED BY <1>9, <3>1 DEF FirstInv, Running, ends
  <2>2. CASE n = p
    <3>1. n \in Position /\ OneBit
      BY <1>0, <2>2, ScanCases DEF Between, Position
    <3>2. Phase({l, x}, Between, p, Resolved(p), q, 1, {x, y, l}) /\ Differ({x, y, l}, p)
      BY <1>3, <1>9
    <3>3. CASE p = 0
      <4>1. /\ taking_part = {x, y, l} /\ n < curr_discrepancy_
            /\ prev_discrepancy_ = -1 /\ Differ({x, y, l}, n)
            /\ n \in Int /\ curr_discrepancy_ \in Int
        BY <1>0, <2>2, <3>2, <3>3 DEF Phase, Between, Resolved
      <4>2. Resolve \/ Discover \/ Follow \/ AssertionFails
        BY <3>1, <4>1, BitDiffers
      <4>3. AssertionFails
        BY <4>1, <4>2 DEF Resolve, Discover, Follow
      <4> QED BY <4>3 DEF AssertionFails, End, FirstInv
    <3>4. CASE p # 0
      <4>1. /\ p \in Int /\ q \in Int /\ Width \in Int /\ p < Width /\ p >= 0 /\ p < q
            /\ Phase({l, x}, Between, p, p, q, 1, {x, y, l})
        BY <1>0, <3>2, <3>4 DEF Resolved
      <4>2. buf[p] = 0
        BY <1>0, <2>2 DEF Cleared, Between
      <4>3. /\ Phase({l, x}, p + 1, Width, p, q, 1, Branch({x, y, l}, p, 0))'
            /\ UNCHANGED <<finished_, ends>>
        BY <2>2, <3>1, <3>2, <4>1, <4>2, SameBranch
      <4> QED BY <1>0, <1>3, <1>9, <3>4, <4>3 DEF FirstInv, Running, ends
    <3> QED BY <3>3, <3>4
  <2> QED BY <2>1, <2>2
<1>10. CASE Running /\ ~finished_ /\ Phase({l, x}, p + 1, Width, p, q, 1, {l}) /\ p > 0
  <2>1. CASE n # Width
    <3>1. Phase({l, x}, p + 1, Width, p, q, 1, {l})' /\ UNCHANGED <<finished_, ends>>
      BY <1>0, <1>2, <1>10, <2>1, UpTo DEF Quiet
    <3> QED BY <1>10, <3>1 DEF FirstInv, Running, ends
  <2>2. CASE n = Width
    <3>1. CodeRead /\ Between <= p /\ 1 # 0
      BY <1>0, <2>2, ScanCases DEF Between, Position
    <3>2. Phase({l, x}, p + 1, Width, p, q, 1, {l})
      BY <1>10
    <3>3. \/ outcome' = "Found"
          \/ /\ Running' /\ ~finished_'
             /\ \A E, j : Between <= j
                  => Phase({l, x} \cup {l}, Between, j, p, q, 1, E)'
      BY <3>1, <3>2, NotTheLast
    <3>4. {l, x} \cup {l} = {l, x}
      OBVIOUS
    <3> QED BY <1>0, <1>10, <3>1, <3>3, <3>4 DEF FirstInv, Resolved
  <2> QED BY <2>1, <2>2
<1> QED
  BY <1>0, <1>4, <1>5, <1>6, <1>7, <1>8, <1>9, <1>10 DEF FirstInv, Running

-----------------------------------------------------------------------------
(* Any number of devices up to three falls under one of the cases.         *)

\* The least element of a set of numbers, from the library's induction over <.
LEMMA LeastNat ==
  ASSUME NEW T, T \subseteq Nat, T # {}
  PROVE  \E t \in T : \A m \in T : t <= m
<1> DEFINE R == OpToRel(<, Nat)
<1>1. IsWellFoundedOn(R, Nat)
  BY NatLessThanWellFounded
<1>2. \A i, j \in Nat : i < j => <<i, j>> \in R
  BY DEF OpToRel
<1> HIDE DEF R
<1>3. PICK t \in T : \A j \in T : ~(<<j, t>> \in R)
  BY <1>1, WFMin
<1>4. ASSUME NEW m \in T PROVE t <= m
  <2>1. t \in Nat /\ m \in Nat
    OBVIOUS
  <2>2. ~(m < t)
    BY <1>2, <1>3, <2>1
  <2> QED BY <2>1, <2>2
<1> QED BY <1>4

LEMMA CodeIsFinite == IsFiniteSet(Code)
<1> DEFINE ones == [c \in Code |-> {i \in Position : c[i] = 1}]
<1>1. ones \in Injection(Code, SUBSET Position)
  <2>1. ones \in [Code -> SUBSET Position]
    OBVIOUS
  <2>2. ASSUME NEW a \in Code, NEW b \in Code, ones[a] = ones[b] PROVE a = b
    <3>1. \A i \in Position : a[i] = 1 <=> b[i] = 1
      BY <2>2
    <3>2. \A i \in Position : a[i] \in {0, 1} /\ b[i] \in {0, 1}
      BY DEF Code
    <3>3. \A i \in Position : a[i] = b[i]
      BY <3>1, <3>2
    <3> QED BY <3>3 DEF Code
  <2> HIDE DEF ones
  <2> QED BY <2>1, <2>2 DEF Injection, IsInjective
<1>2. IsFiniteSet(SUBSET Position)
  <2>1. IsFiniteSet(Position)
    BY WidthAssumption, FS_Interval DEF Position
  <2> QED BY <2>1, FS_SUBSET
<1> HIDE DEF ones
<1> QED BY <1>1, <1>2, FS_Injection

\* Two codes differ first somewhere.
LEMMA ForkExists ==
  ASSUME NEW a \in Code, NEW b \in Code, a # b
  PROVE  \E z, o \in Code : {z, o} = {a, b} /\ \E p \in Position : Fork(z, o, p)
<1> DEFINE T == {i \in Position : a[i] # b[i]}
<1>1. T \subseteq Nat /\ T # {}
  BY WidthAssumption DEF Position, Code
<1>2. PICK p \in T : \A m \in T : p <= m
  <2> HIDE DEF T
  <2> QED BY <1>1, LeastNat
<1>3. p \in Position /\ a[p] # b[p] /\ a[p] \in {0, 1} /\ b[p] \in {0, 1}
  BY DEF Code
<1>4. \A i \in Position : i < p => a[i] = b[i]
  BY <1>2, WidthAssumption DEF Position
<1>5. CASE a[p] = 0
  BY <1>3, <1>4, <1>5 DEF Fork
<1>6. CASE a[p] = 1
  <2>1. Fork(b, a, p)
    BY <1>3, <1>4, <1>6 DEF Fork
  <2> QED BY <2>1
<1> QED BY <1>3, <1>5, <1>6

\* Where one code leaves two others, before these differ.
LEMMA OddOneOut ==
  ASSUME NEW u \in Code, NEW v \in Code, NEW l \in Code, NEW p \in Position,
         u # v, u[p] = v[p], u[p] # l[p],
         \A i \in Position : i < p => u[i] = v[i] /\ u[i] = l[i]
  PROVE  \E x, y \in Code : {x, y, l} = {u, v, l}
                            /\ \E q \in Position : Forks(x, y, l, p, q)
<1>1. PICK x \in Code, y \in Code : {x, y} = {u, v} /\ \E q \in Position : Fork(x, y, q)
  BY ForkExists
<1>2. PICK q \in Position : Fork(x, y, q)
  BY <1>1
<1>3. (x = u /\ y = v) \/ (x = v /\ y = u)
  BY <1>1
<1>4. x[p] = y[p] /\ x[p] # l[p] /\ \A i \in Position : i < p => x[i] = y[i] /\ x[i] = l[i]
  BY <1>3
<1>5. p < q
  BY <1>2, <1>4, WidthAssumption DEF Fork, Position
<1>6. Forks(x, y, l, p, q)
  BY <1>2, <1>4, <1>5 DEF Forks
<1>7. {x, y, l} = {u, v, l}
  BY <1>3
<1> QED BY <1>6, <1>7

\* Where three codes do not all agree first, one is different from the other two.
LEMMA ForksExist ==
  ASSUME NEW a \in Code, NEW b \in Code, NEW c \in Code, a # b, a # c, b # c
  PROVE  \E x, y, l \in Code : {x, y, l} = {a, b, c}
                               /\ \E p, q \in Position : Forks(x, y, l, p, q)
<1> DEFINE T == {i \in Position : a[i] # b[i] \/ a[i] # c[i]}
<1>1. T \subseteq Nat /\ T # {}
  BY WidthAssumption DEF Position, Code
<1>2. PICK p \in T : \A m \in T : p <= m
  <2> HIDE DEF T
  <2> QED BY <1>1, LeastNat
<1>3. /\ p \in Position /\ (a[p] # b[p] \/ a[p] # c[p])
      /\ a[p] \in {0, 1} /\ b[p] \in {0, 1} /\ c[p] \in {0, 1}
  BY DEF Code
<1>4. \A i \in Position : i < p => a[i] = b[i] /\ a[i] = c[i]
  BY <1>2, WidthAssumption DEF Position
<1>5. CASE a[p] = b[p]
  <2>1. a[p] # c[p] /\ \A i \in Position : i < p => a[i] = b[i] /\ a[i] = c[i]
    BY <1>3, <1>4, <1>5
  <2>2. PICK x \in Code, y \in Code :
             {x, y, c} = {a, b, c} /\ \E q \in Position : Forks(x, y, c, p, q)
    BY <1>3, <1>5, <2>1, OddOneOut
  <2> QED BY <1>3, <2>2
<1>6. CASE a[p] = c[p]
  <2>1. a[p] # b[p] /\ \A i \in Position : i < p => a[i] = c[i] /\ a[i] = b[i]
    BY <1>3, <1>4, <1>6
  <2>2. PICK x \in Code, y \in Code :
             {x, y, b} = {a, c, b} /\ \E q \in Position : Forks(x, y, b, p, q)
    BY <1>3, <1>6, <2>1, OddOneOut
  <2>3. {a, c, b} = {a, b, c}
    OBVIOUS
  <2> QED BY <1>3, <2>2, <2>3
<1>7. CASE b[p] = c[p]
  <2>1. b[p] # a[p] /\ \A i \in Position : i < p => b[i] = c[i] /\ b[i] = a[i]
    BY <1>3, <1>4, <1>7
  <2>2. PICK x \in Code, y \in Code :
             {x, y, a} = {b, c, a} /\ \E q \in Position : Forks(x, y, a, p, q)
    BY <1>3, <1>7, <2>1, OddOneOut
  <2>3. {b, c, a} = {a, b, c}
    OBVIOUS
  <2> QED BY <1>3, <2>2, <2>3
<1> QED BY <1>3, <1>5, <1>6, <1>7

\* A small set, element by element.
LEMMA SmallSet ==
  ASSUME NEW S, IsFiniteSet(S), Cardinality(S) <= 3
  PROVE  \/ S = {} \/ \E a \in S : S = {a}
         \/ \E a, b \in S : a # b /\ S = {a, b}
         \/ /\ Cardinality(S) > 2
            /\ \E a, b, c \in S : a # b /\ a # c /\ b # c /\ S = {a, b, c}
<1>1. ASSUME NEW D, IsFiniteSet(D), D # {}
      PROVE  \E d \in D : IsFiniteSet(D \ {d}) /\ Cardinality(D \ {d}) = Cardinality(D) - 1
                          /\ Cardinality(D) \in Nat \ {0}
  <2>1. PICK d \in D : TRUE
    BY <1>1
  <2>2. Cardinality(D) \in Nat \ {0}
    BY <1>1, FS_CardinalityType, FS_EmptySet
  <2> QED BY <1>1, <2>1, <2>2, FS_RemoveElement
<1>2. CASE S # {}
  <2>1. PICK a \in S : IsFiniteSet(S \ {a}) /\ Cardinality(S \ {a}) = Cardinality(S) - 1
                       /\ Cardinality(S) \in Nat \ {0}
    BY <1>1, <1>2
  <2>2. CASE S \ {a} # {}
    <3>1. PICK b \in S \ {a} :
               /\ IsFiniteSet((S \ {a}) \ {b})
               /\ Cardinality((S \ {a}) \ {b}) = Cardinality(S \ {a}) - 1
      BY <1>1, <2>1, <2>2
    <3>2. CASE (S \ {a}) \ {b} # {}
      <4>1. PICK c \in (S \ {a}) \ {b} :
                 /\ IsFiniteSet(((S \ {a}) \ {b}) \ {c})
                 /\ Cardinality(((S \ {a}) \ {b}) \ {c}) = Cardinality((S \ {a}) \ {b}) - 1
                 /\ Cardinality((S \ {a}) \ {b}) \in Nat \ {0}
        BY <1>1, <3>1, <3>2
      <4>2. Cardinality(S) > 2 /\ Cardinality(((S \ {a}) \ {b}) \ {c}) = 0
        BY <2>1, <3>1, <4>1
      <4>3. ((S \ {a}) \ {b}) \ {c} = {}
        BY <4>1, <4>2, FS_EmptySet
      <4>4. a # b /\ a # c /\ b # c /\ S = {a, b, c}
        BY <4>3
      <4> QED BY <4>2, <4>4
    <3>3. CASE (S \ {a}) \ {b} = {}
      <4>1. a # b /\ S = {a, b}
        BY <3>3
      <4> QED BY <4>1
    <3> QED BY <3>2, <3>3
  <2>3. CASE S \ {a} = {}
    <3>1. S = {a}
      BY <2>3
    <3> QED BY <3>1
  <2> QED BY <2>2, <2>3
<1> QED BY <1>2

-----------------------------------------------------------------------------
(* The search over a bus nobody disturbs.                                  *)

ByNumber ==
  /\ Quiet({}) => NoneInv
  /\ \A z \in Code : Quiet({z}) => OneInv(z)
  /\ \A z, o \in Code : \A p \in Position :
       Fork(z, o, p) /\ Quiet({z, o}) => TwoInv(z, o, p)
  /\ \A x, y, l \in Code : \A p, q \in Position :
       Forks(x, y, l, p, q) /\ Quiet({x, y, l})
         => /\ l[p] = 1 => LastInv(x, y, l, p, q)
            /\ l[p] = 0 => FirstInv(x, y, l, p, q)

Undisturbed == ~disturbed => devices = connected

SearchInv == IInv /\ Cleared /\ Undisturbed /\ ByNumber

LEMMA SearchInit == Init => SearchInv
<1> SUFFICES ASSUME Init PROVE SearchInv
  OBVIOUS
<1>1. IInv /\ Undisturbed
  BY InitLemma DEF Init, Undisturbed
<1>2. Cleared /\ n = Between
  BY DEF Init, Cleared
<1>3. /\ Searching /\ ~repeated /\ found = {} /\ outcome = "running"
      /\ \A D, j : Between <= j => Phase({}, Between, j, -1, -1, 0, D)
  BY <1>2 DEF Init, Searching, Running, Phase, Between
<1>4. \A p \in Position \cup {Width} : Between <= p
  BY WidthAssumption DEF Between, Position
<1>5. NoneInv
  BY <1>2, <1>3 DEF NoneInv, Searching
<1>6. ASSUME NEW z \in Code PROVE OneInv(z)
  BY <1>3, <1>4 DEF OneInv
<1>7. ASSUME NEW z \in Code, NEW o \in Code, NEW p \in Position PROVE TwoInv(z, o, p)
  BY <1>3, <1>4 DEF TwoInv
<1>8. ASSUME NEW x \in Code, NEW y \in Code, NEW l \in Code, NEW p \in Position, NEW q
      PROVE  LastInv(x, y, l, p, q) /\ FirstInv(x, y, l, p, q)
  BY <1>3, <1>4 DEF LastInv, FirstInv, Searching
<1> QED BY <1>1, <1>2, <1>5, <1>6, <1>7, <1>8 DEF SearchInv, ByNumber

LEMMA ClearedStep ==
  ASSUME IInv, Cleared, [Next]_vars
  PROVE  Cleared'
<1>1. CASE UNCHANGED <<n, buf>>
  BY <1>1 DEF Cleared
<1>2. CASE BusReset
  BY <1>2 DEF BusReset, Cleared, scanVars
<1>3. CASE Agreement \/ Resolve \/ Discover \/ Follow
  <2>1. AtBit /\ Types
    BY <1>3 DEF Agreement, Resolve, Discover, Follow, IInv
  <2>2. PICK b \in {0, 1} : Choose(b)
    BY <1>3, <2>1, BitLemma
  <2>3. /\ n \in Position /\ n \in Int /\ n # Between /\ n' = n + 1
        /\ buf \in [Position -> {0, 1}] /\ buf' = [buf EXCEPT ![n] = b]
    BY <2>1, <2>2, WidthAssumption DEF AtBit, Choose, Types, Position, Between
  <2> QED BY <2>3 DEF Cleared, Position
<1>4. CASE CodeRead
  BY <1>4 DEF CodeRead, Cleared
<1> QED
  BY <1>1, <1>2, <1>3, <1>4
     DEF Next, Scan, NoMoreCodes, OneBit, Silence, AssertionFails, Unplug, BusFails,
         vars, scanVars

\* Whatever the devices: a step of the search, or none.
LEMMA ByNumberStep ==
  ASSUME SearchInv, [Next]_vars
  PROVE  ByNumber'
<1>1. IInv /\ Types /\ Cleared /\ ByNumber
  BY DEF SearchInv, IInv
<1>2. CASE UNCHANGED vars
  <2>1. /\ UNCHANGED <<scanVars, memory, given>> /\ UNCHANGED <<outcome, found, repeated>>
        /\ UNCHANGED <<disturbed, devices, connected, wanted, n, finished_>>
    BY <1>2 DEF vars, scanVars, memory, ends, given
  <2>2. \A D : (Quiet(D)' <=> Quiet(D)) /\ (AllFound(D)' <=> AllFound(D))
    BY <2>1 DEF Quiet, AllFound
  <2>3. /\ Searching' <=> Searching
        /\ \A F, i, j, prev, curr, count, D :
             Phase(F, i, j, prev, curr, count, D)' <=> Phase(F, i, j, prev, curr, count, D)
    BY <2>1 DEF Searching, Running, Phase, scanVars, memory
  <2>4. NoneInv => NoneInv'
    BY <2>1 DEF NoneInv
  <2>5. \A z : OneInv(z) => OneInv(z)'
    BY <2>1, <2>2, <2>3 DEF OneInv
  <2>6. \A z, o, p : TwoInv(z, o, p) => TwoInv(z, o, p)'
    BY <2>1, <2>2, <2>3 DEF TwoInv
  <2>7. \A x, y, l, p, q : LastInv(x, y, l, p, q) => LastInv(x, y, l, p, q)'
    BY <2>1, <2>2, <2>3 DEF LastInv
  <2>8. \A x, y, l, p, q : FirstInv(x, y, l, p, q) => FirstInv(x, y, l, p, q)'
    BY <2>1, <2>3 DEF FirstInv, Running
  <2> QED BY <1>1, <2>2, <2>4, <2>5, <2>6, <2>7, <2>8 DEF ByNumber
<1>3. CASE ~UNCHANGED vars
  <2>1. ASSUME NEW D, Quiet(D)' PROVE Quiet(D) /\ UNCHANGED given /\ Scan
    BY <1>3, <2>1, QuietStep
  <2>2. ASSUME Quiet({})' PROVE NoneInv'
    <3>1. Quiet({}) /\ Scan
      BY <2>1, <2>2
    <3> QED BY <1>1, <3>1, NoneStep DEF ByNumber
  <2>3. ASSUME NEW z \in Code, Quiet({z})' PROVE OneInv(z)'
    <3>1. Quiet({z}) /\ UNCHANGED given /\ Scan
      BY <2>1, <2>3
    <3> QED BY <1>1, <3>1, OneStep DEF ByNumber
  <2>4. ASSUME NEW z \in Code, NEW o \in Code, NEW p \in Position, Fork(z, o, p),
               Quiet({z, o})'
        PROVE  TwoInv(z, o, p)'
    <3>1. Quiet({z, o}) /\ UNCHANGED given /\ Scan
      BY <2>1, <2>4
    <3>2. TwoInv(z, o, p)
      BY <1>1, <2>4, <3>1 DEF ByNumber
    <3> QED BY <1>1, <2>4, <3>1, <3>2, TwoStep
  <2>5. ASSUME NEW x \in Code, NEW y \in Code, NEW l \in Code,
               NEW p \in Position, NEW q \in Position, Forks(x, y, l, p, q),
               Quiet({x, y, l})'
        PROVE  /\ l[p] = 1 => LastInv(x, y, l, p, q)'
               /\ l[p] = 0 => FirstInv(x, y, l, p, q)'
    <3>1. Quiet({x, y, l}) /\ UNCHANGED given /\ Scan
      BY <2>1, <2>5
    <3>2. /\ l[p] = 1 => LastInv(x, y, l, p, q)
          /\ l[p] = 0 => FirstInv(x, y, l, p, q)
      BY <1>1, <2>5, <3>1 DEF ByNumber
    <3>3. ASSUME l[p] = 1 PROVE LastInv(x, y, l, p, q)'
      BY <1>1, <2>5, <3>1, <3>2, <3>3, LastStep
    <3>4. ASSUME l[p] = 0 PROVE FirstInv(x, y, l, p, q)'
      BY <1>1, <2>5, <3>1, <3>2, <3>4, FirstStep
    <3> QED BY <3>3, <3>4
  <2>6. \A z, o \in Code : \A p \in Position :
          Fork(z, o, p) /\ Quiet({z, o})' => TwoInv(z, o, p)'
    BY <2>4
  <2>7. \A x, y, l \in Code : \A p, q \in Position :
          Forks(x, y, l, p, q) /\ Quiet({x, y, l})'
            => /\ l[p] = 1 => LastInv(x, y, l, p, q)'
               /\ l[p] = 0 => FirstInv(x, y, l, p, q)'
    BY <2>5
  <2> QED BY <2>2, <2>3, <2>6, <2>7 DEF ByNumber
<1> QED BY <1>2, <1>3

LEMMA SearchStep == SearchInv /\ [Next]_vars => SearchInv'
<1> SUFFICES ASSUME SearchInv, [Next]_vars PROVE SearchInv'
  OBVIOUS
<1>1. IInv' /\ Cleared' /\ ByNumber'
  BY StepLemma, ClearedStep, ByNumberStep DEF SearchInv
<1>2. Undisturbed'
  <2>1. CASE \E d \in devices : Unplug(d)
    BY <2>1 DEF Unplug, Undisturbed
  <2>2. CASE BusFails
    BY <2>2 DEF BusFails, Undisturbed
  <2>3. CASE Scan \/ UNCHANGED vars
    <3>1. UNCHANGED given
      BY <2>3 DEF Scan, NoMoreCodes, BusReset, OneBit, CodeRead, vars
    <3> QED BY <3>1 DEF given, SearchInv, Undisturbed
  <2> QED BY <2>1, <2>2, <2>3 DEF Next
<1> QED BY <1>1, <1>2 DEF SearchInv

\* The devices of a bus nobody disturbs, if they are few, fall under ByNumber.
LEMMA FewDevices ==
  ASSUME SearchInv, ~disturbed, Cardinality(connected) <= 3
  PROVE  /\ Quiet(devices)
         /\ \/ devices = {} /\ NoneInv
            \/ \E z \in Code : devices = {z} /\ OneInv(z)
            \/ \E z, o \in Code, p \in Position : devices = {z, o} /\ TwoInv(z, o, p)
            \/ /\ Cardinality(connected) > 2
               /\ \E x, y, l \in Code, p, q \in Position :
                    /\ devices = {x, y, l}
                    /\ LastInv(x, y, l, p, q) \/ FirstInv(x, y, l, p, q)
<1>1. /\ devices = connected /\ devices \subseteq Code /\ Quiet(devices) /\ ByNumber
      /\ IsFiniteSet(devices)
  BY CodeIsFinite, FS_Subset DEF SearchInv, IInv, Types, Undisturbed, Quiet
<1>2. CASE devices = {}
  BY <1>1, <1>2 DEF ByNumber
<1>3. ASSUME NEW a \in devices, devices = {a} PROVE OneInv(a)
  BY <1>1, <1>3 DEF ByNumber
<1>4. ASSUME NEW a \in devices, NEW b \in devices, a # b, devices = {a, b}
      PROVE  \E z, o \in Code, p \in Position : devices = {z, o} /\ TwoInv(z, o, p)
  <2>1. PICK z \in Code, o \in Code : {z, o} = {a, b} /\ \E p \in Position : Fork(z, o, p)
    BY <1>1, <1>4, ForkExists
  <2>2. PICK p \in Position : Fork(z, o, p)
    BY <2>1
  <2>3. devices = {z, o} /\ Quiet({z, o})
    BY <1>1, <1>4, <2>1
  <2>4. TwoInv(z, o, p)
    BY <1>1, <2>2, <2>3 DEF ByNumber
  <2> QED BY <2>3, <2>4
<1>5. ASSUME NEW a \in devices, NEW b \in devices, NEW c \in devices,
             a # b, a # c, b # c, devices = {a, b, c}
      PROVE  \E x, y, l \in Code, p, q \in Position :
               devices = {x, y, l} /\ (LastInv(x, y, l, p, q) \/ FirstInv(x, y, l, p, q))
  <2>1. PICK x \in Code, y \in Code, l \in Code :
             {x, y, l} = {a, b, c} /\ \E p, q \in Position : Forks(x, y, l, p, q)
    BY <1>1, <1>5, ForksExist
  <2>2. PICK p \in Position, q \in Position : Forks(x, y, l, p, q)
    BY <2>1
  <2>3. devices = {x, y, l} /\ Quiet({x, y, l})
    BY <1>1, <1>5, <2>1
  <2>4. l[p] = 0 \/ l[p] = 1
    BY DEF Code
  <2>5. LastInv(x, y, l, p, q) \/ FirstInv(x, y, l, p, q)
    BY <1>1, <2>2, <2>3, <2>4 DEF ByNumber
  <2> QED BY <2>3, <2>5
<1>6. \/ devices = {} \/ \E a \in devices : devices = {a}
      \/ \E a, b \in devices : a # b /\ devices = {a, b}
      \/ /\ Cardinality(connected) > 2
         /\ \E a, b, c \in devices : a # b /\ a # c /\ b # c /\ devices = {a, b, c}
  BY <1>1, SmallSet
<1>7. \A a \in devices : a \in Code
  BY <1>1
<1> QED BY <1>1, <1>2, <1>3, <1>4, <1>5, <1>6, <1>7

LEMMA BothFound == SearchInv => FindsBothDevices
<1> SUFFICES ASSUME SearchInv, ~disturbed, Cardinality(connected) <= 2 PROVE FindsAll
  BY DEF FindsBothDevices
<1>0. IsFiniteSet(connected) /\ Cardinality(connected) \in Nat
  BY CodeIsFinite, FS_Subset, FS_CardinalityType DEF SearchInv, IInv, Types
<1>1. Cardinality(connected) <= 3 /\ ~(Cardinality(connected) > 2)
  BY <1>0
<1>2. CASE devices = {} /\ NoneInv
  BY <1>2 DEF NoneInv, FindsAll, Running
<1>3. ASSUME NEW z, devices = {z}, OneInv(z) PROVE FindsAll
  BY <1>3 DEF OneInv, FindsAll, AllFound, Searching, Running
<1>4. ASSUME NEW z, NEW o, NEW p, devices = {z, o}, TwoInv(z, o, p) PROVE FindsAll
  BY <1>4 DEF TwoInv, FindsAll, AllFound, Searching, Running
<1> QED BY <1>1, <1>2, <1>3, <1>4, FewDevices

LEMMA EndComplete == SearchInv => EndsComplete
<1> SUFFICES ASSUME SearchInv, ~disturbed, Cardinality(connected) <= 3,
                    outcome = "NoData"
             PROVE  found = devices /\ wanted \notin devices
  BY DEF EndsComplete
<1> DEFINE Complete == found = devices /\ wanted \notin devices
<1>1. ~NoneInv
  BY DEF NoneInv
<1>2. ASSUME NEW z, devices = {z}, OneInv(z) PROVE Complete
  BY <1>2 DEF OneInv, AllFound, Searching, Running
<1>3. ASSUME NEW z, NEW o, NEW p, devices = {z, o}, TwoInv(z, o, p) PROVE Complete
  BY <1>3 DEF TwoInv, AllFound, Searching, Running
<1>4. ASSUME NEW x, NEW y, NEW l, NEW p, NEW q, devices = {x, y, l},
             LastInv(x, y, l, p, q)
      PROVE  Complete
  BY <1>4 DEF LastInv, AllFound, Searching, Running
<1>5. ASSUME NEW x, NEW y, NEW l, NEW p, NEW q PROVE ~FirstInv(x, y, l, p, q)
  BY DEF FirstInv, Running
<1> HIDE DEF Complete
<1>6. Complete
  BY <1>1, <1>2, <1>3, <1>4, <1>5, FewDevices
<1> QED BY <1>6 DEF Complete

\* One or two devices that stay where they are: the loop that lists the codes gets each
\* exactly once, the loop that looks for one finds it if it is there, and no assertion
\* of handle_discrepancy_ fails, for every width of the codes.
THEOREM TwoAreFound == Spec => []FindsBothDevices
<1> QED BY SearchInit, SearchStep, BothFound, PTL DEF Spec

\* Three devices: a search that ends has listed all of them.
THEOREM ThreeEndComplete == Spec => []EndsComplete
<1> QED BY SearchInit, SearchStep, EndComplete, PTL DEF Spec
=============================================================================

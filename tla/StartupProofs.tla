---------------------------- MODULE StartupProofs ----------------------------
(***************************************************************************)
(* Proofs about the start and the end of the forwarder, for every command  *)
(* line, every number of ports, lcores and queues, and every capacity,     *)
(* page and bucket size:                                                   *)
(*   - the table the loop will use is the one that was initialised, its    *)
(*     loads stay inside the mapping and its memory is returned (TableInv  *)
(*     and HeapInv);                                                       *)
(*   - the destination map is an involution (PairInv);                     *)
(*   - every queue has one owner (AssignInv).                              *)
(***************************************************************************)
EXTENDS Startup, FiniteSetTheorems, WellFoundedInduction, TLAPS

-----------------------------------------------------------------------------
(* Arithmetic                                                               *)

LEMMA Division ==
    ASSUME NEW a \in Nat \ {0}, NEW x \in Nat
    PROVE  /\ x = a * (x \div a) + (x % a)
           /\ x \div a \in Nat /\ x % a \in 0 .. a - 1
OBVIOUS

LEMMA Remainder ==
    ASSUME NEW b \in Nat \ {0}, NEW w \in Nat, NEW s \in Nat, s < b
    PROVE  (b * w + s) % b = s
<1> DEFINE x == b * w + s
           d == x \div b
           r == x % b
<1>1. x \in Nat OBVIOUS
<1>2. x = b * d + r /\ d \in Nat /\ r \in 0 .. b - 1
  <2> HIDE DEF x
  <2> QED BY <1>1, Division
<1>3. b * w + s = b * d + r BY <1>2
<1> HIDE DEF x, d, r
<1>4. CASE d = w BY <1>2, <1>3, <1>4 DEF r, x
<1>5. CASE d < w
  <2>1. PICK k \in Nat \ {0} : w = d + k
    <3>1. w - d \in Nat \ {0} /\ w = d + (w - d) BY <1>2, <1>5
    <3> QED BY <3>1
  <2>2. b * w = b * d + b * k /\ b * k >= b BY <1>2, <2>1
  <2>3. b * k \in Nat /\ b * d \in Nat BY <1>2, <2>1
  <2> QED BY <1>2, <1>3, <2>2, <2>3
<1>6. CASE d > w
  <2>1. PICK k \in Nat \ {0} : d = w + k
    <3>1. d - w \in Nat \ {0} /\ d = w + (d - w) BY <1>2, <1>6
    <3> QED BY <3>1
  <2>2. b * d = b * w + b * k /\ b * k >= b BY <1>2, <2>1
  <2>3. b * k \in Nat /\ b * w \in Nat BY <1>2, <2>1
  <2> QED BY <1>2, <1>3, <2>2, <2>3
<1> QED BY <1>2, <1>4, <1>5, <1>6

LEMMA MultipleRemainder ==
    ASSUME NEW a \in Nat \ {0}, NEW w \in Nat
    PROVE  (w * a) % a = 0 /\ (a * w) % a = 0
<1>1. (a * w + 0) % a = 0 BY Remainder
<1>2. a * w + 0 = a * w /\ w * a = a * w OBVIOUS
<1> QED BY <1>1, <1>2

LEMMA ScaledRemainder ==
    ASSUME NEW a \in Nat \ {0}, NEW m \in Nat \ {0}, NEW y \in Nat
    PROVE  (a * y) % (a * m) = a * (y % m)
<1> DEFINE w == y \div m
           r == y % m
           b == a * m
           s == a * r
<1>0. y = m * w + r /\ w \in Nat /\ r \in 0 .. m - 1 BY Division, Zenon
<1> HIDE DEF w, r
<1>1. y = m * w + r /\ w \in Nat /\ r \in Nat /\ r <= m - 1 BY <1>0
<1>2. a * y = b * w + s BY <1>1
<1>3. b \in Nat \ {0} /\ s \in Nat BY <1>1
<1>4. s < b
  <2>1. a * r <= a * (m - 1) BY <1>1
  <2>2. a * (m - 1) = a * m - a OBVIOUS
  <2> QED BY <2>1, <2>2, <1>3
<1> HIDE DEF b, s
<1>5. (b * w + s) % b = s BY <1>1, <1>3, <1>4, Remainder
<1> QED BY <1>2, <1>5 DEF b, s, r

\* A divisor goes in without a remainder.
LEMMA DividesFacts ==
    ASSUME NEW a \in Nat \ {0}, NEW x \in Nat
    PROVE  x % a = 0 <=> \E w \in Nat : x = a * w
<1>1. ASSUME x % a = 0 PROVE \E w \in Nat : x = a * w
  <2>1. x = a * (x \div a) + (x % a) /\ x \div a \in Nat BY Division
  <2>2. a * (x \div a) \in Nat BY <2>1
  <2> QED BY <1>1, <2>1, <2>2
<1>2. ASSUME NEW w \in Nat, x = a * w PROVE x % a = 0 BY <1>2, MultipleRemainder
<1> QED BY <1>1, <1>2

\* AlignUp rounds up to whole pages, at least one.
LEMMA AlignUpFacts ==
    ASSUME NEW x \in Nat \ {0}, NEW a \in Nat \ {0}
    PROVE  /\ AlignUp(x, a) \in Nat /\ AlignUp(x, a) % a = 0
           /\ AlignUp(x, a) >= x /\ AlignUp(x, a) >= a
<1> DEFINE y == x + a - 1
           w == y \div a
           r == y % a
<1>1. y \in Nat /\ y >= a OBVIOUS
<1>2. y = a * w + r /\ w \in Nat /\ r \in 0 .. a - 1 BY <1>1, Division
<1>3. AlignUp(x, a) = w * a BY DEF AlignUp
<1>4. y = x + a - 1 OBVIOUS
<1> HIDE DEF y, w, r
<1>5. w # 0
  <2>1. ASSUME w = 0 PROVE FALSE
    <3>1. a * w = 0 BY <2>1
    <3>2. y = r BY <1>2, <3>1
    <3> QED BY <1>1, <1>2, <3>2
  <2> QED BY <2>1
<1>6. w * a = a * w /\ a * w \in Nat BY <1>2
<1>7. a * w >= x BY <1>2, <1>4, <1>6
<1>8. a * w >= a BY <1>2, <1>5
<1>9. (w * a) % a = 0 BY <1>2, MultipleRemainder
<1> QED BY <1>3, <1>6, <1>7, <1>8, <1>9

\* Of two powers of two the smaller divides the larger.
LEMMA PowersDivide ==
    ASSUME NEW a \in Nat, NEW b \in Nat, PowerOfTwo(a), PowerOfTwo(b), a <= b
    PROVE  \E w \in Nat \ {0} : b = a * w
<1> DEFINE Fine(x, y) == \E w \in Nat : y = x * w
           Bad == {x \in Nat : PowerOfTwo(x) /\ \E y \in Nat : PowerOfTwo(y) /\ x <= y /\ ~Fine(x, y)}
<1>1. Bad = {}
  <2> SUFFICES ASSUME Bad # {} PROVE FALSE OBVIOUS
  <2>1. PICK x \in Bad : \A z \in Bad : ~(<<z, x>> \in OpToRel(<, Nat))
    BY WFMin, NatLessThanWellFounded
  <2>2. \A z \in Bad : ~(z < x) BY <2>1 DEF OpToRel
  <2>3. x \in Nat /\ PowerOfTwo(x) OBVIOUS
  <2>4. PICK y \in Nat : PowerOfTwo(y) /\ x <= y /\ ~Fine(x, y) OBVIOUS
  <2>5. x > 0 BY <2>3 DEF PowerOfTwo
  <2>6. x # 1
    <3>1. y = 1 * y OBVIOUS
    <3> QED BY <2>4, <3>1
  <2>7. PICK u \in Nat : x = 2 * u
    <3>1. x \in 2 .. x /\ x % x = 0
      <4>1. (x * 1) % x = 0 /\ x * 1 = x BY <2>3, <2>5, MultipleRemainder
      <4> QED BY <2>3, <2>5, <2>6, <4>1
    <3>2. x % 2 = 0 BY <2>3, <3>1 DEF PowerOfTwo
    <3> QED BY <2>3, <3>2
  <2>8. PICK v \in Nat : y = 2 * v
    <3>1. y \in 2 .. y /\ y % y = 0
      <4>1. y > 0 BY <2>4 DEF PowerOfTwo
      <4>2. (y * 1) % y = 0 /\ y * 1 = y BY <4>1, MultipleRemainder
      <4> QED BY <2>3, <2>4, <2>5, <2>6, <4>1, <4>2
    <3>2. y % 2 = 0 BY <2>4, <3>1 DEF PowerOfTwo
    <3> QED BY <3>2
  <2>9. ASSUME NEW z \in Nat, NEW h \in Nat, PowerOfTwo(z), z = 2 * h
        PROVE  PowerOfTwo(h)
    <3>1. h > 0 BY <2>9 DEF PowerOfTwo
    <3>2. ASSUME NEW d \in 2 .. h, h % d = 0 PROVE d % 2 = 0
      <4>0. d \in Nat \ {0} OBVIOUS
      <4>1. PICK w \in Nat : h = d * w BY <3>2, <4>0, DividesFacts
      <4>2. z = d * (2 * w) /\ 2 * w \in Nat BY <2>9, <4>1
      <4>3. z % d = 0 BY <4>0, <4>1, <4>2, DividesFacts
      <4>4. d \in 2 .. z BY <2>9, <3>1
      <4> QED BY <2>9, <4>3, <4>4 DEF PowerOfTwo
    <3> QED BY <3>1, <3>2 DEF PowerOfTwo
  <2>10. PowerOfTwo(u) /\ PowerOfTwo(v) BY <2>3, <2>4, <2>7, <2>8, <2>9
  <2>11. u < x /\ u <= v BY <2>4, <2>5, <2>7, <2>8
  <2>12. u \notin Bad BY <2>2, <2>11
  <2>13. PICK w \in Nat : v = u * w BY <2>10, <2>11, <2>12
  <2>14. y = x * w BY <2>7, <2>8, <2>13
  <2> QED BY <2>4, <2>14
<1>2. PICK w \in Nat : b = a * w BY <1>1
<1>3. w # 0
  <2>1. b > 0 BY DEF PowerOfTwo
  <2>2. w = 0 => a * w = 0 OBVIOUS
  <2> QED BY <1>2, <2>1, <2>2
<1> QED BY <1>2, <1>3

-----------------------------------------------------------------------------
(* The options and the table                                                *)

\* The phases before the table is touched.
Early == {"parse", "pair", "assign", "setup"}

\* How the program may end before the workers are launched.
Failed == {"no_ports", "not_enough_cores", "no_pool", "port_failed", "no_buffer",
           "not_wired", "no_memory", "null_write"}

\* Only a refused option leaves a capacity that is not a mask.
ArgInv ==
    /\ argv \in Seq(Options)
    /\ queues_per_port \in Nat /\ CAPACITY \in Nat
    /\ pc # "bad_args" => PowerOfTwo(CAPACITY) /\ CAPACITY <= MaxCapacity

\* How far the tables have come in every phase of main.
TableInv ==
    /\ pc \in Early => tables = {} /\ mem = "new"
    /\ pc = "dramblast_init" =>
          /\ tables = {} /\ mem \in {"new", "queues", "find_queues"}
          /\ ~maglev_enabled /\ ~sashstore_enabled /\ dramblast_enabled
    /\ pc = "run" =>
          IF maglev_enabled THEN tables = {"maglev"} /\ mem = "new"
          ELSE /\ ~sashstore_enabled
               /\ IF dramblast_enabled THEN tables = {"dramblast"} /\ mem = "ready"
                  ELSE tables = {} /\ mem = "new"
    /\ pc = "destroy" => mem \in {"new", "ready", "unmapped"}
    /\ pc = "exit" => mem \in {"new", "gone"}

\* What is on the heap and mapped in every phase of init and destroy.
HeapInv ==
    /\ cpu \in 0 .. MaxCpu
    /\ heap \subseteq {Root, Queues} \cup {FindQueueOf(c) : c \in 0 .. MaxCpu - 1}
    /\ mem \in {"new", "gone"} => heap = {}
    /\ mem \in {"new", "queues", "find_queues", "unmapped", "gone"} => mapping = NoMapping
    /\ mem = "ready" =>
          /\ len = CAPACITY
          /\ mapping = [bytes |-> get_aligned_table_size(Bytes(len)),
                        page |-> IF Bytes(len) > LargePage THEN LargePage ELSE SmallPage]
    /\ mem = "unmapped" => \A c \in 0 .. cpu - 1 : FindQueueOf(c) \notin heap

MemoryInv == ArgInv /\ TableInv /\ HeapInv

LEMMA Constants ==
    /\ MaxCpu \in Nat \ {0} /\ Lanes \in Nat \ {0} /\ KvSize \in Nat \ {0}
    /\ SmallPage \in Nat \ {0} /\ LargePage \in Nat \ {0}
    /\ Lanes * KvSize <= SmallPage /\ SmallPage <= LargePage
<1>1. /\ MaxCpu \in Nat \ {0} /\ Lanes \in Nat \ {0} /\ KvSize \in Nat \ {0}
      /\ SmallPage \in Nat \ {0} /\ LargePage \in Nat \ {0}
      /\ Lanes * KvSize <= SmallPage /\ LargePage % SmallPage = 0
  BY MemoryAssumption
<1>2. PICK w \in Nat : LargePage = SmallPage * w BY <1>1, DividesFacts
<1>3. w # 0
  <2>1. w = 0 => SmallPage * w = 0 BY <1>1
  <2> QED BY <1>1, <1>2, <2>1
<1>4. SmallPage * w >= SmallPage BY <1>1, <1>3
<1> QED BY <1>1, <1>2, <1>4

\* A table of a valid capacity is mapped on whole pages that hold it and a
\* bucket.
LEMMA MappingFacts ==
    ASSUME NEW c \in Nat, PowerOfTwo(c)
    PROVE  LET bytes == get_aligned_table_size(Bytes(c))
               page == IF Bytes(c) > LargePage THEN LargePage ELSE SmallPage
           IN  /\ bytes \in Nat /\ bytes % page = 0
               /\ bytes >= Bytes(c) /\ bytes >= Bytes(Lanes)
<1> DEFINE x == Bytes(c)
           page == IF x > LargePage THEN LargePage ELSE SmallPage
<1>1. x \in Nat \ {0}
  <2>1. c > 0 BY DEF PowerOfTwo
  <2> QED BY <2>1, Constants DEF Bytes
<1>2. page \in Nat \ {0} /\ page >= SmallPage BY <1>1, Constants
<1>3. get_aligned_table_size(x) = AlignUp(x, page) BY DEF get_aligned_table_size
<1> HIDE DEF x, page
<1>4. /\ AlignUp(x, page) \in Nat /\ AlignUp(x, page) % page = 0
      /\ AlignUp(x, page) >= x /\ AlignUp(x, page) >= page
  BY <1>1, <1>2, AlignUpFacts
<1>5. Bytes(Lanes) <= page /\ Bytes(Lanes) \in Nat BY <1>2, Constants DEF Bytes
<1>6. AlignUp(x, page) >= Bytes(Lanes) BY <1>2, <1>4, <1>5
<1> QED BY <1>3, <1>4, <1>6 DEF x, page

\* The next option of the command line.
LEMMA OptionFacts ==
    ASSUME argv \in Seq(Options), argv # <<>>
    PROVE  /\ Tail(argv) \in Seq(Options)
           /\ Head(argv).opt \in {"c", "q"} => Arg \in Nat
BY StartupAssumption DEF Arg

\* Steps that leave options, tables and memory alone.
LEMMA QuietStep ==
    ASSUME MemoryInv, UNCHANGED <<argv, args, tables, memVars>>,
           \/ pc' = pc
           \/ pc \in Early /\ pc' \in Early \cup Failed
    PROVE  MemoryInv'
<1>1. UNCHANGED <<argv, queues_per_port, CAPACITY, tables, mem, heap, cpu, len, mapping,
                  maglev_enabled, sashstore_enabled, dramblast_enabled>>
  BY DEF args, memVars
<1>2. ArgInv' BY <1>1 DEF MemoryInv, ArgInv, Early
<1>3. HeapInv' BY <1>1 DEF MemoryInv, HeapInv
<1>4. TableInv'
  <2>1. CASE pc' = pc BY <1>1, <2>1 DEF MemoryInv, TableInv
  <2>2. CASE pc \in Early /\ pc' \in Early \cup Failed
    <3>1. tables = {} /\ mem = "new" BY <2>2 DEF MemoryInv, TableInv
    <3>2. pc' \notin {"dramblast_init", "run", "destroy", "exit"} BY <2>2 DEF Early, Failed
    <3> QED BY <1>1, <3>1, <3>2 DEF TableInv
  <2> QED BY <2>1, <2>2
<1> QED BY <1>2, <1>3, <1>4 DEF MemoryInv

\* Steps of l2fwd_parse_args.
LEMMA ParseStep ==
    ASSUME MemoryInv, pc = "parse", pc' \in {"parse", "bad_args", "pair", "no_ports"},
           UNCHANGED <<tables, memVars>>, ArgInv'
    PROVE  MemoryInv'
<1>1. UNCHANGED <<tables, mem, heap, cpu, len, mapping>> BY DEF memVars
<1>2. tables = {} /\ mem = "new" BY DEF MemoryInv, TableInv, Early
<1>3. TableInv' BY <1>1, <1>2 DEF TableInv
<1>4. HeapInv' BY <1>1, <1>2 DEF MemoryInv, HeapInv
<1> QED BY <1>3, <1>4 DEF MemoryInv

LEMMA ParseKeeps == ASSUME MemoryInv, Parse PROVE MemoryInv'
<1>1. CASE ParseMode
  <2>1. pc = "parse" /\ argv # <<>> /\ argv' = Tail(argv) BY <1>1 DEF ParseMode, Option, Accept
  <2>2. pc' \in {"parse", "bad_args"} /\ UNCHANGED <<CAPACITY, queues_per_port, tables, memVars>>
    BY <1>1 DEF ParseMode, Accept
  <2>3. ArgInv' BY <2>1, <2>2, OptionFacts DEF MemoryInv, ArgInv
  <2> QED BY <2>1, <2>2, <2>3, ParseStep
<1>2. CASE ParseCapacity
  <2>1. /\ pc = "parse" /\ argv # <<>> /\ argv' = Tail(argv)
        /\ Head(argv).opt = "c" /\ CAPACITY' = Arg
    BY <1>2 DEF ParseCapacity, Option, Accept
  <2>2. /\ pc' = IF PowerOfTwo(Arg) /\ Arg <= MaxCapacity THEN "parse" ELSE "bad_args"
        /\ UNCHANGED <<queues_per_port, tables, memVars>>
    BY <1>2 DEF ParseCapacity, Accept
  <2>3. Tail(argv) \in Seq(Options) /\ Arg \in Nat
    BY <2>1, OptionFacts DEF MemoryInv, ArgInv
  <2>4. ArgInv' BY <2>1, <2>2, <2>3 DEF MemoryInv, ArgInv
  <2> QED BY <2>1, <2>2, <2>4, ParseStep
<1>3. CASE ParsePorts
  <2>1. pc = "parse" /\ argv # <<>> /\ argv' = Tail(argv) BY <1>3 DEF ParsePorts, Option, Accept
  <2>2. pc' \in {"parse", "bad_args"} /\ UNCHANGED <<CAPACITY, queues_per_port, tables, memVars>>
    BY <1>3 DEF ParsePorts, Accept
  <2>3. ArgInv' BY <2>1, <2>2, OptionFacts DEF MemoryInv, ArgInv
  <2> QED BY <2>1, <2>2, <2>3, ParseStep
<1>4. CASE ParseQueues
  <2>1. /\ pc = "parse" /\ argv # <<>> /\ argv' = Tail(argv)
        /\ Head(argv).opt = "q" /\ queues_per_port' = Arg
    BY <1>4 DEF ParseQueues, Option, Accept
  <2>2. pc' \in {"parse", "bad_args"} /\ UNCHANGED <<CAPACITY, tables, memVars>>
    BY <1>4 DEF ParseQueues, Accept
  <2>3. Tail(argv) \in Seq(Options) /\ Arg \in Nat
    BY <2>1, OptionFacts DEF MemoryInv, ArgInv
  <2>4. ArgInv' BY <2>1, <2>2, <2>3 DEF MemoryInv, ArgInv
  <2> QED BY <2>1, <2>2, <2>4, ParseStep
<1>5. CASE ParseOther
  <2>1. pc = "parse" /\ argv # <<>> /\ argv' = Tail(argv) BY <1>5 DEF ParseOther, Accept
  <2>2. pc' \in {"parse", "bad_args"} /\ UNCHANGED <<CAPACITY, queues_per_port, tables, memVars>>
    BY <1>5 DEF ParseOther, Accept, args
  <2>3. ArgInv' BY <2>1, <2>2, OptionFacts DEF MemoryInv, ArgInv
  <2> QED BY <2>1, <2>2, <2>3, ParseStep
<1>6. CASE ParseDone
  <2>1. /\ pc = "parse" /\ pc' \in {"pair", "no_ports"}
        /\ UNCHANGED <<argv, args, tables, memVars>>
    BY <1>6 DEF ParseDone
  <2> QED BY <2>1, QuietStep DEF Early, Failed
<1> QED BY <1>1, <1>2, <1>3, <1>4, <1>5, <1>6 DEF Parse

LEMMA PortsKeep ==
    ASSUME MemoryInv, SkipPort \/ Pair \/ Assign \/ SetupPort \/ NoTxBuffer
    PROVE  MemoryInv'
<1>1. UNCHANGED <<argv, args, tables, memVars>>
  BY DEF SkipPort, Pair, PairPort, PairDone, Assign, NextLcore, AssignQueue,
         AssignNextPort, AssignDone, SetupPort, NoTxBuffer
<1>2. pc' = pc \/ (pc \in Early /\ pc' \in Early \cup Failed)
  BY DEF SkipPort, Pair, PairPort, PairDone, Assign, Assigning, NextLcore, AssignQueue,
         AssignNextPort, AssignDone, SetupPort, NoTxBuffer, Early, Failed
<1> QED BY <1>1, <1>2, QuietStep

LEMMA InitTableKeeps == ASSUME MemoryInv, InitTable PROVE MemoryInv'
<1>1. /\ pc = "setup"
      /\ UNCHANGED <<argv, queues_per_port, CAPACITY, maglev_enabled, sashstore_enabled,
                     dramblast_enabled, mem, heap, cpu, len, mapping>>
  BY DEF InitTable, args, memVars
<1>2. tables = {} /\ mem = "new" BY <1>1 DEF MemoryInv, TableInv, Early
<1>3. HeapInv' BY <1>1 DEF MemoryInv, HeapInv
<1>4. CASE maglev_enabled
  <2>1. \/ pc' = "run" /\ tables' = {"maglev"}
        \/ pc' = "no_memory" /\ tables' = tables
    BY <1>4 DEF InitTable
  <2>2. TableInv' BY <1>1, <1>2, <1>4, <2>1 DEF TableInv, Early
  <2>3. ArgInv' BY <1>1, <2>1 DEF MemoryInv, ArgInv
  <2> QED BY <1>3, <2>2, <2>3 DEF MemoryInv
<1>5. CASE ~maglev_enabled
  <2>1. /\ tables' = tables
        /\ pc' = IF sashstore_enabled THEN "not_wired"
                 ELSE IF dramblast_enabled THEN "dramblast_init" ELSE "run"
    BY <1>5 DEF InitTable
  <2>2. TableInv' BY <1>1, <1>2, <1>5, <2>1 DEF TableInv, Early
  <2>3. ArgInv' BY <1>1, <2>1 DEF MemoryInv, ArgInv
  <2> QED BY <1>3, <2>2, <2>3 DEF MemoryInv
<1> QED BY <1>4, <1>5

\* dramblast_init allocates and maps what dramblast_destroy will look for.
LEMMA InitDramblastKeeps == ASSUME MemoryInv, InitDramblast PROVE MemoryInv'
<1>1. /\ pc = "dramblast_init" /\ dramblast_init(CAPACITY)
      /\ pc' = CASE mem' = "ready" -> "run"
                 [] mem' \in {"no_memory", "null_write"} -> mem'
                 [] OTHER -> pc
      /\ tables' = IF mem' = "ready" THEN {"dramblast"} ELSE tables
      /\ UNCHANGED <<argv, queues_per_port, CAPACITY, maglev_enabled, sashstore_enabled,
                     dramblast_enabled>>
  BY DEF InitDramblast, args
<1>2. /\ tables = {} /\ ~maglev_enabled /\ ~sashstore_enabled /\ dramblast_enabled
      /\ mem \in {"new", "queues", "find_queues"}
  BY <1>1 DEF MemoryInv, TableInv
<1>3. mem' \in {"queues", "find_queues", "ready", "no_memory", "null_write"}
  BY <1>1, <1>2 DEF dramblast_init, AllocRoot, AllocQueues, AllocFindQueue, MapTable
<1>4. pc' \in {"run", "no_memory", "null_write", "dramblast_init"}
      /\ (pc' = "run" <=> mem' = "ready")
      /\ (pc' = "dramblast_init" => mem' \in {"queues", "find_queues"})
  BY <1>1, <1>3
<1>5. ArgInv' BY <1>1, <1>4 DEF MemoryInv, ArgInv
<1>6. TableInv' BY <1>1, <1>2, <1>3, <1>4 DEF TableInv, Early
<1>7. HeapInv'
  <2>1. cpu \in 0 .. MaxCpu /\ MaxCpu \in Nat /\ mapping = NoMapping
        /\ heap \subseteq {Root, Queues} \cup {FindQueueOf(c) : c \in 0 .. MaxCpu - 1}
    BY <1>2, Constants DEF MemoryInv, HeapInv
  <2>2. CASE AllocRoot
    BY <1>3, <2>1, <2>2 DEF AllocRoot, HeapInv
  <2>3. CASE AllocQueues
    BY <1>3, <2>1, <2>3 DEF AllocQueues, HeapInv
  <2>4. CASE AllocFindQueue
    <3>1. cpu \in 0 .. MaxCpu - 1 /\ cpu' = cpu + 1 /\ mem' = mem /\ mem = "find_queues"
          /\ heap' \in {heap, heap \cup {FindQueueOf(cpu)}} /\ UNCHANGED <<len, mapping>>
      BY <2>1, <2>4 DEF AllocFindQueue
    <3>2. cpu' \in 0 .. MaxCpu BY <2>1, <3>1
    <3>3. heap' \subseteq {Root, Queues} \cup {FindQueueOf(c) : c \in 0 .. MaxCpu - 1}
      BY <2>1, <3>1
    <3> QED BY <2>1, <3>1, <3>2, <3>3 DEF HeapInv
  <2>5. CASE MapTable(CAPACITY)
    BY <1>1, <2>1, <2>5 DEF MapTable, HeapInv
  <2> QED BY <1>1, <2>2, <2>3, <2>4, <2>5 DEF dramblast_init
<1> QED BY <1>5, <1>6, <1>7 DEF MemoryInv

LEMMA FinishKeeps == ASSUME MemoryInv, Finish PROVE MemoryInv'
<1>1. /\ pc = "run" /\ pc' = IF dramblast_enabled THEN "destroy" ELSE "exit"
      /\ UNCHANGED <<argv, queues_per_port, CAPACITY, tables, mem, heap, cpu, len, mapping>>
  BY DEF Finish, args, memVars
<1>2. mem \in {"new", "ready"} /\ (~dramblast_enabled => mem = "new")
  BY <1>1 DEF MemoryInv, TableInv
<1>3. TableInv' BY <1>1, <1>2 DEF TableInv, Early
<1>4. ArgInv' /\ HeapInv' BY <1>1 DEF MemoryInv, ArgInv, HeapInv
<1> QED BY <1>3, <1>4 DEF MemoryInv

\* dramblast_destroy unmaps all that was mapped and frees all that is on the
\* heap.
LEMMA DestroyKeeps == ASSUME MemoryInv, Destroy PROVE MemoryInv'
<1>1. /\ pc = "destroy" /\ dramblast_destroy
      /\ pc' = IF mem' = "gone" THEN "exit" ELSE pc
      /\ UNCHANGED <<argv, queues_per_port, CAPACITY, tables>>
  BY DEF Destroy, args
<1>2. PowerOfTwo(CAPACITY) /\ CAPACITY \in Nat BY <1>1 DEF MemoryInv, ArgInv
<1>3. mem \in {"new", "ready", "unmapped"} BY <1>1 DEF MemoryInv, TableInv
<1>4. mem' \in {"unmapped", "gone"}
  BY <1>1 DEF dramblast_destroy, DestroyNothing, UnmapTable, FreeFindQueue, FreeRoot
<1>5. ArgInv' BY <1>1 DEF MemoryInv, ArgInv
<1>6. TableInv' BY <1>1, <1>4 DEF TableInv, Early
<1>7. HeapInv'
  <2>1. /\ cpu \in 0 .. MaxCpu /\ MaxCpu \in Nat
        /\ heap \subseteq {Root, Queues} \cup {FindQueueOf(c) : c \in 0 .. MaxCpu - 1}
    BY Constants DEF MemoryInv, HeapInv
  <2>2. CASE DestroyNothing BY <2>1, <2>2 DEF DestroyNothing, MemoryInv, HeapInv
  <2>3. CASE UnmapTable
    <3>1. /\ mem = "ready" /\ munmap(get_aligned_table_size(Bytes(len)))
          /\ mem' = "unmapped" /\ cpu' = 0 /\ UNCHANGED <<heap, len>>
      BY <2>3 DEF UnmapTable
    <3>2. /\ len = CAPACITY
          /\ mapping = [bytes |-> get_aligned_table_size(Bytes(len)),
                        page |-> IF Bytes(len) > LargePage THEN LargePage ELSE SmallPage]
      BY <3>1 DEF MemoryInv, HeapInv
    <3> DEFINE b == get_aligned_table_size(Bytes(len))
               page == IF Bytes(len) > LargePage THEN LargePage ELSE SmallPage
    <3>3. b \in Nat /\ b % page = 0 BY <1>2, <3>2, MappingFacts
    <3>4. mapping.bytes = b /\ mapping.page = page /\ munmap(b) BY <3>1, <3>2
    <3> HIDE DEF b, page
    <3>5. mapping' = NoMapping BY <3>3, <3>4 DEF munmap
    <3>6. \A c \in 0 .. cpu' - 1 : FindQueueOf(c) \notin heap' BY <3>1
    <3> QED BY <2>1, <3>1, <3>5, <3>6 DEF HeapInv
  <2>4. CASE FreeFindQueue
    <3>1. /\ mem = "unmapped" /\ mem' = "unmapped" /\ cpu < MaxCpu /\ cpu' = cpu + 1
          /\ heap' = heap \ {FindQueueOf(cpu)} /\ UNCHANGED <<len, mapping>>
      BY <2>4 DEF FreeFindQueue
    <3>2. mapping = NoMapping /\ \A c \in 0 .. cpu - 1 : FindQueueOf(c) \notin heap
      BY <3>1 DEF MemoryInv, HeapInv
    <3>3. cpu' \in 0 .. MaxCpu BY <2>1, <3>1
    <3>4. \A c \in 0 .. cpu' - 1 : FindQueueOf(c) \notin heap'
      <4> SUFFICES ASSUME NEW c \in 0 .. cpu' - 1 PROVE FindQueueOf(c) \notin heap' OBVIOUS
      <4>1. c = cpu \/ c \in 0 .. cpu - 1 BY <2>1, <3>1
      <4> QED BY <3>1, <3>2, <4>1
    <3>5. heap' \subseteq {Root, Queues} \cup {FindQueueOf(c) : c \in 0 .. MaxCpu - 1}
      BY <2>1, <3>1
    <3> QED BY <3>1, <3>2, <3>3, <3>4, <3>5 DEF HeapInv
  <2>5. CASE FreeRoot
    <3>1. /\ mem = "unmapped" /\ cpu = MaxCpu /\ mem' = "gone"
          /\ heap' = heap \ {Queues, Root} /\ UNCHANGED <<cpu, len, mapping>>
      BY <2>5 DEF FreeRoot
    <3>2. mapping = NoMapping /\ \A c \in 0 .. MaxCpu - 1 : FindQueueOf(c) \notin heap
      BY <3>1 DEF MemoryInv, HeapInv
    <3>3. heap' = {} BY <2>1, <3>1, <3>2
    <3> QED BY <2>1, <3>1, <3>2, <3>3 DEF HeapInv
  <2> QED BY <1>1, <2>2, <2>3, <2>4, <2>5 DEF dramblast_destroy
<1> QED BY <1>5, <1>6, <1>7 DEF MemoryInv

LEMMA MemoryInvariant == Spec => []MemoryInv
<1>1. Init => MemoryInv
  <2> SUFFICES ASSUME Init PROVE MemoryInv OBVIOUS
  <2>1. ArgInv BY StartupAssumption DEF Init, ArgInv
  <2>2. TableInv BY DEF Init, MemInit, TableInv, Early
  <2>3. HeapInv BY Constants DEF Init, MemInit, HeapInv
  <2> QED BY <2>1, <2>2, <2>3 DEF MemoryInv
<1>2. MemoryInv /\ [Next]_vars => MemoryInv'
  <2> SUFFICES ASSUME MemoryInv, [Next]_vars PROVE MemoryInv' OBVIOUS
  <2>1. CASE UNCHANGED vars BY <2>1, QuietStep DEF vars
  <2>2. CASE Next
    BY <2>2, ParseKeeps, PortsKeep, InitTableKeeps, InitDramblastKeeps, FinishKeeps,
       DestroyKeeps
    DEF Next
  <2> QED BY <2>1, <2>2
<1> QED BY <1>1, <1>2, PTL DEF Spec

\* Whatever modes and capacities the options of main.c ask for, the table the
\* loop uses has been initialised, with a capacity that is a mask.
THEOREM LoopTableIsReady == Spec => []LoopTableReady
<1>1. MemoryInv => LoopTableReady
  BY DEF MemoryInv, ArgInv, TableInv, LoopTableReady
<1> QED BY <1>1, MemoryInvariant, PTL

\* A run that ends normally has returned the heap objects and the mapping of
\* the dramblast table, whichever allocation failed.
THEOREM MemoryIsReturned == Spec => []MemoryReturned
<1>1. MemoryInv => MemoryReturned
  BY DEF MemoryInv, TableInv, HeapInv, MemoryReturned
<1> QED BY <1>1, MemoryInvariant, PTL

\* The slots a lookup loads lie inside the table or, if that is smaller than a
\* bucket, inside one bucket.
LEMMA LoadedSlotFacts ==
    ASSUME len \in Nat, PowerOfTwo(len), NEW s \in LoadedSlots
    PROVE  s \in Nat /\ (s < len \/ s < Lanes)
<1>1. PICK h \in 0 .. len - 1, n \in 0 .. len, l \in 0 .. Lanes - 1 :
          s = ((BucketOf(h) + Lanes * n) % len) + l
  BY DEF LoadedSlots
<1>2. len \in Nat \ {0} /\ Lanes \in Nat \ {0} BY Constants DEF PowerOfTwo
<1>3. PowerOfTwo(Lanes) BY StartupAssumption
<1> DEFINE x == h % len
           z == x \div Lanes
           i == (BucketOf(h) + Lanes * n) % len
<1>4. x \in 0 .. len - 1
  <2>1. h \in Nat BY <1>2
  <2> QED BY <1>2, <2>1, Division
<1>5. BucketOf(h) = Lanes * z /\ z \in Nat
  <2>1. x \in Nat BY <1>4
  <2>2. x = Lanes * z + (x % Lanes) /\ z \in Nat /\ x % Lanes \in 0 .. Lanes - 1
    BY <1>2, <2>1, Division
  <2>3. BucketOf(h) = x - (x % Lanes) BY DEF BucketOf
  <2> DEFINE r == x % Lanes
  <2> HIDE DEF x, z, r
  <2>4. x = Lanes * z + r /\ z \in Nat /\ r \in Nat /\ x \in Nat BY <1>2, <2>1, <2>2 DEF r
  <2>5. Lanes * z \in Nat BY <1>2, <2>4
  <2> QED BY <2>3, <2>4, <2>5 DEF r
<1>6. BucketOf(h) + Lanes * n = Lanes * (z + n) /\ z + n \in Nat
  <2>1. n \in Nat BY <1>2
  <2> HIDE DEF z
  <2> QED BY <1>2, <1>5, <2>1
<1>7. i = (Lanes * (z + n)) % len BY <1>6
<1> DEFINE y == z + n
<1>8. y \in Nat /\ i = (Lanes * y) % len BY <1>6, <1>7
<1> HIDE DEF x, z, i, y
<1>9. s = i + l /\ l \in Nat /\ l < Lanes BY <1>1, <1>2 DEF i
<1>10. CASE Lanes <= len
  <2>1. PICK m \in Nat \ {0} : len = Lanes * m BY <1>2, <1>3, <1>10, PowersDivide
  <2>2. i = Lanes * (y % m) BY <1>2, <1>8, <2>1, ScaledRemainder
  <2> DEFINE r == y % m
  <2>3. r \in 0 .. m - 1 BY <1>8, <2>1, Division
  <2> HIDE DEF r
  <2>4. i = Lanes * r /\ r \in Nat /\ r + 1 <= m BY <2>1, <2>2, <2>3 DEF r
  <2>5. Lanes * (r + 1) <= Lanes * m BY <1>2, <2>1, <2>4
  <2>6. Lanes * (r + 1) = Lanes * r + Lanes BY <1>2, <2>4
  <2>7. i \in Nat BY <1>2, <2>4
  <2> QED BY <1>2, <1>9, <2>1, <2>4, <2>5, <2>6, <2>7
<1>11. CASE ~(Lanes <= len)
  <2>1. PICK m \in Nat \ {0} : Lanes = len * m BY <1>2, <1>3, <1>11, PowersDivide
  <2>2. Lanes * y = len * (m * y) /\ m * y \in Nat BY <1>2, <1>8, <2>1
  <2>3. i = 0 BY <1>2, <1>8, <2>2, MultipleRemainder
  <2> QED BY <1>9, <2>3
<1> QED BY <1>10, <1>11, <1>2

\* Every bucket load of dramblast_find_batch_sync and every insertion stays
\* inside the mapping, also for -c 1 and -c 2.
THEOREM LoadsStayMapped == Spec => []LoadsMapped
<1>1. MemoryInv => LoadsMapped
  <2> SUFFICES ASSUME MemoryInv, pc = "run", "dramblast" \in tables
               PROVE  /\ len = CAPACITY
                      /\ \A s \in LoadedSlots \cup (0 .. len - 1) :
                            Bytes(s + 1) <= mapping.bytes
    BY DEF LoadsMapped
  <2>1. mem = "ready" BY DEF MemoryInv, TableInv
  <2>2. len = CAPACITY /\ mapping.bytes = get_aligned_table_size(Bytes(len))
    BY <2>1 DEF MemoryInv, HeapInv
  <2>3. PowerOfTwo(len) /\ len \in Nat BY <2>2 DEF MemoryInv, ArgInv
  <2>4. mapping.bytes \in Nat /\ mapping.bytes >= Bytes(len) /\ mapping.bytes >= Bytes(Lanes)
    BY <2>2, <2>3, MappingFacts
  <2>5. ASSUME NEW s \in LoadedSlots \cup (0 .. len - 1) PROVE Bytes(s + 1) <= mapping.bytes
    <3>1. s \in Nat /\ (s + 1 <= len \/ s + 1 <= Lanes)
      BY <2>3, LoadedSlotFacts, Constants
    <3>2. \A n \in Nat : s + 1 <= n => Bytes(s + 1) <= Bytes(n)
      BY <3>1, Constants DEF Bytes
    <3>3. Bytes(s + 1) \in Nat /\ Bytes(len) \in Nat /\ Bytes(Lanes) \in Nat
      BY <2>3, <3>1, Constants DEF Bytes
    <3> QED BY <2>3, <2>4, <3>1, <3>2, <3>3, Constants
  <2> QED BY <2>2, <2>5
<1> QED BY <1>1, MemoryInvariant, PTL

-----------------------------------------------------------------------------
(* The port map and the queues                                              *)

\* The phases after the assignment in which the program has not ended.
Assigned == {"setup", "dramblast_init", "run"}

\* The destination map swaps the ports of S in pairs.
Swaps(S) == \A p \in S : dst_ports[p] \in S \ {p} /\ dst_ports[dst_ports[p]] = p

\* The ports of S are paired, but for last_port if their number is odd.
PairedUp(S) ==
    /\ nb_ports_in_mask = Cardinality(S)
    /\ IF nb_ports_in_mask % 2 = 1 THEN last_port \in S /\ Swaps(S \ {last_port})
       ELSE Swaps(S)

PairInv ==
    /\ todo \subseteq Devices
    /\ DOMAIN dst_ports = Devices
    /\ pc = "parse" => nb_ports_in_mask = 0
    /\ pc = "pair" => PairedUp(Ports \ todo)
    /\ pc \in {"assign"} \cup Assigned =>
          /\ PairedUp(Ports)
          /\ nb_ports_in_mask % 2 = 1 => dst_ports[last_port] = last_port

\* The lists of the lcores hold the queues of S, one each, and no lcore has two.
Matching(S) ==
    /\ \A l \in LcoreIds : rx_port_list[l] # <<>> =>
          l \in Enabled \ {MainLcore} /\ \E x \in S : rx_port_list[l] = <<x>>
    /\ \A x \in S : \E l \in LcoreIds : rx_port_list[l] = <<x>>
    /\ \A l, m \in LcoreIds :
          rx_port_list[l] # <<>> /\ rx_port_list[l] = rx_port_list[m] => l = m

\* The queues that have been handed out: all of the ports that are done, the
\* first q of the current one.
Owned ==
    {x \in Ports \X Nat : IF x[1] \in todo THEN x[1] = Dev /\ x[2] < q
                          ELSE x[2] < queues_per_port}

AssignInv ==
    /\ rx_lcore_id \in Nat /\ q \in Nat
    /\ DOMAIN rx_port_list = LcoreIds
    /\ \A l \in LcoreIds : l >= rx_lcore_id => rx_port_list[l] = <<>>
    /\ pc \in {"parse", "pair"} => q = 0 /\ \A l \in LcoreIds : rx_port_list[l] = <<>>
    /\ pc = "assign" =>
          /\ Matching(Owned) /\ q <= queues_per_port
          /\ q > 0 => todo # {} /\ Dev \in port_mask
    /\ pc \in Assigned => Matching(Ports \X (0 .. queues_per_port - 1))

MapInv == PairInv /\ AssignInv

\* The next port is one of those to do.
LEMMA DevFacts == ASSUME todo \subseteq Devices, todo # {} PROVE Dev \in todo /\ Dev \in Nat
<1>1. todo \subseteq Nat BY StartupAssumption
<1>2. PICK x \in todo : \A y \in todo : ~(<<y, x>> \in OpToRel(<, Nat))
  BY <1>1, WFMin, NatLessThanWellFounded
<1>3. \A y \in todo : ~(y < x) BY <1>1, <1>2 DEF OpToRel
<1>4. \A y \in todo : x <= y BY <1>1, <1>3
<1> QED BY <1>1, <1>4 DEF Dev, Min

LEMMA PortFacts ==
    \A S : S \subseteq Ports => IsFiniteSet(S) /\ Cardinality(S) \in Nat
BY StartupAssumption, FS_Subset, FS_CardinalityType DEF Ports

\* Steps that leave the map and the queues alone.
LEMMA MapQuiet ==
    ASSUME MapInv, todo' \subseteq Devices, UNCHANGED <<port_mask, queues_per_port, pairing, assignment>>,
           \/ pc' = pc /\ todo' = todo
           \/ pc' \notin {"parse", "pair", "assign"} \cup Assigned
           \/ pc \in Assigned /\ pc' \in Assigned
    PROVE  MapInv'
<1>1. UNCHANGED <<last_port, nb_ports_in_mask, dst_ports, rx_lcore_id, q, rx_port_list,
                  port_mask, queues_per_port>>
  BY DEF pairing, assignment
<1>2. Ports' = Ports BY <1>1 DEF Ports
<1>3. \A S : (PairedUp(S) => PairedUp(S)') /\ (Matching(S) => Matching(S)')
  BY <1>1 DEF PairedUp, Swaps, Matching
<1>4. CASE pc' = pc /\ todo' = todo
  <2>1. Owned' = Owned BY <1>1, <1>2, <1>4 DEF Owned, Dev
  <2>2. PairedUp(Ports \ todo) => PairedUp(Ports \ todo)'
    BY <1>1, <1>2, <1>4 DEF PairedUp, Swaps
  <2>3. PairedUp(Ports) => PairedUp(Ports)' BY <1>1, <1>2 DEF PairedUp, Swaps
  <2>4. PairInv' BY <1>1, <1>4, <2>2, <2>3 DEF MapInv, PairInv
  <2>5. Matching(Owned) => Matching(Owned)' BY <1>1, <2>1 DEF Matching
  <2>6. Matching(Ports \X (0 .. queues_per_port - 1))
            => Matching(Ports \X (0 .. queues_per_port - 1))'
    BY <1>1, <1>2 DEF Matching
  <2>7. AssignInv' BY <1>1, <1>4, <2>5, <2>6 DEF MapInv, AssignInv, Dev
  <2> QED BY <2>4, <2>7 DEF MapInv
<1>5. CASE pc' \notin {"parse", "pair", "assign"} \cup Assigned
  BY <1>1, <1>5 DEF MapInv, PairInv, AssignInv
<1>6. CASE pc \in Assigned /\ pc' \in Assigned
  <2>1. PairedUp(Ports)' BY <1>1, <1>2, <1>6 DEF MapInv, PairInv, PairedUp, Swaps
  <2>2. Matching(Ports \X (0 .. queues_per_port - 1))'
    BY <1>1, <1>2, <1>6 DEF MapInv, AssignInv, Matching
  <2>3. pc' \notin {"parse", "pair", "assign"} BY <1>6 DEF Assigned
  <2>4. PairInv' BY <1>1, <1>6, <2>1, <2>3 DEF MapInv, PairInv
  <2>5. AssignInv' BY <1>1, <2>2, <2>3 DEF MapInv, AssignInv
  <2> QED BY <2>4, <2>5 DEF MapInv
<1> QED BY <1>4, <1>5, <1>6

\* The options are read before there is a map or a queue.
LEMMA ParseMaps == ASSUME MapInv, Parse PROVE MapInv'
<1>1. pc = "parse" /\ pc' \in {"parse", "bad_args", "pair", "no_ports"}
      /\ UNCHANGED <<pairing, assignment>>
  BY DEF Parse, ParseMode, ParseCapacity, ParsePorts, ParseQueues, ParseOther, ParseDone,
         Option, Accept
<1>2. \/ todo' = todo /\ pc' # "pair"
      \/ todo' = Devices
  BY DEF Parse, ParseMode, ParseCapacity, ParsePorts, ParseQueues, ParseOther, ParseDone,
         Accept
<1>3. /\ nb_ports_in_mask = 0 /\ q = 0 /\ \A l \in LcoreIds : rx_port_list[l] = <<>>
      /\ rx_lcore_id \in Nat /\ todo \subseteq Devices
      /\ DOMAIN dst_ports = Devices /\ DOMAIN rx_port_list = LcoreIds
  BY <1>1 DEF MapInv, PairInv, AssignInv
<1>4. UNCHANGED <<nb_ports_in_mask, dst_ports, rx_lcore_id, q, rx_port_list>>
  BY <1>1 DEF pairing, assignment
<1>5. AssignInv' BY <1>1, <1>3, <1>4 DEF AssignInv, Assigned
<1>6. pc' = "pair" => PairedUp(Ports \ todo)'
  <2> SUFFICES ASSUME pc' = "pair" PROVE PairedUp(Ports \ todo)' OBVIOUS
  <2>1. (Ports \ todo)' = {} BY <1>2 DEF Ports
  <2>2. nb_ports_in_mask' = 0 /\ Cardinality({}) = 0 BY <1>3, <1>4, FS_EmptySet
  <2>3. Swaps({})' BY DEF Swaps
  <2> QED BY <2>1, <2>2, <2>3 DEF PairedUp, Swaps
<1>7. todo' \subseteq Devices BY <1>2, <1>3
<1>8. PairInv' BY <1>1, <1>3, <1>4, <1>6, <1>7 DEF PairInv, Assigned
<1> QED BY <1>5, <1>8 DEF MapInv

\* Another port is paired or waits for its partner.
LEMMA PairPortMaps == ASSUME MapInv, PairPort PROVE MapInv'
<1> DEFINE D == Ports \ todo
           d == Dev
<1>1. /\ pc = "pair" /\ pc' = pc /\ todo # {} /\ d \in port_mask /\ todo' = todo \ {d}
      /\ nb_ports_in_mask' = nb_ports_in_mask + 1
      /\ UNCHANGED <<port_mask, queues_per_port, rx_lcore_id, q, rx_port_list>>
  BY DEF PairPort, args, assignment
<1>2. todo \subseteq Devices /\ DOMAIN dst_ports = Devices /\ PairedUp(D)
  BY <1>1 DEF MapInv, PairInv
<1>3. d \in todo /\ d \in Devices BY <1>1, <1>2, DevFacts
<1>4. (Ports \ todo)' = D \cup {d} /\ d \notin D BY <1>1, <1>3 DEF Ports
<1>5. D \subseteq Devices /\ IsFiniteSet(D) /\ Cardinality(D) \in Nat BY PortFacts DEF Ports
<1>6. nb_ports_in_mask = Cardinality(D) /\ nb_ports_in_mask \in Nat BY <1>2, <1>5 DEF PairedUp
<1>7. Cardinality(D \cup {d}) = nb_ports_in_mask + 1 BY <1>4, <1>5, <1>6, FS_AddElement
<1> HIDE DEF D, d
<1>8. CASE nb_ports_in_mask % 2 = 1
  <2>1. dst_ports' = [dst_ports EXCEPT ![d] = last_port, ![last_port] = d]
        /\ last_port' = last_port
    BY <1>8 DEF PairPort, d
  <2>2. last_port \in D /\ Swaps(D \ {last_port}) BY <1>2, <1>8 DEF PairedUp
  <2>3. d # last_port /\ last_port \in Devices BY <1>4, <1>5, <2>2
  <2>4. /\ dst_ports'[d] = last_port /\ dst_ports'[last_port] = d
        /\ \A p \in Devices \ {d, last_port} : dst_ports'[p] = dst_ports[p]
        /\ DOMAIN dst_ports' = Devices
    BY <1>2, <1>3, <2>1, <2>3
  <2>5. \A p \in D \cup {d} : dst_ports'[p] \in (D \cup {d}) \ {p} /\ dst_ports'[dst_ports'[p]] = p
    <3> SUFFICES ASSUME NEW p \in D \cup {d}
                 PROVE  dst_ports'[p] \in (D \cup {d}) \ {p} /\ dst_ports'[dst_ports'[p]] = p
      OBVIOUS
    <3>1. CASE p \in {d, last_port} BY <2>2, <2>3, <2>4, <3>1
    <3>2. CASE p \notin {d, last_port}
      <4>1. p \in D \ {last_port} BY <3>2
      <4>2. dst_ports[p] \in (D \ {last_port}) \ {p} /\ dst_ports[dst_ports[p]] = p
        BY <2>2, <4>1 DEF Swaps
      <4>3. dst_ports'[p] = dst_ports[p] BY <1>5, <2>4, <3>2, <4>1
      <4>4. dst_ports'[dst_ports[p]] = dst_ports[dst_ports[p]] BY <1>4, <1>5, <2>4, <4>2
      <4> QED BY <4>2, <4>3, <4>4
    <3> QED BY <3>1, <3>2
  <2>6. (nb_ports_in_mask + 1) % 2 # 1 BY <1>6, <1>8
  <2>7. PairedUp(Ports \ todo)' BY <1>1, <1>4, <1>7, <2>5, <2>6 DEF PairedUp, Swaps
  <2>8. PairInv' BY <1>1, <1>2, <2>4, <2>7 DEF PairInv, Assigned
  <2>9. AssignInv' BY <1>1 DEF MapInv, AssignInv, Assigned
  <2> QED BY <2>8, <2>9 DEF MapInv
<1>9. CASE nb_ports_in_mask % 2 # 1
  <2>1. dst_ports' = dst_ports /\ last_port' = d BY <1>9 DEF PairPort, d
  <2>2. Swaps(D) BY <1>2, <1>9 DEF PairedUp
  <2>3. (D \cup {d}) \ {d} = D BY <1>4
  <2>4. \A p \in D : dst_ports'[p] \in D \ {p} /\ dst_ports'[dst_ports'[p]] = p
    BY <2>1, <2>2 DEF Swaps
  <2>5. (nb_ports_in_mask + 1) % 2 = 1 BY <1>6, <1>9
  <2>6. PairedUp(Ports \ todo)' BY <1>1, <1>4, <1>7, <2>1, <2>3, <2>4, <2>5 DEF PairedUp, Swaps
  <2>7. PairInv' BY <1>1, <1>2, <2>1, <2>6 DEF PairInv, Assigned
  <2>8. AssignInv' BY <1>1 DEF MapInv, AssignInv, Assigned
  <2> QED BY <2>7, <2>8 DEF MapInv
<1> QED BY <1>8, <1>9

\* An odd port out becomes its own destination; no queue is assigned yet.
LEMMA PairDoneMaps == ASSUME MapInv, queues_per_port \in Nat, PairDone PROVE MapInv'
<1>1. /\ pc = "pair" /\ pc' = "assign" /\ todo = {} /\ todo' = Devices
      /\ dst_ports' = IF nb_ports_in_mask % 2 = 1
                        THEN [dst_ports EXCEPT ![last_port] = last_port] ELSE dst_ports
      /\ UNCHANGED <<port_mask, queues_per_port, last_port, nb_ports_in_mask,
                     rx_lcore_id, q, rx_port_list>>
  BY DEF PairDone, args, assignment
<1>2. Ports \ todo = Ports /\ Ports' = Ports /\ Ports \subseteq Devices BY <1>1 DEF Ports
<1>3. DOMAIN dst_ports = Devices /\ PairedUp(Ports) BY <1>1, <1>2 DEF MapInv, PairInv
<1>4. /\ DOMAIN dst_ports' = Devices /\ PairedUp(Ports)'
      /\ nb_ports_in_mask % 2 = 1 => dst_ports'[last_port] = last_port
  <2>1. CASE nb_ports_in_mask % 2 = 1
    <3>1. last_port \in Ports /\ Swaps(Ports \ {last_port}) BY <1>3, <2>1 DEF PairedUp
    <3>2. /\ DOMAIN dst_ports' = Devices /\ dst_ports'[last_port] = last_port
          /\ \A p \in Devices \ {last_port} : dst_ports'[p] = dst_ports[p]
      BY <1>1, <1>2, <1>3, <2>1, <3>1
    <3>3. \A p \in Ports \ {last_port} :
              /\ dst_ports'[p] \in (Ports \ {last_port}) \ {p}
              /\ dst_ports'[dst_ports'[p]] = p
      BY <1>2, <3>1, <3>2 DEF Swaps
    <3>4. PairedUp(Ports)' BY <1>1, <1>2, <1>3, <2>1, <3>1, <3>3 DEF PairedUp, Swaps
    <3> QED BY <3>2, <3>4
  <2>2. CASE nb_ports_in_mask % 2 # 1
    <3>1. dst_ports' = dst_ports BY <1>1, <2>2
    <3>2. PairedUp(Ports)' BY <1>1, <1>2, <1>3, <2>2, <3>1 DEF PairedUp, Swaps
    <3> QED BY <1>3, <2>2, <3>1, <3>2
  <2> QED BY <2>1, <2>2
<1>5. PairInv' BY <1>1, <1>4 DEF PairInv, Assigned
<1>6. /\ q = 0 /\ rx_lcore_id \in Nat /\ DOMAIN rx_port_list = LcoreIds
      /\ \A l \in LcoreIds : rx_port_list[l] = <<>>
  BY <1>1 DEF MapInv, AssignInv
<1>7. Owned' = {} BY <1>1, <1>2, <1>6 DEF Owned, Ports
<1>8. Matching(Owned)' BY <1>1, <1>6, <1>7 DEF Matching
<1>9. AssignInv' BY <1>1, <1>6, <1>8 DEF AssignInv, Assigned
<1> QED BY <1>5, <1>9 DEF MapInv

\* A port that is passed over has no entry and no queues.
LEMMA SkipPortMaps == ASSUME MapInv, SkipPort PROVE MapInv'
<1>1. /\ pc \in {"pair", "assign", "setup"} /\ pc' = pc /\ todo # {} /\ Dev \notin port_mask
      /\ todo' = todo \ {Dev}
      /\ UNCHANGED <<port_mask, queues_per_port, pairing, assignment>>
      /\ UNCHANGED <<last_port, nb_ports_in_mask, dst_ports, rx_lcore_id, q, rx_port_list>>
  BY DEF SkipPort, args, pairing, assignment
<1>2. todo \subseteq Devices /\ todo' \subseteq Devices BY <1>1 DEF MapInv, PairInv
<1>3. Dev \in todo /\ Dev \notin Ports BY <1>1, <1>2, DevFacts DEF Ports
<1>4. CASE pc = "setup" BY <1>1, <1>2, <1>4, MapQuiet DEF Assigned
<1>5. CASE pc = "pair"
  <2>1. (Ports \ todo)' = Ports \ todo BY <1>1, <1>3 DEF Ports
  <2>2. PairedUp(Ports \ todo)' BY <1>1, <1>5, <2>1 DEF MapInv, PairInv, PairedUp, Swaps
  <2>3. PairInv' BY <1>1, <1>2, <1>5, <2>2 DEF MapInv, PairInv, Assigned
  <2>4. AssignInv' BY <1>1, <1>5 DEF MapInv, AssignInv, Assigned
  <2> QED BY <2>3, <2>4 DEF MapInv
<1>6. CASE pc = "assign"
  <2>1. q = 0 /\ 0 <= queues_per_port /\ Matching(Owned) /\ rx_lcore_id \in Nat
        /\ DOMAIN rx_port_list = LcoreIds
        /\ \A l \in LcoreIds : l >= rx_lcore_id => rx_port_list[l] = <<>>
    BY <1>1, <1>6 DEF MapInv, AssignInv
  <2>2. Ports' = Ports BY <1>1 DEF Ports
  <2>3. \A x \in Ports \X Nat : ~(x[2] < q) BY <2>1
  <2>4. Owned = {x \in Ports \X Nat : x[1] \notin todo /\ x[2] < queues_per_port}
    BY <2>3 DEF Owned
  <2>5. Owned' = {x \in Ports \X Nat : x[1] \notin todo' /\ x[2] < queues_per_port}
    BY <1>1, <2>2, <2>3 DEF Owned
  <2>6. Owned' = Owned BY <1>1, <1>3, <2>4, <2>5
  <2>7. Matching(Owned)' BY <1>1, <2>1, <2>6 DEF Matching
  <2>8. AssignInv' BY <1>1, <1>6, <2>1, <2>7 DEF AssignInv, Assigned
  <2>9. PairedUp(Ports)' BY <1>1, <1>6, <2>2 DEF MapInv, PairInv, PairedUp, Swaps
  <2>10. PairInv' BY <1>1, <1>2, <1>6, <2>9 DEF MapInv, PairInv, Assigned
  <2> QED BY <2>8, <2>10 DEF MapInv
<1> QED BY <1>1, <1>4, <1>5, <1>6

\* The pairing does not change while queues are assigned.
LEMMA PairsRest ==
    ASSUME MapInv, pc = "assign", pc' = "assign" \/ pc' = "setup", todo' \subseteq Devices,
           UNCHANGED <<port_mask, last_port, nb_ports_in_mask, dst_ports>>
    PROVE  PairInv'
<1>1. Ports' = Ports BY DEF Ports
<1>2. PairedUp(Ports)' BY <1>1 DEF MapInv, PairInv, PairedUp, Swaps
<1> QED BY <1>2 DEF MapInv, PairInv, Assigned

\* An lcore that is passed over, or of which there are no more.
LEMMA NextLcoreMaps == ASSUME MapInv, NextLcore PROVE MapInv'
<1>1. /\ pc = "assign" /\ pc' \in {"assign", "not_enough_cores"}
      /\ rx_lcore_id' = rx_lcore_id + 1
      /\ UNCHANGED <<port_mask, queues_per_port, todo, last_port, nb_ports_in_mask, dst_ports,
                     q, rx_port_list>>
  BY DEF NextLcore, Assigning, args, pairing
<1>2. /\ q \in Nat /\ Matching(Owned) /\ q <= queues_per_port /\ rx_lcore_id \in Nat
      /\ q > 0 => todo # {} /\ Dev \in port_mask
      /\ DOMAIN rx_port_list = LcoreIds /\ todo \subseteq Devices /\ DOMAIN dst_ports = Devices
      /\ \A l \in LcoreIds : l >= rx_lcore_id => rx_port_list[l] = <<>>
  BY <1>1 DEF MapInv, AssignInv, PairInv
<1>3. \A l \in LcoreIds : l >= rx_lcore_id' => rx_port_list'[l] = <<>>
  BY <1>1, <1>2 DEF LcoreIds
<1>4. Owned' = Owned BY <1>1 DEF Owned, Ports, Dev
<1>5. Matching(Owned)' BY <1>1, <1>2, <1>4 DEF Matching
<1>6. Dev' = Dev BY <1>1 DEF Dev
<1>7. AssignInv' BY <1>1, <1>2, <1>3, <1>5, <1>6 DEF AssignInv, Assigned
<1>8. CASE pc' = "assign" BY <1>1, <1>2, <1>7, <1>8, PairsRest DEF MapInv
<1>9. CASE pc' = "not_enough_cores"
  <2>1. PairInv' BY <1>1, <1>2, <1>9 DEF PairInv, Assigned
  <2> QED BY <1>7, <2>1 DEF MapInv
<1> QED BY <1>1, <1>8, <1>9

\* The next queue of the port goes to an lcore that has none yet.
LEMMA AssignQueueMaps == ASSUME MapInv, queues_per_port \in Nat, AssignQueue PROVE MapInv'
<1> DEFINE l == rx_lcore_id
           x == <<Dev, q>>
<1>1. /\ pc = "assign" /\ pc' = pc /\ todo # {} /\ Dev \in port_mask /\ q < queues_per_port
      /\ l \in Enabled /\ l # MainLcore
      /\ rx_port_list' = [rx_port_list EXCEPT ![l] = Append(@, x)]
      /\ rx_lcore_id' = l + 1 /\ q' = q + 1
      /\ UNCHANGED <<port_mask, queues_per_port, todo, last_port, nb_ports_in_mask, dst_ports>>
  BY DEF AssignQueue, Assigning, Usable, args, pairing
<1>2. /\ q \in Nat /\ Matching(Owned) /\ l \in Nat
      /\ DOMAIN rx_port_list = LcoreIds /\ todo \subseteq Devices
      /\ \A k \in LcoreIds : k >= l => rx_port_list[k] = <<>>
  BY <1>1 DEF MapInv, AssignInv, PairInv
<1>3. l \in LcoreIds /\ rx_port_list[l] = <<>> BY <1>1, <1>2, StartupAssumption
<1>4. Append(<<>>, x) = <<x>> OBVIOUS
<1>5. /\ rx_port_list'[l] = <<x>> /\ DOMAIN rx_port_list' = LcoreIds
      /\ \A k \in LcoreIds \ {l} : rx_port_list'[k] = rx_port_list[k]
  BY <1>1, <1>2, <1>3, <1>4
<1>6. Dev' = Dev /\ Ports' = Ports BY <1>1 DEF Dev, Ports
<1>7. Dev \in todo /\ Dev \in Ports /\ x \in Ports \X Nat BY <1>1, <1>2, DevFacts DEF Ports
<1>8. x \notin Owned BY <1>2, <1>7 DEF Owned
<1>9. Owned' = Owned \cup {x}
  <2>1. \A y \in Ports \X Nat : (y \in Owned') <=> (y \in Owned \/ y = x)
    <3> SUFFICES ASSUME NEW p \in Ports, NEW n \in Nat
                 PROVE  (<<p, n>> \in Owned') <=> (<<p, n>> \in Owned \/ <<p, n>> = x)
      OBVIOUS
    <3>1. <<p, n>> \in Owned <=> IF p \in todo THEN p = Dev /\ n < q ELSE n < queues_per_port
      BY DEF Owned
    <3>2. <<p, n>> \in Owned' <=> IF p \in todo THEN p = Dev /\ n < q + 1
                                  ELSE n < queues_per_port
      BY <1>1, <1>6 DEF Owned
    <3>3. n < q + 1 <=> (n < q \/ n = q) BY <1>2
    <3> QED BY <1>7, <3>1, <3>2, <3>3
  <2>2. Owned \subseteq Ports \X Nat /\ Owned' \subseteq Ports \X Nat BY <1>6 DEF Owned
  <2> QED BY <1>7, <2>1, <2>2
<1> HIDE DEF l, x
<1>10. Matching(Owned)'
  <2>1. \A k \in LcoreIds : rx_port_list'[k] # <<>> =>
            k \in Enabled \ {MainLcore} /\ \E y \in Owned \cup {x} : rx_port_list'[k] = <<y>>
    <3> SUFFICES ASSUME NEW k \in LcoreIds, rx_port_list'[k] # <<>>
                 PROVE  k \in Enabled \ {MainLcore}
                        /\ \E y \in Owned \cup {x} : rx_port_list'[k] = <<y>>
      OBVIOUS
    <3>1. CASE k = l BY <1>1, <1>5, <3>1
    <3>2. CASE k # l BY <1>2, <1>5, <3>2 DEF Matching
    <3> QED BY <3>1, <3>2
  <2>2. \A y \in Owned : \E k \in LcoreIds : rx_port_list[k] = <<y>> BY <1>2 DEF Matching
  <2>3. \A y \in Owned \cup {x} : \E k \in LcoreIds : rx_port_list'[k] = <<y>>
    <3> SUFFICES ASSUME NEW y \in Owned PROVE \E k \in LcoreIds : rx_port_list'[k] = <<y>>
      BY <1>3, <1>5
    <3>1. PICK k \in LcoreIds : rx_port_list[k] = <<y>> BY <2>2
    <3>2. <<y>> # <<>> OBVIOUS
    <3>3. k # l BY <1>3, <3>1, <3>2
    <3> QED BY <1>5, <3>1, <3>3
  <2>4. \A k \in LcoreIds : rx_port_list[k] # <<x>>
    <3> SUFFICES ASSUME NEW k \in LcoreIds, rx_port_list[k] = <<x>> PROVE FALSE OBVIOUS
    <3>1. rx_port_list[k] # <<>> OBVIOUS
    <3>2. PICK y \in Owned : rx_port_list[k] = <<y>> BY <1>2, <3>1 DEF Matching
    <3>3. y = x BY <3>2
    <3> QED BY <1>8, <3>3
  <2>5. \A k, m \in LcoreIds :
            rx_port_list'[k] # <<>> /\ rx_port_list'[k] = rx_port_list'[m] => k = m
    <3> SUFFICES ASSUME NEW k \in LcoreIds, NEW m \in LcoreIds, rx_port_list'[k] # <<>>,
                        rx_port_list'[k] = rx_port_list'[m]
                 PROVE  k = m
      OBVIOUS
    <3>1. CASE k = l \/ m = l BY <1>5, <2>4, <3>1
    <3>2. CASE k # l /\ m # l BY <1>2, <1>5, <3>2 DEF Matching
    <3> QED BY <3>1, <3>2
  <2> QED BY <1>9, <2>1, <2>3, <2>5 DEF Matching
<1>11. \A k \in LcoreIds : k >= rx_lcore_id' => rx_port_list'[k] = <<>>
  BY <1>1, <1>2, <1>5 DEF LcoreIds, l
<1>12. rx_lcore_id' \in Nat /\ q' \in Nat /\ q' <= queues_per_port BY <1>1, <1>2 DEF l
<1>13. AssignInv' BY <1>1, <1>5, <1>6, <1>10, <1>11, <1>12 DEF AssignInv, Assigned
<1>14. PairInv' BY <1>1, <1>2, PairsRest
<1> QED BY <1>13, <1>14 DEF MapInv

\* All queues of the port have been handed out.
LEMMA AssignNextPortMaps ==
    ASSUME MapInv, queues_per_port \in Nat, AssignNextPort PROVE MapInv'
<1>1. /\ pc = "assign" /\ pc' = pc /\ todo # {} /\ Dev \in port_mask /\ q >= queues_per_port
      /\ todo' = todo \ {Dev} /\ q' = 0
      /\ UNCHANGED <<port_mask, queues_per_port, last_port, nb_ports_in_mask, dst_ports,
                     rx_lcore_id, rx_port_list>>
  BY DEF AssignNextPort, args, pairing
<1>2. /\ q = queues_per_port /\ Matching(Owned) /\ rx_lcore_id \in Nat
      /\ DOMAIN rx_port_list = LcoreIds /\ todo \subseteq Devices
      /\ \A k \in LcoreIds : k >= rx_lcore_id => rx_port_list[k] = <<>>
  BY <1>1 DEF MapInv, AssignInv, PairInv
<1>3. Dev \in todo BY <1>1, <1>2, DevFacts
<1>4. Ports' = Ports BY <1>1 DEF Ports
<1>5. \A y \in Ports \X Nat : (y \in Owned') <=> (y \in Owned)
  <2> SUFFICES ASSUME NEW y \in Ports \X Nat PROVE (y \in Owned') <=> (y \in Owned) OBVIOUS
  <2>1. y \in Owned <=> IF y[1] \in todo THEN y[1] = Dev /\ y[2] < q ELSE y[2] < queues_per_port
    BY DEF Owned
  <2>2. ~(y[2] < 0) OBVIOUS
  <2>3. y \in Owned' <=> y[1] \notin todo' /\ y[2] < queues_per_port
    BY <1>1, <1>4, <2>2 DEF Owned
  <2> QED BY <1>1, <1>2, <1>3, <2>1, <2>3
<1>6. Owned' = Owned
  <2>1. Owned \subseteq Ports \X Nat /\ Owned' \subseteq Ports \X Nat BY <1>4 DEF Owned
  <2> QED BY <1>5, <2>1
<1>7. Matching(Owned)' BY <1>1, <1>2, <1>6 DEF Matching
<1>8. AssignInv' BY <1>1, <1>2, <1>7 DEF AssignInv, Assigned
<1>9. PairInv' BY <1>1, <1>2, PairsRest
<1> QED BY <1>8, <1>9 DEF MapInv

\* Every queue of every enabled port has an lcore.
LEMMA AssignDoneMaps == ASSUME MapInv, queues_per_port \in Nat, AssignDone PROVE MapInv'
<1>1. /\ pc = "assign" /\ todo = {}
      /\ (pc' = "setup" /\ todo' = Devices) \/ (pc' = "no_pool" /\ todo' = todo)
      /\ UNCHANGED <<port_mask, queues_per_port, pairing, assignment>>
      /\ UNCHANGED <<last_port, nb_ports_in_mask, dst_ports, rx_lcore_id, q, rx_port_list>>
  BY DEF AssignDone, args, pairing, assignment
<1>2. CASE pc' = "no_pool" BY <1>1, <1>2, MapQuiet DEF MapInv, PairInv, Assigned
<1>3. CASE pc' = "setup"
  <2>1. Matching(Owned) BY <1>1 DEF MapInv, AssignInv
  <2>2. Owned = Ports \X (0 .. queues_per_port - 1)
    <3>1. Owned = {y \in Ports \X Nat : y[2] < queues_per_port} BY <1>1 DEF Owned
    <3>2. \A n \in Nat : n < queues_per_port <=> n \in 0 .. queues_per_port - 1 OBVIOUS
    <3> QED BY <3>1, <3>2
  <2>3. Ports' = Ports BY <1>1 DEF Ports
  <2>4. Matching(Ports \X (0 .. queues_per_port - 1))' BY <1>1, <2>1, <2>2, <2>3 DEF Matching
  <2>5. AssignInv' BY <1>1, <1>3, <2>4 DEF MapInv, AssignInv, Assigned
  <2>6. PairInv' BY <1>1, <1>3, PairsRest
  <2> QED BY <2>5, <2>6 DEF MapInv
<1> QED BY <1>1, <1>2, <1>3

\* The ports are set up and the table is made without a look at the map.
LEMMA RestMaps ==
    ASSUME MapInv,
           SetupPort \/ NoTxBuffer \/ InitTable \/ InitDramblast \/ Finish \/ Destroy
    PROVE  MapInv'
<1>1. todo \subseteq Devices BY DEF MapInv, PairInv
<1>2. CASE SetupPort
  <2>1. pc = "setup" /\ pc' \in {"setup", "port_failed"} /\ todo' \subseteq todo
        /\ UNCHANGED <<port_mask, queues_per_port, pairing, assignment>>
    BY <1>2 DEF SetupPort, args
  <2> QED BY <1>1, <2>1, MapQuiet DEF Assigned
<1>3. CASE NoTxBuffer \/ InitTable
  <2>1. pc = "setup" /\ pc' \in {"no_buffer", "run", "no_memory", "not_wired", "dramblast_init"}
        /\ UNCHANGED <<todo, port_mask, queues_per_port, pairing, assignment>>
    BY <1>3 DEF NoTxBuffer, InitTable, args
  <2> QED BY <1>1, <2>1, MapQuiet DEF Assigned
<1>4. CASE InitDramblast
  <2>1. pc = "dramblast_init" /\ pc' \in {"run", "no_memory", "null_write", pc}
        /\ UNCHANGED <<todo, port_mask, queues_per_port, pairing, assignment>>
    BY <1>4 DEF InitDramblast, args
  <2> QED BY <1>1, <2>1, MapQuiet DEF Assigned
<1>5. CASE Finish \/ Destroy
  <2>1. pc' \in {"exit", "destroy"}
        /\ UNCHANGED <<todo, port_mask, queues_per_port, pairing, assignment>>
    BY <1>5 DEF Finish, Destroy, args
  <2> QED BY <1>1, <2>1, MapQuiet DEF Assigned
<1> QED BY <1>2, <1>3, <1>4, <1>5

LEMMA MapKeeps == ASSUME MapInv, queues_per_port \in Nat, [Next]_vars PROVE MapInv'
<1>1. CASE UNCHANGED vars
  <2>1. todo \subseteq Devices BY DEF MapInv, PairInv
  <2>2. UNCHANGED <<pc, todo, port_mask, queues_per_port, pairing, assignment>>
    BY <1>1 DEF vars, args
  <2> QED BY <2>1, <2>2, MapQuiet
<1>2. CASE Parse BY <1>2, ParseMaps
<1>3. CASE SkipPort BY <1>3, SkipPortMaps
<1>4. CASE Pair BY <1>4, PairPortMaps, PairDoneMaps DEF Pair
<1>5. CASE Assign
  BY <1>5, NextLcoreMaps, AssignQueueMaps, AssignNextPortMaps, AssignDoneMaps DEF Assign
<1>6. CASE SetupPort \/ NoTxBuffer \/ InitTable \/ InitDramblast \/ Finish \/ Destroy
  BY <1>6, RestMaps
<1> QED BY <1>1, <1>2, <1>3, <1>4, <1>5, <1>6 DEF Next

LEMMA MapInit == Init => MapInv
BY DEF Init, MapInv, PairInv, AssignInv, Assigned

\* The map and the lists are as the loops left them, in every state.
THEOREM MapInvariant == Spec => []MapInv
<1>1. MapInv /\ MemoryInv /\ [Next]_vars => MapInv' BY MapKeeps DEF MemoryInv, ArgInv
<1> QED BY <1>1, MapInit, MemoryInvariant, PTL DEF Spec

\* QueuesOwnedOnce of Startup: when the workers start, every queue of every enabled
\* port is in the list of exactly one lcore, which is enabled and not the main one,
\* and no list holds anything else.
THEOREM QueuesAreOwnedOnce == Spec => []QueuesOwnedOnce
<1>1. MapInv => QueuesOwnedOnce
  <2> SUFFICES ASSUME MapInv, pc = "run" PROVE QueuesOwnedOnce BY DEF QueuesOwnedOnce
  <2> DEFINE S == Ports \X (0 .. queues_per_port - 1)
  <2>1. Matching(S) BY DEF MapInv, AssignInv, Assigned
  <2>2. \A l \in LcoreIds : rx_port_list[l] # <<>> =>
            l \in Enabled \ {MainLcore} /\ \E x \in S : rx_port_list[l] = <<x>>
    BY <2>1 DEF Matching
  <2>3. ASSUME NEW l \in LcoreIds, NEW m \in DOMAIN rx_port_list[l]
        PROVE  rx_port_list[l][m] \in S
    <3>1. rx_port_list[l] # <<>> BY <2>3
    <3>2. PICK x \in S : rx_port_list[l] = <<x>> BY <2>2, <3>1
    <3> HIDE DEF S
    <3> QED BY <2>3, <3>2
  <2>4. ASSUME NEW p \in Ports, NEW n \in 0 .. queues_per_port - 1
        PROVE  Cardinality(Pollers(p, n)) = 1
    <3> DEFINE x == <<p, n>>
    <3>1. x \in S OBVIOUS
    <3>2. PICK l \in LcoreIds : rx_port_list[l] = <<x>> BY <2>1, <3>1 DEF Matching
    <3>3. ASSUME NEW k \in LcoreIds, NEW m \in 1 .. MaxRxQueue,
                 m \in DOMAIN rx_port_list[k], rx_port_list[k][m] = x
          PROVE  k = l /\ m = 1
      <4>1. rx_port_list[k] # <<>> BY <3>3
      <4>2. PICK y \in S : rx_port_list[k] = <<y>> BY <2>2, <4>1
      <4> HIDE DEF x, S
      <4>3. m = 1 /\ y = x BY <3>3, <4>2
      <4>4. k = l BY <2>1, <3>2, <4>1, <4>2, <4>3 DEF Matching
      <4> QED BY <4>3, <4>4
    <3>4. 1 \in 1 .. MaxRxQueue BY StartupAssumption
    <3>5. 1 \in DOMAIN rx_port_list[l] /\ rx_port_list[l][1] = x
      <4> HIDE DEF x
      <4> QED BY <3>2
    <3>6. Pollers(p, n) = {<<l, 1>>} BY <3>2, <3>3, <3>4, <3>5 DEF Pollers
    <3> QED BY <3>6, FS_Singleton
  <2> QED BY <2>2, <2>3, <2>4 DEF QueuesOwnedOnce
<1> QED BY <1>1, MapInvariant, PTL

\* PortsPaired of Startup: the destination map pairs the enabled ports, is its own
\* inverse, and sends a port to itself only if it is the last of an odd number.
THEOREM PortsArePaired == Spec => []PortsPaired
<1>1. MapInv => PortsPaired
  <2> SUFFICES ASSUME MapInv, pc = "run" PROVE PortsPaired BY DEF PortsPaired
  <2> DEFINE Alone == {p \in Ports : dst_ports[p] = p}
  <2>1. PairedUp(Ports) /\ (nb_ports_in_mask % 2 = 1 => dst_ports[last_port] = last_port)
    BY DEF MapInv, PairInv, Assigned
  <2>2. nb_ports_in_mask = Cardinality(Ports) /\ Cardinality(Ports) \in Nat
    BY <2>1, PortFacts DEF PairedUp
  <2>3. CASE nb_ports_in_mask % 2 = 1
    <3>1. last_port \in Ports /\ Swaps(Ports \ {last_port}) /\ dst_ports[last_port] = last_port
      BY <2>1, <2>3 DEF PairedUp
    <3>2. \A p \in Ports : dst_ports[p] \in Ports /\ dst_ports[dst_ports[p]] = p
      BY <3>1 DEF Swaps
    <3>3. Alone = {last_port} BY <3>1 DEF Swaps
    <3>4. Cardinality(Alone) = 1 BY <3>3, FS_Singleton
    <3> QED BY <2>2, <2>3, <3>2, <3>4 DEF PortsPaired
  <2>4. CASE nb_ports_in_mask % 2 # 1
    <3>1. Swaps(Ports) BY <2>1, <2>4 DEF PairedUp
    <3>2. \A p \in Ports : dst_ports[p] \in Ports /\ dst_ports[dst_ports[p]] = p
      BY <3>1 DEF Swaps
    <3>3. Alone = {} BY <3>1 DEF Swaps
    <3>4. Cardinality(Alone) = 0 BY <3>3, FS_EmptySet
    <3>5. nb_ports_in_mask % 2 = 0 BY <2>2, <2>4
    <3> QED BY <2>2, <3>2, <3>4, <3>5 DEF PortsPaired
  <2> QED BY <2>3, <2>4
<1> QED BY <1>1, MapInvariant, PTL

-----------------------------------------------------------------------------
(* What L2fwd assumes of Startup                                            *)

\* The lists are sequences of queues, and a queue is in one place of one list.
OneOwner ==
    /\ \A l \in LcoreIds : rx_port_list[l] \in Seq(Ports \X Nat)
    /\ \A k, l \in LcoreIds :
          \A m \in DOMAIN rx_port_list[k], n \in DOMAIN rx_port_list[l] :
             rx_port_list[k][m] = rx_port_list[l][n] => k = l /\ m = n

\* The lists that main hands to the workers satisfy what L2fwdAssumption asks of
\* RxList: "Same ID used for RX and TX to avoid locks" (l2fwd_main_loop).
THEOREM LoopAssumptionHolds == Spec => [](pc = "run" => OneOwner)
<1>1. MapInv => (pc = "run" => OneOwner)
  <2> SUFFICES ASSUME MapInv, pc = "run" PROVE OneOwner OBVIOUS
  <2> DEFINE S == Ports \X (0 .. queues_per_port - 1)
  <2>1. Matching(S) BY DEF MapInv, AssignInv, Assigned
  <2>2. \A x \in S : x \in Ports \X Nat OBVIOUS
  <2> HIDE DEF S
  <2>3. ASSUME NEW l \in LcoreIds
        PROVE  rx_port_list[l] = <<>> \/ \E x \in Ports \X Nat : rx_port_list[l] = <<x>>
    BY <2>1, <2>2 DEF Matching
  <2>4. ASSUME NEW l \in LcoreIds PROVE rx_port_list[l] \in Seq(Ports \X Nat)
    <3>1. CASE rx_port_list[l] = <<>> BY <3>1
    <3>2. CASE \E x \in Ports \X Nat : rx_port_list[l] = <<x>>
      <4>1. PICK x \in Ports \X Nat : rx_port_list[l] = <<x>> BY <3>2
      <4> DEFINE T == Ports \X Nat
      <4>2. x \in T BY <4>1
      <4> HIDE DEF T
      <4>3. <<x>> \in Seq(T) BY <4>2
      <4> QED BY <4>1, <4>3 DEF T
    <3> QED BY <2>3, <3>1, <3>2
  <2>5. ASSUME NEW k \in LcoreIds, NEW l \in LcoreIds,
               NEW m \in DOMAIN rx_port_list[k], NEW n \in DOMAIN rx_port_list[l],
               rx_port_list[k][m] = rx_port_list[l][n]
        PROVE  k = l /\ m = n
    <3>1. rx_port_list[k] # <<>> /\ rx_port_list[l] # <<>> BY <2>5
    <3>2. PICK x : rx_port_list[k] = <<x>> BY <2>3, <3>1
    <3>3. PICK y : rx_port_list[l] = <<y>> BY <2>3, <3>1
    <3>4. m = 1 /\ n = 1 /\ x = y BY <2>5, <3>2, <3>3
    <3>5. k = l BY <2>1, <3>1, <3>2, <3>3, <3>4 DEF Matching
    <3> QED BY <3>4, <3>5
  <2> QED BY <2>4, <2>5 DEF OneOwner
<1> QED BY <1>1, MapInvariant, PTL

=============================================================================

-------------------------- MODULE TransportProofs --------------------------
(***************************************************************************)
(* Bytes arrive.  A reader of frames gets what the whole stream says; what *)
(* a send reports as written arrives once and whole, of what failed at     *)
(* most a prefix, for any sizes of frames and reads and any number of      *)
(* failing writes.  A memory pipe delivers in order and forgets no         *)
(* sleeper, for any capacity.                                              *)
(***************************************************************************)
EXTENDS Framing, MemoryPipe, WellFoundedInduction, TLAPS

(* Every non-empty set of numbers has a least element.                     *)
LEMMA LeastNumber ==
  ASSUME NEW T \in SUBSET Nat, T # {}
  PROVE  \E m \in T : \A k \in T : m <= k
  <1>1. PICK m \in T : \A k \in T : ~(<<k, m>> \in OpToRel(<, Nat))
    BY Zenon, NatLessThanWellFounded, WFMin
  <1>2. \A k \in T : ~(k < m)
    BY Zenon, <1>1 DEF OpToRel
  <1>3. QED
    BY <1>2

(* Induction over the numbers, for a property given as a set.              *)
LEMMA SetInduction ==
  ASSUME NEW T, 0 \in T, \A n \in Nat : n \in T => n + 1 \in T
  PROVE  Nat \subseteq T
  <1>1. SUFFICES ASSUME Nat \ T # {} PROVE FALSE
    OBVIOUS
  <1>2. PICK m \in Nat \ T : \A k \in Nat \ T : m <= k
    BY Zenon, <1>1, LeastNumber
  <1>3. m - 1 \in Nat /\ m - 1 \in T
    BY <1>2
  <1>4. QED
    BY <1>2, <1>3

(* The states a scan goes through: t[i] is the one after i bytes.          *)
Run(start, data, t) ==
  /\ t[0] = start
  /\ \A i \in 1 .. Len(data) : t[i] = Cut(t[i - 1], data[i])

(* A scan has such states.                                                 *)
LEMMA RunExists ==
  ASSUME NEW start, NEW data \in Seq(Nat)
  PROVE  \E t : Run(start, data, t) /\ t = [i \in 0 .. Len(data) |-> t[i]]
  <1> DEFINE n == Len(data)
             IsRun(t, m) == /\ t = [i \in 0 .. m |-> t[i]]
                            /\ t[0] = start
                            /\ \A i \in 1 .. m : t[i] = Cut(t[i - 1], data[i])
             T == {m \in Nat : \E t : IsRun(t, m)}
  <1> HIDE DEF IsRun
  <1>1. n \in Nat
    OBVIOUS
  <1>2. 0 \in T
    <2>1. IsRun([i \in 0 .. 0 |-> start], 0)
      BY DEF IsRun
    <2>2. QED
      BY <2>1
  <1>3. ASSUME NEW m \in Nat, m \in T PROVE m + 1 \in T
    <2>1. PICK t : IsRun(t, m)
      BY <1>3
    <2> DEFINE u == [i \in 0 .. m + 1 |-> IF i = m + 1 THEN Cut(t[m], data[m + 1]) ELSE t[i]]
    <2>2. m + 1 \in 0 .. m + 1 /\ \A i \in 0 .. m : i \in 0 .. m + 1 /\ i # m + 1
      OBVIOUS
    <2>3. /\ u[m + 1] = Cut(t[m], data[m + 1]) /\ \A i \in 0 .. m : u[i] = t[i]
          /\ u = [i \in 0 .. m + 1 |-> u[i]]
      BY Zenon, <2>2
    <2> HIDE DEF u
    <2>4. \A i \in 1 .. m + 1 : u[i] = Cut(u[i - 1], data[i])
      <3>1. ASSUME NEW i \in 1 .. m PROVE u[i] = Cut(u[i - 1], data[i])
        <4>1. i \in 0 .. m /\ i - 1 \in 0 .. m
          OBVIOUS
        <4>2. u[i] = t[i] /\ u[i - 1] = t[i - 1]
          BY Zenon, <2>3, <4>1
        <4>3. t[i] = Cut(t[i - 1], data[i])
          BY Zenon, <2>1 DEF IsRun
        <4>4. QED
          BY Zenon, <4>2, <4>3
      <3>2. u[m + 1] = Cut(u[m + 1 - 1], data[m + 1])
        <4>1. m \in 0 .. m /\ m + 1 - 1 = m
          OBVIOUS
        <4>2. u[m] = t[m]
          BY Zenon, <2>3, <4>1
        <4>3. QED
          BY <2>3, <4>1, <4>2
      <3>3. \A i \in 1 .. m + 1 : i \in 1 .. m \/ i = m + 1
        OBVIOUS
      <3>4. SUFFICES ASSUME NEW i \in 1 .. m + 1 PROVE u[i] = Cut(u[i - 1], data[i])
        OBVIOUS
      <3>5. CASE i \in 1 .. m
        BY Zenon, <3>1, <3>5
      <3>6. CASE i = m + 1
        BY <3>2, <3>6
      <3>7. QED
        BY <3>3, <3>5, <3>6
    <2>5. 0 \in 0 .. m
      OBVIOUS
    <2>6. IsRun(u, m + 1)
      BY Zenon, <2>1, <2>3, <2>4, <2>5 DEF IsRun
    <2>7. QED
      BY <2>6
  <1>4. n \in T
    <2> HIDE DEF T
    <2>1. QED
      BY Zenon, <1>1, <1>2, <1>3, SetInduction
  <1>5. QED
    BY Zenon, <1>4 DEF IsRun, Run

(* Any such states lead to what Scan returns: its recursion is sound.      *)
LEMMA ScanIsRun ==
  ASSUME NEW start, NEW data \in Seq(Nat), NEW t, Run(start, data, t)
  PROVE  Scan(start, data) = t[Len(data)]
  <1> DEFINE n == Len(data)
             Step(g) == [i \in 0 .. n |-> IF i = 0 THEN start ELSE Cut(g[i - 1], data[i])]
             run == CHOOSE g : g = Step(g)
  <1>1. n \in Nat
    OBVIOUS
  <1>2. PICK s : Run(start, data, s) /\ s = [i \in 0 .. n |-> s[i]]
    BY Zenon, RunExists
  <1>3. s = Step(s)
    <2>1. \A i \in 0 .. n : s[i] = IF i = 0 THEN start ELSE Cut(s[i - 1], data[i])
      <3>1. \A i \in 0 .. n : i = 0 \/ i \in 1 .. n
        BY <1>1
      <3>2. QED
        BY Zenon, <1>2, <3>1 DEF Run
    <2>2. QED
      BY Zenon, <1>2, <2>1
  <1>4. run = Step(run)
    <2> HIDE DEF Step
    <2>1. QED
      BY Zenon, <1>3
  <1>5. Scan(start, data) = run[n]
    BY DEF Scan
  <1> HIDE DEF run
  <1> DEFINE A == {i \in Nat : i <= n => run[i] = t[i]}
  <1>6. 0 \in A
    <2>1. 0 \in 0 .. n
      BY <1>1
    <2>2. run[0] = start
      BY Zenon, <1>4, <2>1
    <2>3. QED
      BY <2>2 DEF Run
  <1>7. ASSUME NEW i \in Nat, i \in A PROVE i + 1 \in A
    <2>1. SUFFICES ASSUME i + 1 <= n PROVE run[i + 1] = t[i + 1]
      OBVIOUS
    <2>2. i + 1 \in 1 .. n /\ i + 1 \in 0 .. n /\ i + 1 # 0 /\ i + 1 - 1 = i /\ i <= n
      BY <1>1, <2>1
    <2>3. run[i + 1] = Cut(run[i + 1 - 1], data[i + 1])
      BY <1>4, <2>2
    <2>4. t[i + 1] = Cut(t[i + 1 - 1], data[i + 1])
      BY <2>2 DEF Run
    <2>5. run[i] = t[i]
      BY Zenon, <1>7, <2>2
    <2>6. QED
      BY <2>2, <2>3, <2>4, <2>5
  <1>8. n \in A
    <2> HIDE DEF A
    <2>1. QED
      BY Zenon, <1>1, <1>6, <1>7, SetInduction
  <1>9. n <= n
    BY <1>1
  <1>10. QED
    BY Zenon, <1>5, <1>8, <1>9

(* A scan of nothing.                                                      *)
LEMMA ScanEmpty ==
  ASSUME NEW start
  PROVE  Scan(start, <<>>) = start
  <1> DEFINE t == [i \in {0} |-> start]
  <1>1. <<>> \in Seq(Nat) /\ Len(<<>>) = 0 /\ 1 .. 0 = {}
    OBVIOUS
  <1>2. t[0] = start
    OBVIOUS
  <1> HIDE DEF t
  <1>3. Run(start, <<>>, t)
    BY <1>1, <1>2 DEF Run
  <1>4. QED
    BY Zenon, <1>1, <1>2, <1>3, ScanIsRun

(* A scan goes on where the scan of the first bytes stopped.               *)
LEMMA ScanConcat ==
  ASSUME NEW start, NEW a \in Seq(Nat), NEW b \in Seq(Nat)
  PROVE  Scan(start, a \o b) = Scan(Scan(start, a), b)
  <1>1. PICK m \in Nat, n \in Nat : m = Len(a) /\ n = Len(b)
    OBVIOUS
  <1>2. PICK c \in Seq(Nat) : c = a \o b
    <2>1. a \o b \in Seq(Nat)
      OBVIOUS
    <2>2. QED
      BY Zenon, <2>1
  <1>3. /\ Len(c) = m + n
        /\ \A i \in 1 .. m : c[i] = a[i]
        /\ \A i \in 1 .. n : c[m + i] = b[i]
    BY <1>1, <1>2
  <1>4. PICK t : Run(start, c, t)
    BY Zenon, RunExists
  <1>5. \A i \in 1 .. m + n : t[i] = Cut(t[i - 1], c[i])
    BY <1>3, <1>4 DEF Run
  <1>6. Run(start, a, t)
    <2>1. ASSUME NEW i \in 1 .. m PROVE t[i] = Cut(t[i - 1], a[i])
      <3>1. i \in 1 .. m + n
        OBVIOUS
      <3>2. QED
        BY Zenon, <1>3, <1>5, <3>1
    <2>2. QED
      BY <1>1, <1>4, <2>1 DEF Run
  <1> DEFINE u == [i \in 0 .. n |-> t[m + i]]
  <1>7. \A i \in 0 .. n : u[i] = t[m + i]
    OBVIOUS
  <1> HIDE DEF u
  <1>8. Run(t[m], b, u)
    <2>1. u[0] = t[m]
      BY SMTT(30), <1>7
    <2>2. ASSUME NEW i \in 1 .. n PROVE u[i] = Cut(u[i - 1], b[i])
      <3>1. m + i \in 1 .. m + n /\ i \in 0 .. n /\ i - 1 \in 0 .. n /\ m + i - 1 = m + (i - 1)
        OBVIOUS
      <3>2. t[m + i] = Cut(t[m + i - 1], c[m + i])
        BY <1>5, <3>1
      <3>3. c[m + i] = b[i] /\ u[i] = t[m + i] /\ u[i - 1] = t[m + (i - 1)]
        BY Zenon, <1>3, <1>7, <3>1
      <3>4. QED
        BY <3>1, <3>2, <3>3
    <2>3. QED
      BY <1>1, <2>1, <2>2 DEF Run
  <1>9. Scan(start, c) = t[Len(c)] /\ Scan(start, a) = t[m] /\ Scan(t[m], b) = u[n]
    BY Zenon, <1>1, <1>4, <1>6, <1>8, ScanIsRun
  <1>10. u[n] = t[m + n]
    BY <1>7
  <1>11. QED
    BY <1>2, <1>3, <1>9, <1>10

(* A sequence of some numbers is one of numbers.                           *)
LEMMA SeqOfNumbers ==
  ASSUME NEW B \in SUBSET Nat, NEW s \in Seq(B)
  PROVE  s \in Seq(Nat) /\ Len(s) \in 0 .. Len(s)
  <1>1. Len(s) \in Nat /\ s \in [1 .. Len(s) -> B]
    OBVIOUS
  <1>2. s \in [1 .. Len(s) -> Nat]
    BY Zenon, <1>1
  <1>3. QED
    BY <1>1, <1>2

(* What no byte of B takes away, a scan keeps.                             *)
LEMMA RunKeeps ==
  ASSUME NEW G, NEW start \in G, NEW B \in SUBSET Nat, NEW data \in Seq(B), NEW t,
         Run(start, data, t), \A x \in G, b \in B : Cut(x, b) \in G
  PROVE  \A i \in 0 .. Len(data) : t[i] \in G
  <1> DEFINE n == Len(data)
             T == {i \in Nat : i <= n => t[i] \in G}
  <1>1. n \in Nat /\ \A i \in 1 .. n : data[i] \in B
    OBVIOUS
  <1>2. 0 \in T
    BY DEF Run
  <1>3. ASSUME NEW i \in Nat, i \in T PROVE i + 1 \in T
    <2>1. SUFFICES ASSUME i + 1 <= n PROVE t[i + 1] \in G
      OBVIOUS
    <2>2. i + 1 \in 1 .. n /\ i + 1 - 1 = i /\ i <= n
      BY <1>1, <2>1
    <2>3. t[i + 1] = Cut(t[i], data[i + 1])
      BY <2>2 DEF Run
    <2>4. t[i] \in G /\ data[i + 1] \in B
      BY Zenon, <1>1, <1>3, <2>2
    <2>5. QED
      BY Zenon, <2>3, <2>4
  <1>4. Nat \subseteq T
    <2> HIDE DEF T
    <2>1. QED
      BY Zenon, <1>2, <1>3, SetInduction
  <1>5. \A i \in 0 .. n : i \in Nat /\ i <= n
    BY <1>1
  <1>6. QED
    BY Zenon, <1>4, <1>5

(* So does the state it leads to.                                          *)
LEMMA ScanKeeps ==
  ASSUME NEW G, NEW start \in G, NEW B \in SUBSET Nat, NEW data \in Seq(B),
         \A x \in G, b \in B : Cut(x, b) \in G
  PROVE  Scan(start, data) \in G
  <1>1. data \in Seq(Nat) /\ Len(data) \in 0 .. Len(data)
    BY Zenon, SeqOfNumbers
  <1>2. PICK t : Run(start, data, t)
    BY Zenon, <1>1, RunExists
  <1>3. t[Len(data)] \in G
    BY Zenon, <1>1, <1>2, RunKeeps
  <1>4. QED
    BY Zenon, <1>1, <1>2, <1>3, ScanIsRun

(* The states of a scan.                                                   *)
State(frames, part, skip) == [frames |-> frames, part |-> part, skip |-> skip]
States == [frames : Seq(Seq(Nat)), part : Seq(Nat), skip : BOOLEAN]

(* A state is made of its three parts.                                     *)
LEMMA StateParts ==
  /\ \A x \in States : x = State(x.frames, x.part, x.skip)
  /\ \A f, p, k : /\ State(f, p, k).frames = f
                  /\ State(f, p, k).part = p
                  /\ State(f, p, k).skip = k
  /\ \A f \in Seq(Seq(Nat)), p \in Seq(Nat), k \in BOOLEAN : State(f, p, k) \in States
  BY DEF State, States

(* Its type.                                                               *)
LEMMA StateTyped ==
  ASSUME NEW f \in Seq(Seq(Nat)), NEW p \in Seq(Nat), NEW k \in BOOLEAN
  PROVE  State(f, p, k) \in States
  BY Zenon, StateParts

(* What a byte does to a state.                                            *)
LEMMA CutFacts ==
  ASSUME NEW f \in Seq(Seq(Nat)), NEW p \in Seq(Nat), NEW b \in Nat
  PROVE  /\ b = 0 => Cut(State(f, p, TRUE), b) = State(f, p, FALSE)
         /\ b = 0 => Cut(State(f, p, FALSE), b) = State(Append(f, p), <<>>, FALSE)
         /\ b # 0 => Cut(State(f, p, TRUE), b) = State(f, p, TRUE)
         /\ b # 0 /\ Len(p) = MaxFrame =>
              Cut(State(f, p, FALSE), b) = State(Append(f, TooLarge), <<>>, TRUE)
         /\ b # 0 /\ Len(p) # MaxFrame =>
              Cut(State(f, p, FALSE), b) = State(f, Append(p, b), FALSE)
  <1>1. b = 0 => Cut(State(f, p, TRUE), b) = State(f, p, FALSE)
    BY Zenon DEF Cut, State
  <1>2. b = 0 => Cut(State(f, p, FALSE), b) = State(Append(f, p), <<>>, FALSE)
    BY Zenon DEF Cut, State
  <1>3. b # 0 => Cut(State(f, p, TRUE), b) = State(f, p, TRUE)
    BY DEF Cut, State
  <1>4. b # 0 /\ Len(p) = MaxFrame =>
          Cut(State(f, p, FALSE), b) = State(Append(f, TooLarge), <<>>, TRUE)
    BY DEF Cut, State
  <1>5. b # 0 /\ Len(p) # MaxFrame =>
          Cut(State(f, p, FALSE), b) = State(f, Append(p, b), FALSE)
    BY Zenon DEF Cut, State
  <1>6. QED
    BY Zenon, <1>1, <1>2, <1>3, <1>4, <1>5

(* The states it may lead to.                                              *)
LEMMA CutCases ==
  ASSUME NEW f \in Seq(Seq(Nat)), NEW p \in Seq(Nat), NEW b \in Nat
  PROVE  /\ Cut(State(f, p, TRUE), b) \in {State(f, p, FALSE), State(f, p, TRUE)}
         /\ Cut(State(f, p, FALSE), b)
              \in {State(Append(f, p), <<>>, FALSE), State(f, Append(p, b), FALSE),
                   State(Append(f, TooLarge), <<>>, TRUE)}
  <1>1. CASE b = 0
    BY Zenon, <1>1, CutFacts
  <1>2. CASE b # 0 /\ Len(p) = MaxFrame
    BY Zenon, <1>2, CutFacts
  <1>3. CASE b # 0 /\ Len(p) # MaxFrame
    BY Zenon, <1>3, CutFacts
  <1>4. QED
    BY Zenon, <1>1, <1>2, <1>3

(* A byte leads from a state to a state.                                   *)
LEMMA CutTyped ==
  ASSUME NEW x \in States, NEW b \in Nat
  PROVE  Cut(x, b) \in States
  <1>1. PICK f \in Seq(Seq(Nat)), p \in Seq(Nat), k \in BOOLEAN : x = State(f, p, k)
    BY DEF State, States
  <1>2. /\ Append(f, p) \in Seq(Seq(Nat)) /\ Append(f, TooLarge) \in Seq(Seq(Nat))
        /\ Append(p, b) \in Seq(Nat) /\ <<>> \in Seq(Nat)
    BY DEF TooLarge
  <1>3. CASE x = State(f, p, TRUE)
    <2>1. Cut(x, b) \in {State(f, p, FALSE), State(f, p, TRUE)}
      BY Zenon, <1>3, CutCases
    <2>2. QED
      BY Zenon, <2>1, StateTyped
  <1>4. CASE x = State(f, p, FALSE)
    <2>1. Cut(x, b) \in {State(Append(f, p), <<>>, FALSE), State(f, Append(p, b), FALSE),
                         State(Append(f, TooLarge), <<>>, TRUE)}
      BY Zenon, <1>4, CutCases
    <2>2. /\ State(Append(f, p), <<>>, FALSE) \in States
          /\ State(f, Append(p, b), FALSE) \in States
          /\ State(Append(f, TooLarge), <<>>, TRUE) \in States
      BY Zenon, <1>2, StateTyped
    <2>3. QED
      BY Zenon, <2>1, <2>2
  <1>5. QED
    BY Zenon, <1>1, <1>3, <1>4

(* A scan leads to a state.                                                *)
LEMMA ScanTyped ==
  ASSUME NEW x \in States, NEW s \in Seq(Nat)
  PROVE  Scan(x, s) \in States
  BY Zenon, CutTyped, ScanKeeps

(* A scan of one byte is a cut.                                            *)
LEMMA ScanOne ==
  ASSUME NEW x, NEW b \in Nat
  PROVE  Scan(x, <<b>>) = Cut(x, b)
  <1> DEFINE t == [i \in 0 .. 1 |-> IF i = 0 THEN x ELSE Cut(x, b)]
  <1>1. t[0] = x /\ t[1] = Cut(x, b)
    OBVIOUS
  <1> HIDE DEF t
  <1>2. <<b>> \in Seq(Nat) /\ Len(<<b>>) = 1 /\ <<b>>[1] = b
    OBVIOUS
  <1>3. \A i \in 1 .. 1 : i = 1 /\ i - 1 = 0
    OBVIOUS
  <1>4. Run(x, <<b>>, t)
    BY <1>1, <1>2, <1>3 DEF Run
  <1>5. QED
    BY Zenon, <1>1, <1>2, <1>4, ScanIsRun

NonZero == Nat \ {0}

(* Bytes of a frame.                                                       *)
LEMMA NonZeroBytes ==
  ASSUME NEW z \in Seq(NonZero)
  PROVE  z \in Seq(Nat) /\ \A i \in 1 .. Len(z) : z[i] \in Nat /\ z[i] # 0
  <1>1. \A i \in 1 .. Len(z) : z[i] \in NonZero
    OBVIOUS
  <1>2. NonZero \in SUBSET Nat
    BY DEF NonZero
  <1>3. z \in Seq(Nat)
    BY Zenon, <1>2, SeqOfNumbers
  <1>4. QED
    BY Zenon, <1>1, <1>3 DEF NonZero

(* Appending to the end of two sequences.                                  *)
LEMMA ConcatAppend ==
  ASSUME NEW S, NEW s \in Seq(S), NEW t \in Seq(S), NEW x \in S
  PROVE  /\ s \o t \in Seq(S)
         /\ s \o Append(t, x) = Append(s \o t, x)
  OBVIOUS

(* A frame cut off after others.                                           *)
LEMMA FrameAppend ==
  ASSUME NEW r \in Seq(Seq(Nat)), NEW f \in Seq(Seq(Nat)), NEW p \in Seq(Nat)
  PROVE  /\ r \o f \in Seq(Seq(Nat))
         /\ r \o Append(f, p) = Append(r \o f, p)
         /\ r \o Append(f, TooLarge) = Append(r \o f, TooLarge)
  <1> DEFINE S == Seq(Nat)
  <1>1. TooLarge \in S
    BY DEF TooLarge
  <1>2. r \in Seq(S) /\ f \in Seq(S) /\ p \in S
    OBVIOUS
  <1> HIDE DEF S
  <1>3. /\ r \o f \in Seq(S)
        /\ r \o Append(f, p) = Append(r \o f, p)
        /\ r \o Append(f, TooLarge) = Append(r \o f, TooLarge)
    BY SMTT(30), <1>1, <1>2
  <1>4. QED
    BY Zenon, <1>3 DEF S

(* While an oversized frame is skipped, nothing but a zero counts.         *)
LEMMA ScanSkips ==
  ASSUME NEW f \in Seq(Seq(Nat)), NEW p \in Seq(Nat), NEW z \in Seq(NonZero)
  PROVE  Scan(State(f, p, TRUE), z) = State(f, p, TRUE)
  <1> DEFINE x == State(f, p, TRUE)
  <1>1. \A b \in NonZero : Cut(x, b) = x
    BY Zenon, CutFacts DEF NonZero
  <1> HIDE DEF x
  <1>2. Scan(x, z) \in {x}
    BY Zenon, <1>1, ScanKeeps DEF NonZero
  <1>3. QED
    BY Zenon, <1>2 DEF x

(* The beginnings of a sequence.                                           *)
LEMMA Beginnings ==
  ASSUME NEW z \in Seq(Nat)
  PROVE  /\ SubSeq(z, 1, 0) = <<>>
         /\ SubSeq(z, 1, Len(z)) = z
         /\ \A i \in 0 .. Len(z) : SubSeq(z, 1, i) \in Seq(Nat) /\ Len(SubSeq(z, 1, i)) = i
         /\ \A i \in 1 .. Len(z) : SubSeq(z, 1, i) = Append(SubSeq(z, 1, i - 1), z[i])
  <1>1. SubSeq(z, 1, 0) = <<>>
    OBVIOUS
  <1>2. SubSeq(z, 1, Len(z)) = z
    OBVIOUS
  <1>3. \A i \in 0 .. Len(z) : SubSeq(z, 1, i) \in Seq(Nat) /\ Len(SubSeq(z, 1, i)) = i
    OBVIOUS
  <1>4. ASSUME NEW i \in 1 .. Len(z) PROVE SubSeq(z, 1, i) = Append(SubSeq(z, 1, i - 1), z[i])
    OBVIOUS
  <1>5. QED
    BY <1>1, <1>2, <1>3, <1>4

(* Bytes that fit extend the unfinished frame.                             *)
LEMMA ScanGrows ==
  ASSUME NEW f \in Seq(Seq(Nat)), NEW p \in Seq(Nat), NEW z \in Seq(NonZero),
         Len(p) + Len(z) <= MaxFrame
  PROVE  Scan(State(f, p, FALSE), z) = State(f, p \o z, FALSE)
  <1>1. PICK n \in Nat : n = Len(z)
    OBVIOUS
  <1>2. z \in Seq(Nat) /\ \A i \in 1 .. n : z[i] \in Nat /\ z[i] # 0
    BY Zenon, <1>1, NonZeroBytes
  <1> DEFINE q(i) == p \o SubSeq(z, 1, i)
             u == [i \in 0 .. n |-> State(f, q(i), FALSE)]
  <1>3. q(0) = p /\ q(n) = p \o z
    <2>1. p \o <<>> = p
      OBVIOUS
    <2>2. QED
      BY Zenon, <1>1, <1>2, <2>1, Beginnings
  <1>4. \A i \in 0 .. n : q(i) \in Seq(Nat) /\ Len(q(i)) = Len(p) + i
    BY <1>1, <1>2, Beginnings
  <1>5. ASSUME NEW i \in 1 .. n PROVE q(i) = Append(q(i - 1), z[i])
    <2>1. PICK s \in Seq(Nat) : s = SubSeq(z, 1, i - 1)
      <3>1. SubSeq(z, 1, i - 1) \in Seq(Nat)
        BY <1>1, <1>2, Beginnings
      <3>2. QED
        BY Zenon, <3>1
    <2>2. SubSeq(z, 1, i) = Append(s, z[i])
      BY Zenon, <1>1, <1>2, <2>1, Beginnings
    <2>3. p \o Append(s, z[i]) = Append(p \o s, z[i])
      BY <1>2, <2>1, ConcatAppend
    <2>4. QED
      BY Zenon, <2>1, <2>2, <2>3
  <1>6. \A i \in 0 .. n : u[i] = State(f, q(i), FALSE)
    BY Zenon
  <1> HIDE DEF q, u
  <1>7. Run(State(f, p, FALSE), z, u)
    <2>1. 0 \in 0 .. n
      OBVIOUS
    <2>2. u[0] = State(f, p, FALSE)
      BY Zenon, <1>3, <1>6, <2>1
    <2>3. ASSUME NEW i \in 1 .. n PROVE u[i] = Cut(u[i - 1], z[i])
      <3>1. i \in 0 .. n /\ i - 1 \in 0 .. n
        OBVIOUS
      <3>2. q(i - 1) \in Seq(Nat) /\ Len(q(i - 1)) # MaxFrame
        BY SMTT(30), <1>1, <1>4, <3>1, FramingAssumption
      <3>3. Cut(State(f, q(i - 1), FALSE), z[i]) = State(f, Append(q(i - 1), z[i]), FALSE)
        BY Zenon, <1>2, <3>2, CutFacts
      <3>4. QED
        BY Zenon, <1>5, <1>6, <3>1, <3>3
    <2>4. QED
      BY Zenon, <1>1, <2>2, <2>3 DEF Run
  <1>8. n \in 0 .. n
    OBVIOUS
  <1>9. QED
    BY Zenon, <1>1, <1>2, <1>3, <1>6, <1>7, <1>8, ScanIsRun

(* What was cut off before does not change what a scan cuts off.           *)
LEMMA ScanAfter ==
  ASSUME NEW r \in Seq(Seq(Nat)), NEW x \in States, NEW s \in Seq(Nat)
  PROVE  Scan(State(r \o x.frames, x.part, x.skip), s)
           = LET y == Scan(x, s) IN State(r \o y.frames, y.part, y.skip)
  <1> DEFINE Lift(y) == State(r \o y.frames, y.part, y.skip)
             n == Len(s)
  <1>1. n \in Nat /\ \A i \in 1 .. n : s[i] \in Nat
    OBVIOUS
  <1>2. PICK t : Run(x, s, t)
    BY Zenon, RunExists
  <1>3. \A i \in 0 .. n : t[i] \in States
    BY Zenon, <1>2, CutTyped, RunKeeps
  <1>4. ASSUME NEW y \in States, NEW b \in Nat PROVE Cut(Lift(y), b) = Lift(Cut(y, b))
    <2>1. PICK f \in Seq(Seq(Nat)), p \in Seq(Nat), k \in BOOLEAN : y = State(f, p, k)
      BY DEF State, States
    <2>2. \A g, q, j : Lift(State(g, q, j)) = State(r \o g, q, j)
      BY StateParts
    <2> HIDE DEF Lift
    <2>3. PICK g \in Seq(Seq(Nat)) :
            /\ g = r \o f
            /\ r \o Append(f, p) = Append(g, p)
            /\ r \o Append(f, TooLarge) = Append(g, TooLarge)
      BY Zenon, <2>1, FrameAppend
    <2>4. Lift(y) = State(g, p, k)
      BY Zenon, <2>1, <2>2, <2>3
    <2>5. CASE k = TRUE
      <3>1. y = State(f, p, TRUE) /\ Lift(y) = State(g, p, TRUE)
        BY Zenon, <2>1, <2>4, <2>5
      <3>2. CASE b = 0
        <4>1. \A h \in Seq(Seq(Nat)) :
                Cut(State(h, p, TRUE), b) = State(h, p, FALSE)
          BY Zenon, <2>1, <3>2, CutFacts
        <4>2. Cut(y, b) = State(f, p, FALSE) /\ Cut(Lift(y), b) = State(g, p, FALSE)
          BY Zenon, <2>1, <2>3, <3>1, <4>1
        <4>3. Lift(State(f, p, FALSE)) = State(g, p, FALSE)
          BY Zenon, <2>2, <2>3
        <4>4. QED
          BY Zenon, <4>2, <4>3
      <3>3. CASE b # 0
        <4>1. \A h \in Seq(Seq(Nat)) :
                Cut(State(h, p, TRUE), b) = State(h, p, TRUE)
          BY Zenon, <2>1, <3>3, CutFacts
        <4>2. Cut(y, b) = State(f, p, TRUE) /\ Cut(Lift(y), b) = State(g, p, TRUE)
          BY Zenon, <2>1, <2>3, <3>1, <4>1
        <4>3. Lift(State(f, p, TRUE)) = State(g, p, TRUE)
          BY Zenon, <2>2, <2>3
        <4>4. QED
          BY Zenon, <4>2, <4>3
      <3>4. QED
        BY Zenon, <3>2, <3>3
    <2>6. CASE k = FALSE
      <3>1. y = State(f, p, FALSE) /\ Lift(y) = State(g, p, FALSE)
        BY Zenon, <2>1, <2>4, <2>6
      <3>2. CASE b = 0
        <4>1. \A h \in Seq(Seq(Nat)) :
                Cut(State(h, p, FALSE), b) = State(Append(h, p), <<>>, FALSE)
          BY ZenonT(30), <2>1, <3>2, CutFacts
        <4>2. /\ Cut(y, b) = State(Append(f, p), <<>>, FALSE)
              /\ Cut(Lift(y), b) = State(Append(g, p), <<>>, FALSE)
          BY Zenon, <2>1, <2>3, <3>1, <4>1
        <4>3. Lift(State(Append(f, p), <<>>, FALSE)) = State(Append(g, p), <<>>, FALSE)
          BY Zenon, <2>2, <2>3
        <4>4. QED
          BY Zenon, <4>2, <4>3
      <3>3. CASE b # 0 /\ Len(p) = MaxFrame
        <4>1. \A h \in Seq(Seq(Nat)) :
                Cut(State(h, p, FALSE), b) = State(Append(h, TooLarge), <<>>, TRUE)
          BY Zenon, <2>1, <3>3, CutFacts
        <4>2. /\ Cut(y, b) = State(Append(f, TooLarge), <<>>, TRUE)
              /\ Cut(Lift(y), b) = State(Append(g, TooLarge), <<>>, TRUE)
          BY Zenon, <2>1, <2>3, <3>1, <4>1
        <4>3. Lift(State(Append(f, TooLarge), <<>>, TRUE)) = State(Append(g, TooLarge), <<>>, TRUE)
          BY Zenon, <2>2, <2>3
        <4>4. QED
          BY Zenon, <4>2, <4>3
      <3>4. CASE b # 0 /\ Len(p) # MaxFrame
        <4>1. \A h \in Seq(Seq(Nat)) :
                Cut(State(h, p, FALSE), b) = State(h, Append(p, b), FALSE)
          BY Zenon, <2>1, <3>4, CutFacts
        <4>2. /\ Cut(y, b) = State(f, Append(p, b), FALSE)
              /\ Cut(Lift(y), b) = State(g, Append(p, b), FALSE)
          BY Zenon, <2>1, <2>3, <3>1, <4>1
        <4>3. Lift(State(f, Append(p, b), FALSE)) = State(g, Append(p, b), FALSE)
          BY Zenon, <2>2, <2>3
        <4>4. QED
          BY Zenon, <4>2, <4>3
      <3>5. QED
        BY Zenon, <3>2, <3>3, <3>4
    <2>7. QED
      BY Zenon, <2>1, <2>5, <2>6
  <1> DEFINE u == [i \in 0 .. n |-> Lift(t[i])]
  <1>5. \A i \in 0 .. n : u[i] = Lift(t[i])
    BY Zenon
  <1> HIDE DEF Lift, u
  <1>6. Run(Lift(x), s, u)
    <2>1. 0 \in 0 .. n
      BY <1>1
    <2>2. u[0] = Lift(x)
      BY Zenon, <1>2, <1>5, <2>1 DEF Run
    <2>3. ASSUME NEW i \in 1 .. n PROVE u[i] = Cut(u[i - 1], s[i])
      <3>1. i \in 0 .. n /\ i - 1 \in 0 .. n
        BY <1>1
      <3>2. t[i] = Cut(t[i - 1], s[i])
        BY Zenon, <1>2 DEF Run
      <3>3. u[i] = Lift(t[i]) /\ u[i - 1] = Lift(t[i - 1]) /\ t[i - 1] \in States
        BY <1>3, <1>5, <3>1
      <3>4. Cut(Lift(t[i - 1]), s[i]) = Lift(Cut(t[i - 1], s[i]))
        BY Zenon, <1>1, <1>4, <3>3
      <3>5. QED
        BY Zenon, <3>2, <3>3, <3>4
    <2>4. QED
      BY Zenon, <2>2, <2>3 DEF Run
  <1>7. n \in 0 .. n
    BY <1>1
  <1>8. Scan(Lift(x), s) = Lift(Scan(x, s))
    BY Zenon, <1>2, <1>5, <1>6, <1>7, ScanIsRun
  <1>9. QED
    BY Zenon, <1>8 DEF Lift
----------------------------------------------------------------------------
(* The state after all bytes of the stream, and what the reader holds.     *)
Whole == Scan(Start(FALSE), carried)
Rest == SubSeq(buffer, offset + 1, Len(buffer))

FramingTypes ==
  /\ resync \in BOOLEAN /\ discard \in BOOLEAN
  /\ wire \in Seq(Nat) /\ buffer \in Seq(Nat) /\ carried \in Seq(Nat)
  /\ offset \in Nat /\ search \in Nat
  /\ sends \in Seq([kind : {"reset", "dropped", "packet"}, content : Seq(Nat), ok : BOOLEAN])
  /\ returned \in Seq(Seq(Nat))

(* The reader is where the reference is after the bytes it has consumed:   *)
(* from there, what it holds and what is on the wire lead to the same.     *)
ReaderInv ==
  /\ FramingTypes
  /\ offset <= search /\ search <= Len(buffer) /\ Len(buffer) <= MaxFrame + 1
  /\ \A i \in offset + 1 .. search : buffer[i] # 0
  /\ Whole = Scan(State(returned, <<>>, discard), Rest \o wire)

(* A frame with bytes of the n-th send; those cut off so far.              *)
IsOf(frame, n) == frame # <<>> /\ frame[1] = n
Of(x, n) == {i \in DOMAIN x.frames : IsOf(x.frames[i], n)}

PartOf(frame, content) == \E k \in DOMAIN content : frame = SubSeq(content, 1, k)

(* Nothing of the n-th send was cut off, or only the frame.                *)
None(x, n) == Of(x, n) = {}
One(x, n, frame) == \E i \in DOMAIN x.frames : Of(x, n) = {i} /\ x.frames[i] = frame

(* What the stream tells of a packet: sent, it is there once; failed, what *)
(* is there is a part of it, cut off once or unfinished.                   *)
Tells(x, n, send) ==
  \/ ~IsOf(x.part, n) /\ One(x, n, send.content)
  \/ /\ ~send.ok
     /\ None(x, n)
     /\ IsOf(x.part, n) => PartOf(x.part, send.content)
  \/ /\ ~send.ok
     /\ ~IsOf(x.part, n)
     /\ \E k \in DOMAIN send.content : One(x, n, SubSeq(send.content, 1, k))

(* Of the packets so far, and nothing of a send to come.                   *)
Told(x, ss) ==
  /\ \A n \in DOMAIN ss : ss[n].kind = "packet" => Tells(x, n, ss[n])
  /\ \A n \in 1 .. MaxSends \ DOMAIN ss : None(x, n) /\ ~IsOf(x.part, n)

(* After a send that succeeded the next frame starts afresh.               *)
Clean(x) == x.part = <<>> /\ x.skip = FALSE

SendInv ==
  /\ Len(sends) <= MaxSends
  /\ Told(Whole, sends)
  /\ sends # <<>> /\ ~resync => Clean(Whole)
  /\ SignalArrives

(* Sequences put together in another way.                                  *)
LEMMA ConcatFacts ==
  ASSUME NEW a \in Seq(Nat), NEW b \in Seq(Nat), NEW c \in Seq(Nat)
  PROVE  /\ a \o b \in Seq(Nat)
         /\ (a \o b) \o c = a \o (b \o c)
         /\ <<>> \o a = a
         /\ a \o <<>> = a
  OBVIOUS

(* Only how they are put together.                                         *)
Same(s, t) == s = t

(* Putting three together.                                                 *)
LEMMA Associates ==
  ASSUME NEW a \in Seq(Nat), NEW b \in Seq(Nat), NEW c \in Seq(Nat)
  PROVE  Same((a \o b) \o c, a \o (b \o c))
  <1>1. (a \o b) \o c = a \o (b \o c)
    BY SMTT(30)
  <1>2. QED
    BY Zenon, <1>1 DEF Same

(* Putting four together.                                                  *)
LEMMA AssociatesFour ==
  ASSUME NEW a \in Seq(Nat), NEW b \in Seq(Nat), NEW c \in Seq(Nat), NEW d \in Seq(Nat)
  PROVE  Same((a \o (b \o c)) \o d, (a \o b) \o (c \o d))
  <1>1. b \o c \in Seq(Nat) /\ c \o d \in Seq(Nat)
    OBVIOUS
  <1>2. Same((b \o c) \o d, b \o (c \o d))
    BY Zenon, Associates
  <1>3. Same((a \o (b \o c)) \o d, a \o ((b \o c) \o d))
    BY Zenon, <1>1, Associates
  <1>4. Same((a \o b) \o (c \o d), a \o (b \o (c \o d)))
    BY Zenon, <1>1, Associates
  <1>5. QED
    BY Zenon, <1>2, <1>3, <1>4 DEF Same

(* The bytes lead from x to y.                                             *)
Leads(x, data, y) == y = Scan(x, data)

(* One sequence after the other, and sequences put together otherwise.     *)
LEMMA LeadsOn ==
  ASSUME NEW x, NEW y, NEW z, NEW a \in Seq(Nat), NEW b \in Seq(Nat),
         Leads(x, a, y), Leads(y, b, z)
  PROVE  Leads(x, a \o b, z)
  BY Zenon, ScanConcat DEF Leads

(* The same with a first part that is put together.                        *)
LEMMA LeadsThrough ==
  ASSUME NEW x, NEW y, NEW z, NEW a \in Seq(Nat), NEW b \in Seq(Nat), NEW c \in Seq(Nat),
         Leads(x, a \o b, y), Leads(y, c, z)
  PROVE  Leads(x, a \o (b \o c), z)
  <1>1. a \o (b \o c) = (a \o b) \o c /\ a \o b \in Seq(Nat)
    BY SMTT(30)
  <1>2. Leads(x, (a \o b) \o c, z)
    BY Zenon, <1>1, LeadsOn
  <1>3. QED
    BY Zenon, <1>1, <1>2

(* A zero ends the frame, or what is skipped.                              *)
LEMMA LeadsZero ==
  ASSUME NEW f \in Seq(Seq(Nat)), NEW p \in Seq(Nat)
  PROVE  /\ Leads(State(f, p, TRUE), <<0>>, State(f, p, FALSE))
         /\ Leads(State(f, p, FALSE), <<0>>, State(Append(f, p), <<>>, FALSE))
  <1>1. 0 \in Nat
    OBVIOUS
  <1>2. \A x : Scan(x, <<0>>) = Cut(x, 0)
    BY Zenon, <1>1, ScanOne
  <1>3. /\ Cut(State(f, p, TRUE), 0) = State(f, p, FALSE)
        /\ Cut(State(f, p, FALSE), 0) = State(Append(f, p), <<>>, FALSE)
    BY Zenon, <1>1, CutFacts
  <1>4. QED
    BY Zenon, <1>2, <1>3 DEF Leads

(* Bytes that fit make the unfinished frame.                               *)
LEMMA LeadsGrown ==
  ASSUME NEW f \in Seq(Seq(Nat)), NEW z \in Seq(NonZero), Len(z) <= MaxFrame
  PROVE  Leads(State(f, <<>>, FALSE), z, State(f, z, FALSE))
  <1>1. z \in Seq(Nat)
    BY Zenon, NonZeroBytes
  <1>2. <<>> \in Seq(Nat) /\ <<>> \o z = z /\ Len(<<>>) + Len(z) = Len(z)
    BY <1>1
  <1>3. Scan(State(f, <<>>, FALSE), z) = State(f, <<>> \o z, FALSE)
    BY Zenon, <1>2, ScanGrows
  <1>4. QED
    BY Zenon, <1>2, <1>3 DEF Leads

(* a is the piece of s from l to n.                                        *)
IsPiece(a, s, l, n) ==
  /\ a \in Seq(Nat)
  /\ Len(a) = n + 1 - l
  /\ \A j \in 1 .. n + 1 - l : a[j] = s[l + j - 1]

(* SubSeq gives the piece.                                                 *)
LEMMA SubSeqIsPiece ==
  ASSUME NEW s \in Seq(Nat), NEW l \in Nat, NEW n \in Nat, 1 <= l, l <= n + 1, n <= Len(s)
  PROVE  IsPiece(SubSeq(s, l, n), s, l, n)
  BY DEF IsPiece

(* Sequences with the same elements are the same.                          *)
LEMMA SeqEqual ==
  ASSUME NEW S, NEW s \in Seq(S), NEW t \in Seq(S), Len(s) = Len(t),
         \A i \in 1 .. Len(s) : s[i] = t[i]
  PROVE  s = t
  OBVIOUS

(* The elements of two sequences put together.                             *)
IsJoin(S, d, a, b) ==
  /\ d \in Seq(S) /\ Len(d) = Len(a) + Len(b)
  /\ \A j \in 1 .. Len(a) : d[j] = a[j]
  /\ \A j \in 1 .. Len(b) : d[Len(a) + j] = b[j]

(* Concatenation gives them.                                               *)
LEMMA ConcatIsJoin ==
  ASSUME NEW S, NEW a \in Seq(S), NEW b \in Seq(S)
  PROVE  IsJoin(S, a \o b, a, b)
  <1>1. a \o b \in Seq(S) /\ Len(a \o b) = Len(a) + Len(b)
    OBVIOUS
  <1>2. ASSUME NEW j \in 1 .. Len(a) PROVE (a \o b)[j] = a[j]
    OBVIOUS
  <1>3. ASSUME NEW j \in 1 .. Len(b) PROVE (a \o b)[Len(a) + j] = b[j]
    OBVIOUS
  <1>4. QED
    BY Zenon, <1>1, <1>2, <1>3 DEF IsJoin

(* Two pieces that meet make one.                                          *)
LEMMA PiecesJoin ==
  ASSUME NEW s \in Seq(Nat), NEW l \in Nat, NEW m \in Nat, NEW n \in Nat,
         1 <= l, l <= m + 1, m <= n, n <= Len(s)
  PROVE  Same(SubSeq(s, l, m) \o SubSeq(s, m + 1, n), SubSeq(s, l, n))
  <1>0. Len(s) \in Nat
    OBVIOUS
  <1>1. PICK a : a = SubSeq(s, l, m) /\ IsPiece(a, s, l, m)
    <2>1. m <= Len(s)
      BY <1>0
    <2>2. QED
      BY Zenon, <2>1, SubSeqIsPiece
  <1>2. PICK b : b = SubSeq(s, m + 1, n) /\ IsPiece(b, s, m + 1, n)
    <2>1. m + 1 \in Nat /\ 1 <= m + 1 /\ m + 1 <= n + 1
      OBVIOUS
    <2>2. QED
      BY Zenon, <2>1, SubSeqIsPiece
  <1>3. PICK c : c = SubSeq(s, l, n) /\ IsPiece(c, s, l, n)
    <2>1. l <= n + 1
      OBVIOUS
    <2>2. QED
      BY Zenon, <2>1, SubSeqIsPiece
  <1>4. PICK x \in Nat, y \in Nat : x = m + 1 - l /\ y = n - m
    OBVIOUS
  <1>5. /\ a \in Seq(Nat) /\ Len(a) = x /\ \A j \in 1 .. x : a[j] = s[l + j - 1]
        /\ b \in Seq(Nat) /\ Len(b) = y /\ \A j \in 1 .. y : b[j] = s[m + j]
        /\ c \in Seq(Nat) /\ Len(c) = x + y /\ \A j \in 1 .. x + y : c[j] = s[l + j - 1]
    BY <1>1, <1>2, <1>3, <1>4 DEF IsPiece
  <1>6. PICK d : d = a \o b /\ IsJoin(Nat, d, a, b)
    BY Zenon, <1>5, ConcatIsJoin
  <1>7. ASSUME NEW j \in 1 .. x + y PROVE d[j] = c[j]
    <2>1. CASE j <= x
      <3>1. j \in 1 .. x
        BY <2>1
      <3>2. QED
        BY Zenon, <1>5, <1>6, <3>1 DEF IsJoin
    <2>2. CASE j > x
      <3>1. PICK i \in 1 .. y : j = x + i
        <4>1. j - x \in 1 .. y /\ j = x + (j - x)
          BY <2>2
        <4>2. QED
          BY <4>1
      <3>2. d[j] = b[i] /\ b[i] = s[m + i]
        BY Zenon, <1>5, <1>6, <3>1 DEF IsJoin
      <3>3. c[j] = s[l + j - 1]
        BY Zenon, <1>5
      <3>4. l + j - 1 = m + i
        BY <1>4, <3>1
      <3>5. QED
        BY Zenon, <3>2, <3>3, <3>4
    <2>3. QED
      BY <2>1, <2>2
  <1>8. d = c
    BY Zenon, <1>5, <1>6, <1>7, SeqEqual DEF IsJoin
  <1>9. QED
    BY Zenon, <1>1, <1>2, <1>3, <1>6, <1>8 DEF Same

(* A piece of one element; the elements of a sequence without a zero.      *)
LEMMA PieceFacts ==
  ASSUME NEW s \in Seq(Nat)
  PROVE  /\ \A i \in 1 .. Len(s) : SubSeq(s, i, i) = <<s[i]>>
         /\ (\A i \in 1 .. Len(s) : s[i] # 0) => s \in Seq(NonZero)
         /\ SubSeq(s, 1, Len(s)) = s
  <1>1. ASSUME NEW i \in 1 .. Len(s) PROVE SubSeq(s, i, i) = <<s[i]>>
    <2>1. PICK a : a = SubSeq(s, i, i) /\ IsPiece(a, s, i, i)
      <3>1. i \in Nat /\ 1 <= i /\ i <= i + 1 /\ i <= Len(s)
        OBVIOUS
      <3>2. QED
        BY Zenon, <3>1, SubSeqIsPiece
    <2>2. i + 1 - i = 1 /\ i + 1 - 1 = i
      OBVIOUS
    <2>3. a \in Seq(Nat) /\ Len(a) = 1 /\ a[1] = s[i]
      BY <2>1, <2>2 DEF IsPiece
    <2>4. PICK b \in Nat : b = s[i]
      OBVIOUS
    <2>5. <<b>> \in Seq(Nat) /\ Len(<<b>>) = 1 /\ <<b>>[1] = b /\ \A j \in 1 .. 1 : j = 1
      OBVIOUS
    <2>6. a = <<b>>
      BY Zenon, <2>3, <2>4, <2>5, SeqEqual
    <2>7. QED
      BY Zenon, <2>1, <2>4, <2>6
  <1>2. ASSUME \A i \in 1 .. Len(s) : s[i] # 0 PROVE s \in Seq(NonZero)
    BY <1>2 DEF NonZero
  <1>3. SubSeq(s, 1, Len(s)) = s
    OBVIOUS
  <1>4. QED
    BY Zenon, <1>1, <1>2, <1>3

(* Around an element.                                                      *)
LEMMA PiecesAround ==
  ASSUME NEW s \in Seq(Nat), NEW l \in Nat, NEW i \in 1 .. Len(s), l < i
  PROVE  SubSeq(s, l + 1, Len(s))
           = SubSeq(s, l + 1, i - 1) \o (<<s[i]>> \o SubSeq(s, i + 1, Len(s)))
  <1>1. PICK n \in Nat, k \in Nat : n = Len(s) /\ k = i - 1
    OBVIOUS
  <1>2. /\ i \in Nat /\ 1 <= i /\ i <= i + 1 /\ i <= n
        /\ l + 1 \in Nat /\ 1 <= l + 1 /\ l + 1 <= k + 1 /\ k <= n /\ k + 1 = i
    BY <1>1
  <1>3. SubSeq(s, l + 1, k) \o SubSeq(s, i, n) = SubSeq(s, l + 1, n)
    <2>1. n <= Len(s)
      BY <1>1
    <2>2. Same(SubSeq(s, l + 1, k) \o SubSeq(s, k + 1, n), SubSeq(s, l + 1, n))
      BY Zenon, <1>2, <2>1, PiecesJoin
    <2>3. QED
      BY Zenon, <1>2, <2>2 DEF Same
  <1>4. SubSeq(s, i, i) \o SubSeq(s, i + 1, n) = SubSeq(s, i, n)
    <2>1. n <= Len(s)
      BY <1>1
    <2>2. Same(SubSeq(s, i, i) \o SubSeq(s, i + 1, n), SubSeq(s, i, n))
      BY Zenon, <1>2, <2>1, PiecesJoin
    <2>3. QED
      BY Zenon, <2>2 DEF Same
  <1>5. QED
    BY Zenon, <1>1, <1>3, <1>4, PieceFacts
----------------------------------------------------------------------------
(* The reader.                                                             *)

(* What the reader holds.                                                  *)
LEMMA RestFacts ==
  ASSUME ReaderInv
  PROVE  /\ Rest \in Seq(Nat)
         /\ Len(Rest) = Len(buffer) - offset
         /\ \A j \in 1 .. Len(Rest) : Rest[j] = buffer[offset + j]
  <1>1. /\ buffer \in Seq(Nat) /\ offset + 1 \in Nat /\ Len(buffer) \in Nat
        /\ 1 <= offset + 1 /\ offset + 1 <= Len(buffer) + 1 /\ Len(buffer) <= Len(buffer)
    BY DEF ReaderInv, FramingTypes
  <1>2. IsPiece(Rest, buffer, offset + 1, Len(buffer))
    BY Zenon, <1>1, SubSeqIsPiece DEF Rest
  <1>3. offset \in Nat
    BY DEF ReaderInv, FramingTypes
  <1> HIDE DEF Rest
  <1>4. QED
    BY <1>1, <1>2, <1>3 DEF IsPiece

(* Without a delimiter past the search position it holds no zero.          *)
LEMMA RestNonZero ==
  ASSUME ReaderInv, Delimiters = {}
  PROVE  Rest \in Seq(NonZero)
  <1>1. ASSUME NEW j \in 1 .. Len(Rest) PROVE Rest[j] # 0
    <2>1. /\ Rest[j] = buffer[offset + j] /\ Len(Rest) = Len(buffer) - offset
          /\ offset \in Nat /\ search \in Nat /\ Len(buffer) \in Nat
      BY RestFacts DEF ReaderInv, FramingTypes
    <2>2. offset + j \in offset + 1 .. search \/ offset + j \in search + 1 .. Len(buffer)
      BY <2>1
    <2>3. buffer[offset + j] # 0
      BY Zenon, <2>2 DEF Delimiters, ReaderInv
    <2>4. QED
      BY Zenon, <2>1, <2>3
  <1>2. QED
    BY Zenon, <1>1, RestFacts, PieceFacts

(* Equal bytes.                                                            *)
LEMMA RepeatFacts ==
  ASSUME NEW b \in Nat, NEW n \in Nat
  PROVE  /\ Repeat(b, n) \in Seq(Nat)
         /\ Len(Repeat(b, n)) = n
         /\ \A i \in 1 .. n : Repeat(b, n)[i] = b
  <1>1. Repeat(b, n) \in [1 .. n -> Nat]
    BY DEF Repeat
  <1>2. Repeat(b, n) \in Seq(Nat)
    BY <1>1
  <1>3. DOMAIN Repeat(b, n) = 1 .. n /\ \A i \in 1 .. n : Repeat(b, n)[i] = b
    BY DEF Repeat
  <1>4. Len(Repeat(b, n)) = n
    BY <1>2, <1>3
  <1>5. QED
    BY Zenon, <1>2, <1>3, <1>4

(* It starts where the reference starts.                                   *)
LEMMA ReaderInit ==
  ASSUME FramingInit
  PROVE  ReaderInv
  <1>1. PICK n \in 0 .. MaxLeftover : wire = Repeat(Leftover, n)
    BY DEF FramingInit
  <1>2. wire \in Seq(Nat)
    <2>1. n \in Nat /\ Leftover \in Nat
      BY FramingAssumption DEF Leftover
    <2>2. QED
      BY Zenon, <1>1, <2>1, RepeatFacts
  <1>3. FramingTypes
    <2>1. \A S : <<>> \in Seq(S)
      OBVIOUS
    <2>2. 0 \in Nat
      OBVIOUS
    <2>3. QED
      BY Zenon, <1>2, <2>1, <2>2 DEF FramingInit, FramingTypes
  <1>4. Rest = <<>>
    BY DEF FramingInit, Rest
  <1>5. Rest \o wire = carried
    BY <1>2, <1>4 DEF FramingInit
  <1>6. State(returned, <<>>, discard) = Start(FALSE)
    BY Zenon DEF State, Start, FramingInit
  <1>7. Whole = Scan(State(returned, <<>>, discard), Rest \o wire)
    BY Zenon, <1>5, <1>6 DEF Whole
  <1>8. /\ offset <= search /\ search <= Len(buffer) /\ Len(buffer) <= MaxFrame + 1
        /\ \A i \in offset + 1 .. search : buffer[i] # 0
    BY FramingAssumption DEF FramingInit
  <1>9. QED
    BY Zenon, <1>3, <1>7, <1>8 DEF ReaderInv

(* A send puts bytes on the wire and records itself.                       *)
Kinds == {"reset", "dropped", "packet"}

Puts(d, send) ==
  /\ d \in Seq(Nat)
  /\ send \in [kind : Kinds, content : Seq(Nat), ok : BOOLEAN]
  /\ wire' = wire \o d
  /\ carried' = carried \o d
  /\ resync' = ~send.ok
  /\ sends' = Append(sends, send)
  /\ UNCHANGED <<buffer, offset, search, discard, returned>>

(* The bytes of a send: all of its output, or some when it fails.          *)
PutsFirst(output, content, kind) ==
  \E ok \in BOOLEAN, n \in Nat :
    /\ n <= Len(output)
    /\ ok => n = Len(output)
    /\ Puts(SubSeq(output, 1, n), [kind |-> kind, content |-> content, ok |-> ok])

(* So a send does.                                                         *)
LEMMA SendPuts ==
  ASSUME NEW failed \in BOOLEAN, NEW content \in Seq(Nat), NEW kind \in Kinds,
         SendFrame(failed, content, kind)
  PROVE  PutsFirst(RecoveryPrefix(failed) \o content \o <<0>>, content, kind)
  <1> DEFINE output == RecoveryPrefix(failed) \o content \o <<0>>
  <1>1. output \in Seq(Nat)
    BY DEF RecoveryPrefix
  <1> DEFINE Sent(ok, n) ==
        /\ wire' = wire \o SubSeq(output, 1, n)
        /\ carried' = carried \o SubSeq(output, 1, n)
        /\ resync' = ~ok
        /\ sends' = Append(sends, [kind |-> kind, content |-> content, ok |-> ok])
        /\ UNCHANGED <<buffer, offset, search, discard, returned>>
  <1>0. PICK ok \in BOOLEAN :
          \E n \in IF ok THEN {Len(output)} ELSE 0 .. Len(output) : Sent(ok, n)
    BY Zenon DEF SendFrame
  <1>2. PICK n \in IF ok THEN {Len(output)} ELSE 0 .. Len(output) : Sent(ok, n)
    BY Zenon, <1>0
  <1> HIDE DEF output
  <1>3. n \in Nat /\ n <= Len(output) /\ (ok => n = Len(output)) /\ n \in 0 .. Len(output)
    BY <1>0, <1>1, <1>2
  <1>4. SubSeq(output, 1, n) \in Seq(Nat)
    BY Zenon, <1>1, <1>3, Beginnings
  <1> DEFINE send == [kind |-> kind, content |-> content, ok |-> ok]
  <1>5. send \in [kind : Kinds, content : Seq(Nat), ok : BOOLEAN] /\ send.ok = ok
    BY <1>0
  <1>6. Puts(SubSeq(output, 1, n), send)
    BY Zenon, <1>2, <1>4, <1>5 DEF Puts
  <1>7. QED
    BY Zenon, <1>0, <1>3, <1>6 DEF output, PutsFirst

(* It keeps the reader in step with the reference.                         *)
LEMMA ReaderPuts ==
  ASSUME ReaderInv, NEW d, NEW send, Puts(d, send)
  PROVE  ReaderInv'
  <1>1. /\ d \in Seq(Nat) /\ wire \in Seq(Nat) /\ carried \in Seq(Nat) /\ Rest \in Seq(Nat)
        /\ Rest \o wire \in Seq(Nat)
    BY Zenon, RestFacts, ConcatFacts DEF Puts, ReaderInv, FramingTypes
  <1>2. wire \o d \in Seq(Nat) /\ carried \o d \in Seq(Nat)
    BY Zenon, <1>1, ConcatFacts
  <1>3. Append(sends, send) \in Seq([kind : Kinds, content : Seq(Nat), ok : BOOLEAN])
    <2> DEFINE R == [kind : Kinds, content : Seq(Nat), ok : BOOLEAN]
    <2>1. send \in R /\ sends \in Seq(R)
      BY Zenon DEF Puts, ReaderInv, FramingTypes, Kinds
    <2> HIDE DEF R
    <2>2. Append(sends, send) \in Seq(R)
      BY <2>1
    <2>3. QED
      BY Zenon, <2>2 DEF R
  <1>4. resync' \in BOOLEAN
    BY Zenon DEF Puts
  <1>5. FramingTypes'
    BY Zenon, <1>2, <1>3, <1>4 DEF Puts, ReaderInv, FramingTypes, Kinds
  <1>6. Rest' = Rest
    BY Zenon DEF Puts, Rest
  <1> DEFINE x == State(returned, <<>>, discard)
  <1>7. Leads(Whole, d, Whole')
    BY ZenonT(30), <1>1, ScanConcat DEF Puts, Whole, Leads
  <1>8. Leads(x, Rest \o wire, Whole)
    BY Zenon DEF ReaderInv, Leads
  <1>9. x' = x
    BY Zenon DEF Puts
  <1> HIDE DEF x
  <1>10. Leads(x, Rest \o (wire \o d), Whole')
    BY Zenon, <1>1, <1>7, <1>8, LeadsThrough
  <1>11. Whole' = Scan(x', Rest' \o wire')
    BY Zenon, <1>6, <1>9, <1>10 DEF Puts, Leads
  <1>12. /\ offset' <= search' /\ search' <= Len(buffer)' /\ Len(buffer)' <= MaxFrame + 1
         /\ \A i \in offset' + 1 .. search' : buffer'[i] # 0
    BY Zenon DEF Puts, ReaderInv
  <1>13. QED
    BY Zenon, <1>5, <1>11, <1>12 DEF ReaderInv, x

(* The reader is where it was: nothing is cut off, the reference agrees.   *)
LEMMA Consumed ==
  ASSUME ReaderInv, NEW a \in Seq(Nat), NEW b \in Seq(Nat), Rest \o wire = a \o b
  PROVE  Whole = Scan(Scan(State(returned, <<>>, discard), a), b)
  <1>1. PICK x : x = State(returned, <<>>, discard)
    OBVIOUS
  <1>2. Scan(x, a \o b) = Scan(Scan(x, a), b)
    BY Zenon, ScanConcat
  <1>3. QED
    BY Zenon, <1>1, <1>2 DEF ReaderInv

(* A read moves bytes from the wire behind those the reader keeps.         *)
LEMMA ReaderReads ==
  ASSUME ReaderInv, NEW n \in Nat, ReadMore(n)
  PROVE  ReaderInv'
  <1>1. /\ wire \in Seq(Nat) /\ buffer \in Seq(Nat) /\ returned \in Seq(Seq(Nat))
        /\ discard \in BOOLEAN /\ Rest \in Seq(Nat) /\ Rest \in Seq(NonZero)
    BY Zenon, RestFacts, RestNonZero DEF ReaderInv, FramingTypes, ReadMore
  <1>2. PICK f : /\ f = Fragment /\ f \in Seq(Nat) /\ f \in Seq(NonZero)
                 /\ f = IF discard THEN <<>> ELSE Rest
    <2>1. <<>> \in Seq(Nat) /\ <<>> \in Seq(NonZero)
      OBVIOUS
    <2>2. Fragment = IF discard THEN <<>> ELSE Rest
      BY Zenon DEF Fragment, Rest
    <2>3. QED
      BY Zenon, <1>1, <2>1, <2>2
  <1>3. PICK a, b : /\ a = SubSeq(wire, 1, n) /\ b = SubSeq(wire, n + 1, Len(wire))
                    /\ a \in Seq(Nat) /\ b \in Seq(Nat) /\ a \o b = wire /\ Len(a) = n
    <2>1. n <= Len(wire) /\ Len(wire) \in Nat /\ n \in 0 .. Len(wire)
      BY <1>1 DEF ReadMore
    <2>2. SubSeq(wire, 1, n) \in Seq(Nat) /\ Len(SubSeq(wire, 1, n)) = n
      BY Zenon, <1>1, <2>1, Beginnings
    <2>3. SubSeq(wire, n + 1, Len(wire)) \in Seq(Nat)
      <3>1. n + 1 \in Nat /\ 1 <= n + 1 /\ n + 1 <= Len(wire) + 1 /\ Len(wire) <= Len(wire)
        BY <2>1
      <3>2. IsPiece(SubSeq(wire, n + 1, Len(wire)), wire, n + 1, Len(wire))
        BY Zenon, <1>1, <2>1, <3>1, SubSeqIsPiece
      <3>3. QED
        BY Zenon, <3>2 DEF IsPiece
    <2>4. SubSeq(wire, 1, n) \o SubSeq(wire, n + 1, Len(wire)) = wire
      <3>1. 1 \in Nat /\ 1 <= 1 /\ 1 <= n + 1 /\ Len(wire) <= Len(wire)
        BY <2>1
      <3>2. Same(SubSeq(wire, 1, n) \o SubSeq(wire, n + 1, Len(wire)), SubSeq(wire, 1, Len(wire)))
        BY Zenon, <1>1, <2>1, <3>1, PiecesJoin
      <3>3. QED
        BY Zenon, <1>1, <3>2, Beginnings DEF Same
    <2>5. QED
      BY Zenon, <2>2, <2>3, <2>4
  <1>4. /\ wire' = b /\ buffer' = f \o a /\ offset' = 0 /\ search' = Len(f)
        /\ Len(f) + n <= MaxFrame + 1
        /\ UNCHANGED <<resync, discard, sends, carried, returned>>
    BY Zenon, <1>2, <1>3 DEF ReadMore, Searched
  <1>5. /\ f \o a \in Seq(Nat) /\ Len(f \o a) = Len(f) + n /\ Len(f) \in Nat
        /\ \A i \in 1 .. Len(f) : (f \o a)[i] # 0
    <2>1. IsJoin(Nat, f \o a, f, a)
      BY Zenon, <1>2, <1>3, ConcatIsJoin
    <2>2. \A i \in 1 .. Len(f) : f[i] # 0
      BY Zenon, <1>2, NonZeroBytes
    <2>3. Len(f) \in Nat
      BY <1>2
    <2>4. QED
      BY Zenon, <1>3, <2>1, <2>2, <2>3 DEF IsJoin
  <1>6. FramingTypes'
    <2>1. 0 \in Nat
      OBVIOUS
    <2>2. QED
      BY Zenon, <1>3, <1>4, <1>5, <2>1 DEF ReaderInv, FramingTypes
  <1>7. /\ offset' <= search' /\ search' <= Len(buffer') /\ Len(buffer') <= MaxFrame + 1
        /\ \A i \in offset' + 1 .. search' : buffer'[i] # 0
    BY <1>4, <1>5
  <1>8. Rest' = f \o a
    <2>1. Rest' = SubSeq(f \o a, 1, Len(f \o a))
      BY <1>4 DEF Rest
    <2>2. QED
      BY Zenon, <1>5, <2>1, Beginnings
  <1>9. (f \o a) \o b = f \o wire
    <2>1. f \in Seq(Nat) /\ a \in Seq(Nat) /\ b \in Seq(Nat)
      BY Zenon, <1>2, <1>3
    <2>2. Same((f \o a) \o b, f \o (a \o b))
      BY Zenon, <2>1, Associates
    <2>3. QED
      BY Zenon, <1>3, <2>2 DEF Same
  <1>10. Whole = Scan(State(returned, <<>>, discard), f \o wire)
    <2>1. CASE discard = FALSE
      BY Zenon, <1>2, <2>1 DEF ReaderInv
    <2>2. CASE discard = TRUE
      <3>1. Whole = Scan(Scan(State(returned, <<>>, TRUE), Rest), wire)
        BY Zenon, <1>1, <2>2, Consumed
      <3>2. Scan(State(returned, <<>>, TRUE), Rest) = State(returned, <<>>, TRUE)
        <4>1. <<>> \in Seq(Nat)
          OBVIOUS
        <4>2. QED
          BY Zenon, <1>1, <4>1, ScanSkips
      <3>3. f \o wire = wire
        BY <1>1, <1>2, <2>2
      <3>4. QED
        BY Zenon, <2>2, <3>1, <3>2, <3>3
    <2>3. QED
      BY Zenon, <1>1, <2>1, <2>2
  <1>11. Whole' = Scan(State(returned', <<>>, discard'), Rest' \o wire')
    BY Zenon, <1>4, <1>8, <1>9, <1>10 DEF Whole
  <1>12. QED
    BY Zenon, <1>6, <1>7, <1>11 DEF ReaderInv

(* The first delimiter ends what the reader holds, or only the discard.    *)
LEMMA ReaderFinds ==
  ASSUME ReaderInv, FindDelimiter
  PROVE  ReaderInv'
  <1>1. /\ wire \in Seq(Nat) /\ buffer \in Seq(Nat) /\ returned \in Seq(Seq(Nat))
        /\ discard \in BOOLEAN /\ offset \in Nat /\ search \in Nat
    BY Zenon DEF ReaderInv, FramingTypes
  <1>2. PICK i \in Delimiters :
          /\ \A j \in Delimiters : i <= j
          /\ returned' = Report(SubSeq(buffer, offset + 1, i - 1))
          /\ offset' = i
          /\ search' = i
          /\ discard' = FALSE
          /\ UNCHANGED <<resync, wire, buffer, sends, carried>>
    BY Zenon DEF FindDelimiter
  <1>3. PICK n \in Nat : n = Len(buffer)
    BY <1>1
  <1>4. /\ i \in 1 .. n /\ i \in Nat /\ search < i /\ offset <= search /\ offset < i
        /\ n <= MaxFrame + 1 /\ buffer[i] = 0
    BY <1>1, <1>2, <1>3 DEF Delimiters, ReaderInv
  <1>5. PICK z : z = SubSeq(buffer, offset + 1, i - 1) /\ z \in Seq(NonZero) /\ Len(z) <= MaxFrame
    <2>1. PICK z : /\ z = SubSeq(buffer, offset + 1, i - 1)
                   /\ IsPiece(z, buffer, offset + 1, i - 1)
      <3>1. /\ offset + 1 \in Nat /\ i - 1 \in Nat /\ 1 <= offset + 1
            /\ offset + 1 <= i - 1 + 1 /\ i - 1 <= Len(buffer)
        BY <1>1, <1>3, <1>4
      <3>2. QED
        BY Zenon, <1>1, <3>1, SubSeqIsPiece
    <2>2. /\ z \in Seq(Nat) /\ Len(z) = i - 1 - offset
          /\ \A j \in 1 .. i - 1 - offset : z[j] = buffer[offset + j]
      BY <1>1, <1>4, <2>1 DEF IsPiece
    <2>3. ASSUME NEW j \in 1 .. Len(z) PROVE z[j] # 0
      <3>1. j \in 1 .. i - 1 - offset
        BY <2>2
      <3>2. CASE offset + j <= search
        <4>1. offset + j \in offset + 1 .. search
          BY <1>1, <3>1, <3>2
        <4>2. QED
          BY Zenon, <2>2, <3>1, <4>1 DEF ReaderInv
      <3>3. CASE offset + j > search
        <4>1. offset + j \in search + 1 .. n /\ ~(i <= offset + j)
          BY <1>1, <1>4, <3>1, <3>3
        <4>2. offset + j \notin Delimiters
          BY Zenon, <1>2, <4>1
        <4>3. buffer[offset + j] # 0
          BY Zenon, <1>3, <4>1, <4>2 DEF Delimiters
        <4>4. QED
          BY Zenon, <2>2, <3>1, <4>3
      <3>4. QED
        BY <1>1, <3>1, <3>2, <3>3
    <2>4. Len(z) <= MaxFrame
      BY <1>1, <1>4, <2>2, FramingAssumption
    <2>5. QED
      BY Zenon, <2>1, <2>2, <2>3, <2>4, PieceFacts
  <1>6. z \in Seq(Nat)
    BY Zenon, <1>5, NonZeroBytes
  <1>7. PICK rest : rest = SubSeq(buffer, i + 1, Len(buffer)) /\ rest \in Seq(Nat) /\ Rest' = rest
    <2>1. /\ i + 1 \in Nat /\ 1 <= i + 1 /\ i + 1 <= Len(buffer) + 1 /\ Len(buffer) \in Nat
          /\ Len(buffer) <= Len(buffer)
      BY <1>3, <1>4
    <2>2. IsPiece(SubSeq(buffer, i + 1, Len(buffer)), buffer, i + 1, Len(buffer))
      BY Zenon, <1>1, <2>1, SubSeqIsPiece
    <2>3. QED
      BY Zenon, <1>2, <2>2 DEF IsPiece, Rest
  <1>8. Rest = z \o (<<0>> \o rest)
    <2>1. SubSeq(buffer, offset + 1, Len(buffer))
            = SubSeq(buffer, offset + 1, i - 1)
                \o (<<buffer[i]>> \o SubSeq(buffer, i + 1, Len(buffer)))
      <3>1. i \in 1 .. Len(buffer)
        BY Zenon, <1>3, <1>4
      <3>2. QED
        BY Zenon, <1>1, <1>4, <3>1, PiecesAround
    <2>2. QED
      BY Zenon, <1>4, <1>5, <1>7, <2>1 DEF Rest
  <1>9. <<>> \in Seq(Nat) /\ <<0>> \in Seq(Nat) /\ 0 \in Nat /\ <<>> \o z = z /\ Len(<<>>) = 0
    BY <1>6
  <1>10. PICK x, y : /\ x = State(returned, <<>>, discard)
                     /\ y = State(returned', <<>>, discard')
    OBVIOUS
  <1>11. Leads(x, z \o <<0>>, y) /\ returned' \in Seq(Seq(Nat))
    <2>1. CASE discard = TRUE
      <3>1. x = State(returned, <<>>, TRUE) /\ returned' = returned
        BY Zenon, <1>2, <1>10, <2>1 DEF Report
      <3>2. y = State(returned, <<>>, FALSE)
        BY Zenon, <1>2, <1>10, <3>1
      <3>3. Leads(x, z, x)
        BY Zenon, <1>1, <1>5, <1>9, <3>1, ScanSkips DEF Leads
      <3>4. Leads(x, <<0>>, y)
        BY Zenon, <1>1, <1>9, <3>1, <3>2, LeadsZero
      <3>5. QED
        BY Zenon, <1>1, <1>6, <1>9, <3>1, <3>3, <3>4, LeadsOn
    <2>2. CASE discard = FALSE
      <3>1. x = State(returned, <<>>, FALSE) /\ returned' = Append(returned, z)
        BY Zenon, <1>2, <1>5, <1>10, <2>2 DEF Report
      <3>2. y = State(Append(returned, z), <<>>, FALSE)
        BY Zenon, <1>2, <1>10, <3>1
      <3>3. PICK w : w = State(returned, z, FALSE)
        BY Zenon
      <3>4. Leads(x, z, w)
        BY Zenon, <1>1, <1>5, <3>1, <3>3, LeadsGrown
      <3>5. Leads(w, <<0>>, y)
        BY Zenon, <1>1, <1>6, <3>2, <3>3, LeadsZero
      <3>6. Append(returned, z) \in Seq(Seq(Nat))
        <4> DEFINE S == Seq(Nat)
        <4>1. returned \in Seq(S) /\ z \in S
          BY Zenon, <1>1, <1>6
        <4> HIDE DEF S
        <4>2. Append(returned, z) \in Seq(S)
          BY <4>1
        <4>3. QED
          BY Zenon, <4>2 DEF S
      <3>7. QED
        BY Zenon, <1>6, <1>9, <3>1, <3>4, <3>5, <3>6, LeadsOn
    <2>3. QED
      BY Zenon, <1>1, <2>1, <2>2
  <1>12. Rest \o wire = (z \o <<0>>) \o (rest \o wire)
    <2>1. z \in Seq(Nat) /\ rest \in Seq(Nat) /\ wire \in Seq(Nat) /\ <<0>> \in Seq(Nat)
      BY Zenon, <1>1, <1>6, <1>7, <1>9
    <2>2. Same((z \o (<<0>> \o rest)) \o wire, (z \o <<0>>) \o (rest \o wire))
      BY Zenon, <2>1, AssociatesFour
    <2>3. QED
      BY Zenon, <1>8, <2>2 DEF Same
  <1>13. Whole' = Scan(y, rest \o wire)
    <2>1. z \o <<0>> \in Seq(Nat) /\ rest \o wire \in Seq(Nat)
      BY Zenon, <1>1, <1>6, <1>7, <1>9, ConcatFacts
    <2>2. Whole = Scan(Scan(x, z \o <<0>>), rest \o wire)
      BY Zenon, <1>10, <1>12, <2>1, Consumed
    <2>3. Whole' = Whole
      BY Zenon, <1>2 DEF Whole
    <2>4. QED
      BY Zenon, <1>11, <2>2, <2>3 DEF Leads
  <1>14. FramingTypes'
    BY Zenon, <1>2, <1>4, <1>11 DEF ReaderInv, FramingTypes
  <1>15. /\ offset' <= search' /\ search' <= Len(buffer') /\ Len(buffer') <= MaxFrame + 1
         /\ \A j \in offset' + 1 .. search' : buffer'[j] # 0
    <2>1. i <= i /\ i <= n /\ i + 1 .. i = {}
      BY <1>4
    <2>2. QED
      BY Zenon, <1>2, <1>3, <1>4, <2>1
  <1>16. QED
    BY Zenon, <1>2, <1>7, <1>10, <1>13, <1>14, <1>15 DEF ReaderInv

(* A buffer full of a frame's bytes is one byte more than a frame may have. *)
LEMMA ReaderOverflows ==
  ASSUME ReaderInv, ReportOverflow
  PROVE  ReaderInv'
  <1>1. /\ wire \in Seq(Nat) /\ returned \in Seq(Seq(Nat)) /\ discard \in BOOLEAN
        /\ Rest \in Seq(Nat) /\ Rest \in Seq(NonZero)
    BY Zenon, RestFacts, RestNonZero DEF ReaderInv, FramingTypes, ReportOverflow
  <1>2. discard = FALSE /\ Len(Rest) = MaxFrame + 1
    <2>1. Len(<<>>) # MaxFrame + 1
      BY FramingAssumption
    <2>2. QED
      BY Zenon, <1>1, <2>1 DEF ReportOverflow, Overflow, Fragment, Rest
  <1>3. PICK a, b : /\ a \in Seq(NonZero) /\ a \in Seq(Nat) /\ b \in Nat /\ b # 0
                    /\ Len(a) = MaxFrame /\ Rest = a \o <<b>>
    <2>1. PICK r : r = Rest
      OBVIOUS
    <2>2. /\ MaxFrame \in Nat /\ MaxFrame + 1 \in 1 .. Len(r) /\ MaxFrame \in 0 .. Len(r)
          /\ MaxFrame + 1 - 1 = MaxFrame
      BY <1>2, <2>1, FramingAssumption
    <2>3. /\ r \in Seq(Nat) /\ Len(r) = MaxFrame + 1
          /\ \A i \in 1 .. Len(r) : r[i] \in Nat /\ r[i] # 0
      BY Zenon, <1>1, <1>2, <2>1, NonZeroBytes
    <2>4. PICK a : /\ a = SubSeq(r, 1, MaxFrame) /\ a \in Seq(Nat) /\ Len(a) = MaxFrame
                   /\ r = Append(a, r[MaxFrame + 1])
      <3>1. SubSeq(r, 1, MaxFrame) \in Seq(Nat) /\ Len(SubSeq(r, 1, MaxFrame)) = MaxFrame
        BY Zenon, <2>2, <2>3, Beginnings
      <3>2. SubSeq(r, 1, MaxFrame + 1) = Append(SubSeq(r, 1, MaxFrame), r[MaxFrame + 1])
        <4>1. \A i \in 1 .. Len(r) : SubSeq(r, 1, i) = Append(SubSeq(r, 1, i - 1), r[i])
          BY Zenon, <2>3, Beginnings
        <4>2. PICK i \in 1 .. Len(r) : i = MaxFrame + 1
          BY Zenon, <2>2
        <4>3. SubSeq(r, 1, i) = Append(SubSeq(r, 1, i - 1), r[i])
          BY Zenon, <4>1, <4>2
        <4>4. i - 1 = MaxFrame
          BY <2>2, <4>2
        <4>5. QED
          BY Zenon, <4>2, <4>3, <4>4
      <3>3. SubSeq(r, 1, Len(r)) = r
        BY Zenon, <2>3, Beginnings
      <3>4. QED
        BY Zenon, <2>2, <2>3, <3>1, <3>2, <3>3
    <2>5. \A i \in 1 .. Len(a) : a[i] # 0
      <3>1. 1 \in Nat /\ 1 <= 1 /\ 1 <= MaxFrame + 1 /\ MaxFrame <= Len(r)
        BY <2>2, <2>3
      <3>2. IsPiece(a, r, 1, MaxFrame)
        BY Zenon, <2>2, <2>3, <2>4, <3>1, SubSeqIsPiece
      <3>3. ASSUME NEW i \in 1 .. Len(a) PROVE a[i] # 0
        <4>1. i \in 1 .. MaxFrame + 1 - 1 /\ 1 + i - 1 = i /\ i \in 1 .. Len(r)
          BY <2>2, <2>3, <2>4
        <4>2. QED
          BY Zenon, <2>3, <3>2, <4>1 DEF IsPiece
      <3>4. QED
        BY Zenon, <3>3
    <2>6. a \in Seq(NonZero)
      BY Zenon, <2>4, <2>5, PieceFacts
    <2>7. PICK b : b = r[MaxFrame + 1] /\ b \in Nat /\ b # 0
      <3>1. r[MaxFrame + 1] \in Nat /\ r[MaxFrame + 1] # 0
        BY Zenon, <2>2, <2>3
      <3>2. QED
        BY Zenon, <3>1
    <2>8. Append(a, b) = a \o <<b>>
      BY <2>4, <2>7
    <2>9. QED
      BY Zenon, <2>1, <2>4, <2>6, <2>7, <2>8
  <1>4. PICK x, y, w : /\ x = State(returned, <<>>, FALSE)
                       /\ w = State(returned, a, FALSE)
                       /\ y = State(Append(returned, TooLarge), <<>>, TRUE)
    BY Zenon
  <1>5. <<>> \in Seq(Nat) /\ Len(a) <= MaxFrame /\ <<b>> \in Seq(Nat)
    BY <1>3, FramingAssumption
  <1>6. Leads(x, a, w)
    BY Zenon, <1>1, <1>3, <1>4, <1>5, LeadsGrown
  <1>7. Leads(w, <<b>>, y)
    <2>1. Cut(w, b) = y
      BY Zenon, <1>1, <1>3, <1>4, CutFacts
    <2>2. QED
      BY Zenon, <1>3, <2>1, ScanOne DEF Leads
  <1>8. Leads(x, Rest, y)
    BY Zenon, <1>3, <1>5, <1>6, <1>7, LeadsOn
  <1>9. Whole = Scan(y, wire)
    <2>1. Whole = Scan(Scan(x, Rest), wire)
      BY Zenon, <1>1, <1>2, <1>4, Consumed
    <2>2. QED
      BY Zenon, <1>8, <2>1 DEF Leads
  <1>10. /\ returned' = Append(returned, TooLarge) /\ discard' = TRUE
         /\ buffer' = <<>> /\ offset' = 0 /\ search' = 0
         /\ UNCHANGED <<resync, wire, sends, carried>>
    BY Zenon DEF ReportOverflow
  <1>11. Append(returned, TooLarge) \in Seq(Seq(Nat))
    <2> DEFINE S == Seq(Nat)
    <2>1. returned \in Seq(S) /\ TooLarge \in S
      BY <1>1 DEF TooLarge
    <2> HIDE DEF S
    <2>2. Append(returned, TooLarge) \in Seq(S)
      BY <2>1
    <2>3. QED
      BY Zenon, <2>2 DEF S
  <1>12. FramingTypes'
    <2>1. 0 \in Nat
      OBVIOUS
    <2>2. QED
      BY Zenon, <1>5, <1>10, <1>11, <2>1 DEF ReaderInv, FramingTypes
  <1>13. Rest' \o wire' = wire
    <2>1. Rest' = <<>>
      BY <1>10 DEF Rest
    <2>2. QED
      BY <1>1, <1>10, <2>1
  <1>14. Whole' = Scan(State(returned', <<>>, discard'), Rest' \o wire')
    BY Zenon, <1>4, <1>9, <1>10, <1>13 DEF Whole
  <1>15. /\ offset' <= search' /\ search' <= Len(buffer') /\ Len(buffer') <= MaxFrame + 1
         /\ \A i \in offset' + 1 .. search' : buffer'[i] # 0
    BY <1>10, FramingAssumption
  <1>16. QED
    BY Zenon, <1>12, <1>14, <1>15 DEF ReaderInv

(* Every send puts bytes on the wire.                                      *)
LEMMA SendsPut ==
  ASSUME FramingTypes, SendReset \/ SendDropped \/ \E size \in 1 .. MaxFrame + 1 : SendPacket(size)
  PROVE  \E d, send : Puts(d, send)
  <1>1. CASE SendReset
    <2>1. ResetContent \in Seq(Nat)
      BY DEF ResetContent
    <2>2. QED
      BY Zenon, <1>1, <2>1, SendPuts DEF SendReset, Kinds, PutsFirst
  <1>2. CASE SendDropped
    <2>1. <<>> \in Seq(Nat)
      OBVIOUS
    <2>2. resync \in BOOLEAN /\ "dropped" \in Kinds /\ SendFrame(resync, <<>>, "dropped")
      BY Zenon, <1>2 DEF SendDropped, Kinds, FramingTypes
    <2>3. PutsFirst(RecoveryPrefix(resync) \o <<>> \o <<0>>, <<>>, "dropped")
      BY Zenon, <2>1, <2>2, SendPuts
    <2>4. QED
      BY Zenon, <2>3 DEF PutsFirst
  <1>3. ASSUME NEW size \in 1 .. MaxFrame + 1, SendPacket(size) PROVE \E d, send : Puts(d, send)
    <2>1. Len(sends) + 1 \in Nat /\ size \in Nat
      BY FramingAssumption DEF FramingTypes
    <2>2. PICK c \in Seq(Nat) : c = Repeat(Len(sends) + 1, size)
      BY Zenon, <2>1, RepeatFacts
    <2>3. resync \in BOOLEAN /\ "packet" \in Kinds /\ SendFrame(resync, c, "packet")
      BY Zenon, <1>3, <2>2 DEF SendPacket, Kinds, FramingTypes
    <2>4. PutsFirst(RecoveryPrefix(resync) \o c \o <<0>>, c, "packet")
      BY Zenon, <2>2, <2>3, SendPuts
    <2>5. QED
      BY Zenon, <2>4 DEF PutsFirst
  <1>4. QED
    BY Zenon, <1>1, <1>2, <1>3

(* Every step keeps the reader in step with the reference.                 *)
LEMMA ReaderStep ==
  ASSUME ReaderInv, [FramingNext]_framingVars
  PROVE  ReaderInv'
  <1>1. CASE SendReset \/ SendDropped \/ \E size \in 1 .. MaxFrame + 1 : SendPacket(size)
    BY Zenon, <1>1, SendsPut, ReaderPuts DEF ReaderInv
  <1>2. CASE FindDelimiter
    BY Zenon, <1>2, ReaderFinds
  <1>3. CASE ReportOverflow
    BY Zenon, <1>3, ReaderOverflows
  <1>4. CASE \E n \in 0 .. MaxFrame + 1 : ReadMore(n)
    <2>1. \A n \in 0 .. MaxFrame + 1 : n \in Nat
      BY FramingAssumption
    <2>2. QED
      BY Zenon, <1>4, <2>1, ReaderReads
  <1>5. CASE UNCHANGED framingVars
    BY Zenon, <1>5 DEF framingVars, ReaderInv, FramingTypes, Whole, Rest
  <1>6. QED
    BY Zenon, <1>1, <1>2, <1>3, <1>4, <1>5 DEF FramingNext

(* The reader is always in step with the reference.                        *)
LEMMA ReaderAlways == FramingSpec => []ReaderInv
  <1>1. FramingInit => ReaderInv
    BY Zenon, ReaderInit
  <1>2. ReaderInv /\ [FramingNext]_framingVars => ReaderInv'
    BY Zenon, ReaderStep
  <1>3. QED
    BY <1>1, <1>2, PTL DEF FramingSpec

(* However the reads cut the stream, whatever failed and whatever the      *)
(* buffer's state: what next_frame returned, with what is still to come,   *)
(* is what the bytes of the stream say.                                    *)
THEOREM ReadsAreFaithful == FramingSpec => []ReaderMatchesStream
  <1>1. ASSUME ReaderInv PROVE ReaderMatchesStream
    <2>1. PICK s \in Seq(Nat) : s = Rest \o wire
      <3>1. Rest \in Seq(Nat) /\ wire \in Seq(Nat)
        BY Zenon, <1>1, RestFacts DEF ReaderInv, FramingTypes
      <3>2. QED
        BY Zenon, <3>1, ConcatFacts
    <2>2. returned \in Seq(Seq(Nat)) /\ discard \in BOOLEAN
      BY Zenon, <1>1 DEF ReaderInv, FramingTypes
    <2>3. PICK x : x = Start(discard)
      OBVIOUS
    <2>4. x \in States /\ x.frames = <<>> /\ x.part = <<>> /\ x.skip = discard
      BY <2>2, <2>3 DEF Start, States
    <2>5. returned \o <<>> = returned
      BY <2>2
    <2>6. PICK y : y = Scan(x, s)
      OBVIOUS
    <2>7. Scan(State(returned \o x.frames, x.part, x.skip), s)
            = State(returned \o y.frames, y.part, y.skip)
      BY Zenon, <2>1, <2>2, <2>4, <2>6, ScanAfter
    <2>8. Whole = State(returned \o y.frames, y.part, y.skip)
      BY Zenon, <1>1, <2>1, <2>4, <2>5, <2>7 DEF ReaderInv
    <2>9. Whole.frames = returned \o y.frames
      BY Zenon, <2>8, StateParts
    <2>10. QED
      BY Zenon, <2>1, <2>3, <2>6, <2>9 DEF ReaderMatchesStream, Frames, Whole, Rest
  <1>2. QED
    BY <1>1, ReaderAlways, PTL
----------------------------------------------------------------------------
(* The sends.                                                              *)

(* A frame more.                                                           *)
LEMMA AppendFacts ==
  ASSUME NEW S, NEW f \in Seq(S), NEW p \in S
  PROVE  /\ DOMAIN Append(f, p) = DOMAIN f \cup {Len(f) + 1}
         /\ Len(f) + 1 \notin DOMAIN f
         /\ Append(f, p)[Len(f) + 1] = p
         /\ \A i \in DOMAIN f : Append(f, p)[i] = f[i]
         /\ Append(f, p) # <<>> /\ Len(Append(f, p)) = Len(f) + 1
         /\ Append(f, p) \in Seq(S)
  <1>1. /\ DOMAIN Append(f, p) = DOMAIN f \cup {Len(f) + 1}
        /\ Len(f) + 1 \notin DOMAIN f
    OBVIOUS
  <1>2. /\ Append(f, p)[Len(f) + 1] = p
        /\ \A i \in DOMAIN f : Append(f, p)[i] = f[i]
    OBVIOUS
  <1>3. /\ Append(f, p) # <<>> /\ Len(Append(f, p)) = Len(f) + 1
        /\ Append(f, p) \in Seq(S)
    BY SMTT(30)
  <1>4. QED
    BY Zenon, <1>1, <1>2, <1>3

(* A frame more is of the send whose byte it starts with.                  *)
Gains(x, y, frame, n) ==
  /\ ~IsOf(frame, n) => Of(y, n) = Of(x, n)
  /\ IsOf(frame, n) => Of(y, n) = Of(x, n) \cup {Len(x.frames) + 1}
  /\ \A i \in Of(x, n) : i \in DOMAIN y.frames /\ y.frames[i] = x.frames[i]

(* It is gained when the frame is appended.                                *)
LEMMA OfAppend ==
  ASSUME NEW f \in Seq(Seq(Nat)), NEW p \in Seq(Nat), NEW x, NEW y, NEW n,
         x.frames = f, y.frames = Append(f, p)
  PROVE  Gains(x, y, p, n)
  <1> DEFINE g == Append(f, p)
  <1>1. /\ DOMAIN g = DOMAIN f \cup {Len(f) + 1}
        /\ Len(f) + 1 \notin DOMAIN f
        /\ g[Len(f) + 1] = p
        /\ \A i \in DOMAIN f : g[i] = f[i]
    BY AppendFacts
  <1>2. PICK l : l = Len(f) + 1
    OBVIOUS
  <1> HIDE DEF g
  <1>3. Of(y, n) = {i \in DOMAIN g : IsOf(g[i], n)} /\ Of(x, n) = {i \in DOMAIN f : IsOf(f[i], n)}
    BY Zenon DEF Of, g
  <1>4. ~IsOf(p, n) => Of(y, n) = Of(x, n)
    BY Zenon, <1>1, <1>2, <1>3
  <1>5. IsOf(p, n) => Of(y, n) = Of(x, n) \cup {l}
    BY Zenon, <1>1, <1>2, <1>3
  <1>6. \A i \in Of(x, n) : i \in DOMAIN y.frames /\ y.frames[i] = x.frames[i]
    BY Zenon, <1>1, <1>3 DEF g
  <1>7. QED
    BY Zenon, <1>2, <1>4, <1>5, <1>6 DEF Gains

(* What is told of a send stays told as long as nothing of it comes.       *)
LEMMA TellsKept ==
  ASSUME NEW x, NEW y, NEW n, NEW send, Tells(x, n, send), ~IsOf(y.part, n),
         Of(y, n) = Of(x, n),
         \A i \in Of(x, n) : i \in DOMAIN y.frames /\ y.frames[i] = x.frames[i]
  PROVE  Tells(y, n, send)
  <1>1. ASSUME NEW frame, One(x, n, frame) PROVE One(y, n, frame)
    <2>1. PICK i \in DOMAIN x.frames : Of(x, n) = {i} /\ x.frames[i] = frame
      BY Zenon, <1>1 DEF One
    <2>2. i \in DOMAIN y.frames /\ y.frames[i] = frame /\ Of(y, n) = {i}
      BY Zenon, <2>1
    <2>3. QED
      BY Zenon, <2>2 DEF One
  <1>2. None(x, n) => None(y, n)
    BY Zenon DEF None
  <1>3. QED
    BY Zenon, <1>1, <1>2 DEF Tells

(* No frame starts with nothing.                                           *)
LEMMA NothingIsOf ==
  ASSUME NEW n
  PROVE  ~IsOf(<<>>, n)
  BY Zenon DEF IsOf

Shapes == {x \in States : x.skip => x.part = <<>>}

(* What is skipped leaves no unfinished frame.                             *)
LEMMA ShapeKept ==
  ASSUME NEW x \in Shapes, NEW b \in Nat
  PROVE  Cut(x, b) \in Shapes
  <1>1. PICK f \in Seq(Seq(Nat)), p \in Seq(Nat), k \in BOOLEAN : x = State(f, p, k)
    BY DEF State, States, Shapes
  <1>2. Cut(x, b) \in States
    BY Zenon, CutTyped DEF Shapes
  <1>3. CASE x = State(f, p, TRUE)
    <2>1. p = <<>>
      BY <1>3, StateParts DEF State, Shapes
    <2>2. Cut(x, b) = State(f, p, FALSE) \/ Cut(x, b) = State(f, p, TRUE)
      BY Zenon, <1>1, <1>3, CutCases
    <2>3. QED
      BY <1>2, <2>1, <2>2, StateParts DEF State, Shapes
  <1>4. CASE x = State(f, p, FALSE)
    <2>1. \/ Cut(x, b) = State(Append(f, p), <<>>, FALSE)
          \/ Cut(x, b) = State(f, Append(p, b), FALSE)
          \/ Cut(x, b) = State(Append(f, TooLarge), <<>>, TRUE)
      BY Zenon, <1>1, <1>4, CutCases
    <2>2. QED
      BY <1>2, <2>1, StateParts DEF State, Shapes
  <1>5. QED
    BY Zenon, <1>1, <1>3, <1>4

(* A zero keeps what is told, and the next frame starts afresh.            *)
LEMMA ZeroKeeps ==
  ASSUME NEW x \in Shapes, NEW ss, Told(x, ss), NEW y, y = Cut(x, 0)
  PROVE  Told(y, ss) /\ Clean(y) /\ y \in States
  <1>0. 0 \in Nat
    OBVIOUS
  <1>1. PICK f \in Seq(Seq(Nat)), p \in Seq(Nat), k \in BOOLEAN : x = State(f, p, k)
    BY DEF State, States, Shapes
  <1>2. y \in States
    BY Zenon, <1>0, CutTyped DEF Shapes
  <1>3. CASE k = TRUE
    <2>1. p = <<>>
      BY <1>1, <1>3, StateParts DEF State, Shapes
    <2>2. y = State(f, p, FALSE)
      BY Zenon, <1>0, <1>1, <1>3, CutFacts
    <2>3. y.frames = x.frames /\ y.part = x.part /\ Clean(y)
      BY <1>1, <2>1, <2>2, StateParts DEF State, Clean
    <2>4. \A n : Of(y, n) = Of(x, n)
      BY Zenon, <2>3 DEF Of
    <2>5. \A n, s : Tells(x, n, s) => Tells(y, n, s)
      BY Zenon, <2>3, <2>4 DEF Tells, One, None
    <2>6. QED
      BY Zenon, <1>2, <2>3, <2>4, <2>5 DEF Told, None
  <1>4. CASE k = FALSE
    <2>1. y = State(Append(f, p), <<>>, FALSE)
      BY Zenon, <1>0, <1>1, <1>4, CutFacts
    <2>2. /\ x.frames = f /\ x.part = p /\ y.frames = Append(f, p) /\ y.part = <<>>
          /\ Clean(y)
      BY <1>1, <2>1, StateParts DEF State, Clean
    <2>3. \A n : /\ ~IsOf(p, n) => Of(y, n) = Of(x, n)
                 /\ IsOf(p, n) => Of(y, n) = Of(x, n) \cup {Len(f) + 1}
                 /\ \A i \in Of(x, n) : i \in DOMAIN y.frames /\ y.frames[i] = x.frames[i]
      <3>1. f \in Seq(Seq(Nat)) /\ p \in Seq(Nat) /\ x.frames = f /\ y.frames = Append(f, p)
        BY Zenon, <1>1, <2>2
      <3>2. \A n : Gains(x, y, p, n)
        BY Zenon, <3>1, OfAppend
      <3>3. QED
        BY Zenon, <3>1, <3>2 DEF Gains
    <2>4. \A n : ~IsOf(y.part, n)
      BY Zenon, <2>2, NothingIsOf
    <2>5. ASSUME NEW n, NEW s, Tells(x, n, s) PROVE Tells(y, n, s)
      <3>1. CASE ~IsOf(p, n)
        BY Zenon, <2>3, <2>4, <2>5, <3>1, TellsKept
      <3>2. CASE IsOf(p, n)
        <4>1. ~s.ok /\ Of(x, n) = {} /\ PartOf(p, s.content)
          BY Zenon, <2>2, <2>5, <3>2 DEF Tells, None
        <4>2. PICK j \in DOMAIN s.content : p = SubSeq(s.content, 1, j)
          BY Zenon, <4>1 DEF PartOf
        <4>3. PICK l : l = Len(f) + 1
          BY Zenon
        <4>4. l \in DOMAIN y.frames /\ y.frames[l] = p
          BY <1>1, <2>2, <4>3, AppendFacts
        <4>5. Of(y, n) = {l}
          BY Zenon, <2>3, <3>2, <4>1, <4>3
        <4>6. One(y, n, SubSeq(s.content, 1, j))
          BY Zenon, <4>2, <4>4, <4>5 DEF One
        <4>7. QED
          BY Zenon, <2>4, <4>1, <4>2, <4>6 DEF Tells
      <3>3. QED
        BY Zenon, <3>1, <3>2
    <2>6. ASSUME NEW n, None(x, n), ~IsOf(x.part, n) PROVE None(y, n) /\ ~IsOf(y.part, n)
      BY Zenon, <2>2, <2>3, <2>4, <2>6 DEF None
    <2>7. Told(y, ss)
      BY Zenon, <2>5, <2>6 DEF Told
    <2>8. QED
      BY Zenon, <1>2, <2>2, <2>7
  <1>5. QED
    BY Zenon, <1>1, <1>3, <1>4

(* Bytes of the m-th send.                                                 *)
BytesOf(w, m) == w = <<>> \/ w[1] = m

(* Of no other send.                                                       *)
LEMMA OfNoOther ==
  ASSUME NEW w, NEW m, NEW n, BytesOf(w, m), n # m
  PROVE  ~IsOf(w, n)
  BY Zenon DEF BytesOf, IsOf

(* The sends after one more.                                               *)
LEMMA OneMore ==
  ASSUME NEW S, NEW ss \in Seq(S), NEW send \in S, NEW m, m = Len(ss) + 1, NEW y,
         \A n \in DOMAIN ss : ss[n].kind = "packet" => Tells(y, n, ss[n]),
         send.kind = "packet" => Tells(y, m, send),
         \A n \in 1 .. MaxSends \ DOMAIN ss : n # m => None(y, n) /\ ~IsOf(y.part, n)
  PROVE  Told(y, Append(ss, send))
  <1>1. PICK tt : tt = Append(ss, send)
    BY Zenon
  <1>2. /\ DOMAIN tt = DOMAIN ss \cup {m} /\ m \notin DOMAIN ss
        /\ tt[m] = send /\ \A i \in DOMAIN ss : tt[i] = ss[i]
    BY <1>1, AppendFacts
  <1>3. \A n \in DOMAIN tt : tt[n].kind = "packet" => Tells(y, n, tt[n])
    BY Zenon, <1>2
  <1>4. \A n \in 1 .. MaxSends \ DOMAIN tt : None(y, n) /\ ~IsOf(y.part, n)
    BY Zenon, <1>2
  <1>5. QED
    BY Zenon, <1>1, <1>3, <1>4 DEF Told

(* The numbers of the sends so far and of the next.                        *)
LEMMA SendNumbers ==
  ASSUME NEW S, NEW ss \in Seq(S), NEW m, m = Len(ss) + 1, Len(ss) < MaxSends
  PROVE  /\ m \in 1 .. MaxSends \ DOMAIN ss
         /\ \A n \in DOMAIN ss : n # m
  BY FramingAssumption

(* A send that stopped before its last byte.                               *)
LEMMA Unfinished ==
  ASSUME NEW S, NEW ss \in Seq(S), NEW send \in S, NEW m, m = Len(ss) + 1, Len(ss) < MaxSends,
         NEW x, Told(x, ss), NEW w, NEW y, y.frames = x.frames, y.part = w, BytesOf(w, m),
         send.kind = "packet" => ~send.ok /\ (w # <<>> => PartOf(w, send.content))
  PROVE  Told(y, Append(ss, send))
  <1>1. /\ m \in 1 .. MaxSends \ DOMAIN ss
        /\ \A n \in DOMAIN ss : n # m
    BY Zenon, SendNumbers
  <1>2. \A n : Of(y, n) = Of(x, n)
    BY Zenon DEF Of
  <1>3. \A n : n # m => ~IsOf(y.part, n)
    BY Zenon, OfNoOther
  <1>4. ASSUME NEW n \in DOMAIN ss, ss[n].kind = "packet" PROVE Tells(y, n, ss[n])
    <2>1. Tells(x, n, ss[n]) /\ ~IsOf(y.part, n)
      BY Zenon, <1>1, <1>3, <1>4 DEF Told
    <2>2. \A i \in Of(x, n) : i \in DOMAIN y.frames /\ y.frames[i] = x.frames[i]
      BY Zenon DEF Of
    <2>3. QED
      BY Zenon, <1>2, <2>1, <2>2, TellsKept
  <1>5. ASSUME send.kind = "packet" PROVE Tells(y, m, send)
    <2>1. None(y, m)
      BY Zenon, <1>1, <1>2 DEF Told, None
    <2>2. IsOf(y.part, m) => PartOf(y.part, send.content)
      BY Zenon, <1>5 DEF IsOf
    <2>3. QED
      BY Zenon, <1>5, <2>1, <2>2 DEF Tells
  <1>6. \A n \in 1 .. MaxSends \ DOMAIN ss : n # m => None(y, n) /\ ~IsOf(y.part, n)
    BY Zenon, <1>2, <1>3 DEF Told, None
  <1>7. QED
    BY Zenon, <1>4, <1>5, <1>6, OneMore

(* A send with all its bytes.                                              *)
LEMMA Finished ==
  ASSUME NEW S, NEW ss \in Seq(S), NEW send \in S, NEW m, m = Len(ss) + 1, Len(ss) < MaxSends,
         NEW x, x.frames \in Seq(Seq(Nat)), Told(x, ss), NEW c \in Seq(Nat), BytesOf(c, m),
         NEW y, y.frames = Append(x.frames, c), y.part = <<>>,
         send.kind = "packet" => c # <<>> /\ send.content = c
  PROVE  Told(y, Append(ss, send))
  <1>1. /\ m \in 1 .. MaxSends \ DOMAIN ss
        /\ \A n \in DOMAIN ss : n # m
    BY Zenon, SendNumbers
  <1>2. \A n : Gains(x, y, c, n)
    BY Zenon, OfAppend
  <1>3. \A n : ~IsOf(y.part, n)
    BY Zenon, NothingIsOf
  <1>4. \A n : n # m => ~IsOf(c, n)
    BY Zenon, OfNoOther
  <1>5. ASSUME NEW n \in DOMAIN ss, ss[n].kind = "packet" PROVE Tells(y, n, ss[n])
    <2>1. Tells(x, n, ss[n]) /\ ~IsOf(c, n)
      BY Zenon, <1>1, <1>4, <1>5 DEF Told
    <2>2. /\ Of(y, n) = Of(x, n)
          /\ \A i \in Of(x, n) : i \in DOMAIN y.frames /\ y.frames[i] = x.frames[i]
      BY Zenon, <1>2, <2>1 DEF Gains
    <2>3. QED
      BY Zenon, <1>3, <2>1, <2>2, TellsKept
  <1>6. ASSUME send.kind = "packet" PROVE Tells(y, m, send)
    <2>1. PICK l : l = Len(x.frames) + 1
      OBVIOUS
    <2>2. l \in DOMAIN y.frames /\ y.frames[l] = c
      BY <2>1, AppendFacts
    <2>3. Of(x, m) = {}
      BY Zenon, <1>1 DEF Told, None
    <2>4. IsOf(c, m)
      BY Zenon, <1>6 DEF IsOf, BytesOf
    <2>5. Of(y, m) = {l}
      BY Zenon, <1>2, <2>1, <2>3, <2>4 DEF Gains
    <2>6. QED
      BY Zenon, <1>3, <1>6, <2>2, <2>5 DEF Tells, One
  <1>7. \A n \in 1 .. MaxSends \ DOMAIN ss : n # m => None(y, n) /\ ~IsOf(y.part, n)
    BY Zenon, <1>2, <1>3, <1>4 DEF Told, None, Gains
  <1>8. QED
    BY Zenon, <1>5, <1>6, <1>7, OneMore

(* The beginnings of two sequences put together.                           *)
LEMMA BeginningOfTwo ==
  ASSUME NEW a \in Seq(Nat), NEW b \in Seq(Nat), NEW n \in Nat, n <= Len(a) + Len(b)
  PROVE  /\ n <= Len(a) => SubSeq(a \o b, 1, n) = SubSeq(a, 1, n)
         /\ Len(a) <= n => SubSeq(a \o b, 1, n) = a \o SubSeq(b, 1, n - Len(a))
  <1>1. ASSUME n <= Len(a) PROVE SubSeq(a \o b, 1, n) = SubSeq(a, 1, n)
    BY <1>1
  <1>2. ASSUME Len(a) <= n PROVE SubSeq(a \o b, 1, n) = a \o SubSeq(b, 1, n - Len(a))
    BY <1>2
  <1>3. QED
    BY Zenon, <1>1, <1>2

(* The first k bytes of a frame of the m-th send.                          *)
FirstBytes(w, k, c, m) ==
  /\ w \in Seq(Nat) /\ w \in Seq(NonZero) /\ Len(w) = k
  /\ BytesOf(w, m)
  /\ w # <<>> => PartOf(w, c)

(* Every beginning of the frame's bytes is such.                           *)
LEMMA FrameBytes ==
  ASSUME NEW m \in NonZero, NEW size \in Nat, NEW k \in 0 .. size,
         NEW c, c = Repeat(m, size)
  PROVE  FirstBytes(SubSeq(c, 1, k), k, c, m)
  <1> DEFINE w == SubSeq(c, 1, k)
  <1>0. m \in Nat /\ m # 0
    BY DEF NonZero
  <1>1. c \in Seq(Nat) /\ Len(c) = size /\ \A i \in 1 .. size : c[i] = m
    BY Zenon, <1>0, RepeatFacts
  <1>2. w \in Seq(Nat) /\ Len(w) = k
    BY Zenon, <1>1, Beginnings
  <1> HIDE DEF w
  <1>3. ASSUME NEW i \in 1 .. Len(w) PROVE w[i] = m
    <2>1. 1 \in Nat /\ 1 <= 1 /\ 1 <= k + 1 /\ k \in Nat /\ k <= Len(c)
      BY <1>1
    <2>2. IsPiece(w, c, 1, k)
      BY Zenon, <1>1, <2>1, SubSeqIsPiece DEF w
    <2>3. i \in 1 .. k + 1 - 1 /\ i \in 1 .. size /\ 1 + i - 1 = i
      BY <1>2
    <2>4. QED
      BY Zenon, <1>1, <2>2, <2>3 DEF IsPiece
  <1>4. w \in Seq(NonZero)
    BY Zenon, <1>0, <1>2, <1>3, PieceFacts
  <1>5. w # <<>> => 1 \in 1 .. Len(w) /\ k \in 1 .. size
    BY <1>2
  <1>6. BytesOf(w, m)
    BY Zenon, <1>3, <1>5 DEF BytesOf
  <1>7. DOMAIN c = 1 .. size
    BY <1>1
  <1>8. w # <<>> => PartOf(w, c)
    BY Zenon, <1>5, <1>7 DEF PartOf, w
  <1>9. QED
    BY Zenon, <1>2, <1>4, <1>6, <1>8 DEF FirstBytes, w

(* A send of which nothing went out.                                       *)
LEMMA NotStarted ==
  ASSUME NEW S, NEW ss \in Seq(S), NEW send \in S, Len(ss) < MaxSends, ~send.ok,
         NEW x, Told(x, ss)
  PROVE  Told(x, Append(ss, send))
  <1>1. PICK m : m = Len(ss) + 1
    OBVIOUS
  <1>2. m \in 1 .. MaxSends \ DOMAIN ss
    BY Zenon, <1>1, SendNumbers
  <1>3. Tells(x, m, send)
    BY Zenon, <1>2 DEF Told, Tells
  <1>4. QED
    BY Zenon, <1>1, <1>3, OneMore DEF Told

(* What a send makes of the stream: recovery prefix, bytes and delimiter,  *)
(* of which a failed send leaves the first n.                              *)
Output(P, c) == (P \o c) \o <<0>>

SendLeads(x, P, c, n, y) ==
  n <= Len(Output(P, c)) /\ y = Scan(x, SubSeq(Output(P, c), 1, n))

(* A send and all there is to know of it.                                  *)
SendOf(S, ss, send, x, P, size, c, n, y) ==
  /\ ss \in Seq(S) /\ send \in S /\ Len(ss) < MaxSends
  /\ x \in Shapes /\ Told(x, ss) /\ P \in {<<>>, <<0>>} /\ (P = <<>> => Clean(x))
  /\ size \in Nat /\ size <= MaxFrame /\ c = Repeat(Len(ss) + 1, size)
  /\ n \in Nat /\ SendLeads(x, P, c, n, y)
  /\ send.kind = "packet" => size # 0 /\ send.content = c
  /\ send.ok => n = Len(Output(P, c))

SignalLast(x) == x.frames # <<>> /\ x.frames[Len(x.frames)] = <<>>

(* However far the send came, the stream tells what it should.             *)
LEMMA SendTells ==
  ASSUME NEW S, NEW ss, NEW send, NEW x, NEW P, NEW size, NEW c, NEW n, NEW y,
         SendOf(S, ss, send, x, P, size, c, n, y)
  PROVE  /\ Told(y, Append(ss, send))
         /\ n = Len(Output(P, c)) => Clean(y) /\ (size = 0 => SignalLast(y))
  <1>a. /\ ss \in Seq(S) /\ send \in S /\ Len(ss) < MaxSends /\ x \in Shapes /\ Told(x, ss)
        /\ P \in {<<>>, <<0>>} /\ (P = <<>> => Clean(x)) /\ size \in Nat /\ size <= MaxFrame
        /\ c = Repeat(Len(ss) + 1, size) /\ n \in Nat /\ SendLeads(x, P, c, n, y)
    BY Zenon DEF SendOf
  <1>b. /\ send.kind = "packet" => size # 0 /\ send.content = c
        /\ send.ok => n = Len(Output(P, c))
    BY Zenon DEF SendOf
  <1> USE <1>a, <1>b
  <1>1. PICK m \in NonZero : m = Len(ss) + 1
    <2>1. Len(ss) + 1 \in NonZero
      BY DEF NonZero
    <2>2. QED
      BY Zenon, <2>1
  <1>2. c \in Seq(Nat) /\ Len(c) = size /\ m \in Nat /\ c = Repeat(m, size)
    <2>1. m \in Nat
      BY DEF NonZero
    <2>2. QED
      BY Zenon, <1>1, <2>1, RepeatFacts
  <1>3. PICK p \in 0 .. 1 : p = Len(P) /\ P \in Seq(Nat) /\ (p = 0 <=> P = <<>>)
    <2>1. CASE P = <<>>
      BY <2>1
    <2>2. CASE P = <<0>>
      BY <2>2
    <2>3. QED
      BY Zenon, <2>1, <2>2
  <1>4. /\ P \o c \in Seq(Nat) /\ Len(P \o c) = p + size /\ <<0>> \in Seq(Nat)
        /\ Len(<<0>>) = 1 /\ Output(P, c) \in Seq(Nat) /\ Len(Output(P, c)) = p + size + 1
    <2>1. P \in Seq(Nat) /\ c \in Seq(Nat)
      BY Zenon, <1>2, <1>3
    <2>2. P \o c \in Seq(Nat) /\ Len(P \o c) = p + size
      <3>1. IsJoin(Nat, P \o c, P, c)
        BY Zenon, <2>1, ConcatIsJoin
      <3>2. QED
        BY Zenon, <1>2, <1>3, <3>1 DEF IsJoin
    <2>3. PICK q \in Seq(Nat) : q = P \o c
      BY Zenon, <2>2
    <2>4. q \o <<0>> \in Seq(Nat) /\ Len(q \o <<0>>) = Len(q) + 1
      OBVIOUS
    <2>5. <<0>> \in Seq(Nat) /\ Len(<<0>>) = 1
      OBVIOUS
    <2>6. QED
      BY Zenon, <2>2, <2>3, <2>4, <2>5 DEF Output
  <1>5. PICK y0 : Leads(x, P, y0) /\ y0 \in States /\ Told(y0, ss) /\ Clean(y0)
    <2>1. CASE P = <<>>
      BY Zenon, <2>1, ScanEmpty DEF Leads, Shapes
    <2>2. CASE P = <<0>>
      <3>1. 0 \in Nat
        OBVIOUS
      <3>2. Leads(x, <<0>>, Cut(x, 0))
        BY Zenon, <3>1, ScanOne DEF Leads
      <3>3. QED
        BY Zenon, <2>2, <3>2, ZeroKeeps
    <2>3. QED
      BY Zenon, <2>1, <2>2
  <1>6. PICK f \in Seq(Seq(Nat)) : f = y0.frames /\ y0 = State(f, <<>>, FALSE)
    BY <1>5 DEF States, State, Clean
  <1>7. \A k \in 0 .. size : FirstBytes(SubSeq(c, 1, k), k, c, m)
    BY Zenon, <1>1, <1>2, FrameBytes
  <1>8. ASSUME NEW k \in 0 .. size, NEW w, w = SubSeq(c, 1, k)
        PROVE  Leads(y0, w, State(f, w, FALSE)) /\ w \in Seq(Nat)
    <2>1. w \in Seq(NonZero) /\ w \in Seq(Nat) /\ Len(w) = k
      BY Zenon, <1>7, <1>8 DEF FirstBytes
    <2>2. Len(w) <= MaxFrame
      BY <2>1, FramingAssumption
    <2>3. QED
      BY Zenon, <1>6, <2>1, <2>2, LeadsGrown
  <1>9. CASE n < p
    <2>1. n = 0 /\ n # Len(Output(P, c))
      BY SMTT(30), <1>4, <1>9
    <2>2. y = x
      BY Zenon, <1>4, <2>1, Beginnings, ScanEmpty DEF SendLeads
    <2>3. QED
      BY Zenon, <2>1, <2>2, NotStarted
  <1>10. CASE p <= n /\ n <= p + size
    <2>1. PICK k \in 0 .. size : k = n - p
      BY <1>10
    <2>2. PICK w : w = SubSeq(c, 1, k)
      BY Zenon
    <2>3. SubSeq(Output(P, c), 1, n) = P \o w
      <3>1. SubSeq(Output(P, c), 1, n) = SubSeq(P \o c, 1, n)
        <4>1. n <= Len(P \o c) /\ n <= Len(P \o c) + Len(<<0>>)
          BY SMTT(30), <1>4, <1>10
        <4>2. QED
          BY Zenon, <1>4, <4>1, BeginningOfTwo DEF Output
      <3>2. SubSeq(P \o c, 1, n) = P \o SubSeq(c, 1, n - Len(P))
        <4>1. Len(P) <= n /\ n <= Len(P) + Len(c)
          BY <1>2, <1>3, <1>10
        <4>2. QED
          BY Zenon, <1>2, <1>3, <4>1, BeginningOfTwo
      <3>3. n - Len(P) = k
        BY <1>3, <2>1
      <3>4. QED
        BY Zenon, <2>2, <3>1, <3>2, <3>3
    <2>4. y = State(f, w, FALSE)
      <3>1. Leads(y0, w, State(f, w, FALSE)) /\ w \in Seq(Nat)
        BY Zenon, <1>8, <2>2
      <3>2. Leads(x, P \o w, State(f, w, FALSE))
        BY Zenon, <1>3, <1>5, <3>1, LeadsOn
      <3>3. QED
        BY Zenon, <2>3, <3>2 DEF Leads, SendLeads
    <2>5. y.frames = y0.frames /\ y.part = w
      BY <1>6, <2>4 DEF State
    <2>6. BytesOf(w, m) /\ (w # <<>> => PartOf(w, c))
      BY Zenon, <1>7, <2>2 DEF FirstBytes
    <2>7. n # Len(Output(P, c))
      BY <1>4, <1>10
    <2>8. send.kind = "packet" => ~send.ok /\ (w # <<>> => PartOf(w, send.content))
      BY Zenon, <2>6, <2>7
    <2>9. Told(y, Append(ss, send))
      BY Zenon, <1>1, <1>5, <2>5, <2>6, <2>8, Unfinished
    <2>10. QED
      BY Zenon, <2>7, <2>9
  <1>11. CASE n = p + size + 1
    <2>1. PICK z : z = State(Append(f, c), <<>>, FALSE)
      BY Zenon
    <2>2. SubSeq(c, 1, size) = c /\ size \in 0 .. size
      <3>1. size \in 0 .. size
        OBVIOUS
      <3>2. QED
        BY Zenon, <1>2, <3>1, Beginnings
    <2>3. Leads(y0, c, State(f, c, FALSE))
      BY Zenon, <1>8, <2>2
    <2>4. Leads(State(f, c, FALSE), <<0>>, z)
      BY Zenon, <1>2, <2>1, LeadsZero
    <2>5. Leads(x, Output(P, c), z)
      <3>1. Leads(x, P \o c, State(f, c, FALSE))
        BY Zenon, <1>2, <1>3, <1>5, <2>3, LeadsOn
      <3>2. QED
        BY Zenon, <1>4, <2>4, <3>1, LeadsOn DEF Output
    <2>6. y = z
      <3>1. n = Len(Output(P, c))
        BY <1>4, <1>11
      <3>2. SubSeq(Output(P, c), 1, n) = Output(P, c)
        BY Zenon, <1>4, <3>1, Beginnings
      <3>3. QED
        BY Zenon, <2>5, <3>2 DEF Leads, SendLeads
    <2>7. y.frames = Append(f, c) /\ y.part = <<>> /\ y.skip = FALSE
      BY <2>1, <2>6 DEF State
    <2>8. BytesOf(c, m) /\ (size # 0 => c # <<>>) /\ (size = 0 => c = <<>>)
      <3>1. BytesOf(c, m)
        BY Zenon, <1>7, <2>2 DEF FirstBytes
      <3>2. (size # 0 => c # <<>>) /\ (size = 0 => c = <<>>)
        BY <1>2
      <3>3. QED
        BY Zenon, <3>1, <3>2
    <2>9. Told(y, Append(ss, send))
      BY Zenon, <1>1, <1>2, <1>5, <1>6, <2>7, <2>8, Finished
    <2>10. size = 0 => SignalLast(y)
      <3>1. /\ Append(f, c) # <<>> /\ Len(Append(f, c)) = Len(f) + 1
            /\ Append(f, c)[Len(f) + 1] = c
        BY <1>2, AppendFacts
      <3>2. QED
        BY Zenon, <2>7, <2>8, <3>1 DEF SignalLast
    <2>11. QED
      BY Zenon, <2>7, <2>9, <2>10 DEF Clean
  <1>12. n < p \/ (p <= n /\ n <= p + size) \/ n = p + size + 1
    <2>1. n <= Len(Output(P, c))
      BY Zenon DEF SendLeads
    <2>2. QED
      BY <1>4, <2>1
  <1>13. QED
    BY Zenon, <1>9, <1>10, <1>11, <1>12

(* The state after the bytes of the stream.                                *)
LEMMA WholeShape ==
  ASSUME FramingTypes
  PROVE  Whole \in Shapes
  <1>1. Start(FALSE) \in Shapes
    BY DEF Start, Shapes, States
  <1>2. carried \in Seq(Nat)
    BY Zenon DEF FramingTypes
  <1>3. QED
    BY Zenon, <1>1, <1>2, ShapeKept, ScanKeeps DEF Whole

(* What may come before a frame, and all that a send puts out.             *)
Prefixes == {<<>>, <<0>>}
Framed(failed, content) == RecoveryPrefix(failed) \o content \o <<0>>

(* What a send that may fail part way makes of the stream.                 *)
LEMMA SendKeeps ==
  ASSUME ReaderInv, SendInv, MaySend,
         NEW failed \in BOOLEAN, NEW content \in Seq(Nat), NEW kind \in Kinds,
         SendFrame(failed, content, kind),
         NEW P \in Prefixes, P = <<>> => Clean(Whole), NEW size \in Nat, size <= MaxFrame,
         NEW c, c = Repeat(Len(sends) + 1, size), Framed(failed, content) = Output(P, c),
         IF kind = "packet" THEN size # 0 /\ content = c ELSE size = 0
  PROVE  SendInv'
  <1>1. PICK ok \in BOOLEAN, n \in Nat :
          /\ n <= Len(Output(P, c))
          /\ ok => n = Len(Output(P, c))
          /\ Puts(SubSeq(Output(P, c), 1, n), [kind |-> kind, content |-> content, ok |-> ok])
    <2>1. PutsFirst(RecoveryPrefix(failed) \o content \o <<0>>, content, kind)
      BY Zenon, SendPuts
    <2>2. QED
      BY Zenon, <2>1 DEF PutsFirst, Framed
  <1>2. PICK send : /\ send = [kind |-> kind, content |-> content, ok |-> ok]
                    /\ send.kind = kind /\ send.content = content /\ send.ok = ok
    <2>1. PICK send : send = [kind |-> kind, content |-> content, ok |-> ok]
      BY Zenon
    <2>2. send.kind = kind /\ send.content = content /\ send.ok = ok
      BY <2>1
    <2>3. QED
      BY Zenon, <2>1, <2>2
  <1>3. PICK d : d = SubSeq(Output(P, c), 1, n) /\ Puts(d, send)
    BY Zenon, <1>1, <1>2
  <1>4. PICK x, y : x = Whole /\ y = Whole' /\ x \in Shapes /\ Told(x, sends)
    BY Zenon, WholeShape DEF ReaderInv, SendInv
  <1>5. y = Scan(x, d)
    <2>1. d \in Seq(Nat) /\ carried \in Seq(Nat) /\ carried' = carried \o d
      BY Zenon, <1>3 DEF Puts, ReaderInv, FramingTypes
    <2>2. Scan(Start(FALSE), carried \o d) = Scan(Scan(Start(FALSE), carried), d)
      BY Zenon, <2>1, ScanConcat
    <2>3. QED
      BY Zenon, <1>4, <2>1, <2>2 DEF Whole
  <1>6. PICK S : sends \in Seq(S) /\ send \in S
    BY Zenon, <1>3 DEF Puts, ReaderInv, FramingTypes, Kinds
  <1>7. Len(sends) < MaxSends
    BY Zenon DEF MaySend
  <1>8. /\ Told(y, Append(sends, send))
        /\ n = Len(Output(P, c)) => Clean(y) /\ (size = 0 => SignalLast(y))
    <2>1. send.kind = "packet" => size # 0 /\ send.content = c
      BY Zenon, <1>2
    <2>2. send.ok => n = Len(Output(P, c))
      BY Zenon, <1>1, <1>2
    <2>3. P = <<>> => Clean(x)
      BY Zenon, <1>4
    <2>4. SendLeads(x, P, c, n, y)
      BY Zenon, <1>1, <1>3, <1>5 DEF SendLeads
    <2>5. QED
      <3>1. SendOf(S, sends, send, x, P, size, c, n, y)
        BY Zenon, <1>1, <1>4, <1>6, <1>7, <2>1, <2>2, <2>3, <2>4 DEF SendOf, Prefixes
      <3>2. QED
        BY Zenon, <3>1, SendTells
  <1>9. /\ sends' # <<>> /\ Len(sends') = Len(sends) + 1 /\ sends'[Len(sends) + 1] = send
        /\ sends' = Append(sends, send) /\ resync' = ~ok
    <2>1. sends' = Append(sends, send) /\ resync' = ~ok
      BY Zenon, <1>2, <1>3 DEF Puts
    <2>2. /\ Append(sends, send) # <<>> /\ Len(Append(sends, send)) = Len(sends) + 1
          /\ Append(sends, send)[Len(sends) + 1] = send
      BY <1>6, AppendFacts
    <2>3. QED
      BY Zenon, <2>1, <2>2
  <1>10. Len(sends') <= MaxSends
    BY <1>6, <1>7, <1>9, FramingAssumption
  <1>11. sends' # <<>> /\ ~resync' => Clean(Whole')
    BY Zenon, <1>1, <1>4, <1>8, <1>9
  <1>12. SignalArrives'
    <2>1. ASSUME ok, kind # "packet" PROVE SignalLast(Whole')
      BY Zenon, <1>1, <1>4, <1>8, <2>1
    <2>2. QED
      BY Zenon, <1>2, <1>9, <2>1 DEF SignalArrives, SignalLast, Arriving, Frames, Whole
  <1>13. QED
    BY Zenon, <1>4, <1>8, <1>9, <1>10, <1>11, <1>12 DEF SendInv

(* At first the stream holds nothing of a send.                            *)
LEMMA SendInit ==
  ASSUME FramingInit
  PROVE  SendInv
  <1>1. PICK k \in 0 .. MaxLeftover : carried = Repeat(Leftover, k)
    BY Zenon DEF FramingInit
  <1>2. Leftover \in Nat /\ k \in Nat /\ Leftover \notin 1 .. MaxSends /\ 0 \notin 1 .. MaxSends
    BY FramingAssumption DEF Leftover
  <1> DEFINE Apart(x) == \A n \in 1 .. MaxSends : None(x, n) /\ ~IsOf(x.part, n)
             G == {x \in States : Apart(x)}
             B == {Leftover}
  <1>3. carried \in Seq(B)
    <2>1. /\ carried \in Seq(Nat) /\ Len(carried) = k
          /\ \A i \in 1 .. k : carried[i] = Leftover
      BY Zenon, <1>1, <1>2, RepeatFacts
    <2>2. QED
      BY <2>1
  <1>4. Start(FALSE) \in G
    <2>1. Start(FALSE) \in States /\ Start(FALSE).part = <<>> /\ DOMAIN Start(FALSE).frames = {}
      BY DEF Start, States
    <2>2. QED
      BY Zenon, <2>1, NothingIsOf DEF None, Of
  <1>5. ASSUME NEW x \in G PROVE Cut(x, Leftover) \in G
    <2>1. PICK f \in Seq(Seq(Nat)), p \in Seq(Nat), s \in BOOLEAN :
            x = State(f, p, s) /\ x.frames = f /\ x.part = p
      BY DEF State, States
    <2>2. PICK y : y = Cut(x, Leftover) /\ y \in States
      BY Zenon, <1>2, CutTyped
    <2>3. Leftover # 0
      BY FramingAssumption DEF Leftover
    <2>4. Apart(x)
      BY Zenon
    <2> HIDE DEF G
    <2>5. Apart(y)
      <3>1. CASE s = TRUE
        BY Zenon, <1>2, <2>1, <2>2, <2>3, <2>4, <3>1, CutFacts
      <3>2. CASE s = FALSE /\ Len(p) = MaxFrame
        <4>1. y = State(Append(f, TooLarge), <<>>, TRUE)
          BY Zenon, <1>2, <2>1, <2>2, <2>3, <3>2, CutFacts
        <4>2. y.frames = Append(f, TooLarge) /\ y.part = <<>>
          BY <4>1 DEF State
        <4>3. TooLarge \in Seq(Nat) /\ TooLarge[1] = 0
          BY DEF TooLarge
        <4>4. \A n : Gains(x, y, TooLarge, n)
          BY Zenon, <2>1, <4>2, <4>3, OfAppend
        <4>5. \A n \in 1 .. MaxSends : ~IsOf(TooLarge, n) /\ ~IsOf(y.part, n)
          BY Zenon, <1>2, <4>2, <4>3, NothingIsOf DEF IsOf
        <4>6. QED
          BY Zenon, <2>4, <4>4, <4>5 DEF Gains, None
      <3>3. CASE s = FALSE /\ Len(p) # MaxFrame
        <4>1. y = State(f, Append(p, Leftover), FALSE)
          BY Zenon, <1>2, <2>1, <2>2, <2>3, <3>3, CutFacts
        <4>2. y.frames = f /\ y.part = Append(p, Leftover)
          BY <4>1 DEF State
        <4>3. /\ p = <<>> => Append(p, Leftover)[1] = Leftover
              /\ p # <<>> => Append(p, Leftover)[1] = p[1]
          BY <1>2
        <4>4. \A n \in 1 .. MaxSends : ~IsOf(y.part, n)
          BY Zenon, <1>2, <2>1, <2>4, <4>2, <4>3 DEF IsOf
        <4>5. \A n : Of(y, n) = Of(x, n)
          BY Zenon, <2>1, <4>2 DEF Of
        <4>6. QED
          BY Zenon, <2>4, <4>4, <4>5 DEF None
      <3>4. QED
        BY Zenon, <2>1, <3>1, <3>2, <3>3
    <2>6. QED
      BY Zenon, <2>2, <2>5 DEF G
  <1>6. Whole \in G
    <2> HIDE DEF G
    <2>1. \A x \in G, b \in B : Cut(x, b) \in G
      BY Zenon, <1>5
    <2>2. B \in SUBSET Nat
      BY Zenon, <1>2
    <2> HIDE DEF B
    <2>3. QED
      BY Zenon, <1>3, <1>4, <2>1, <2>2, ScanKeeps DEF Whole
  <1>7. sends = <<>> /\ DOMAIN sends = {} /\ Len(sends) <= MaxSends
    BY FramingAssumption DEF FramingInit
  <1>8. Told(Whole, sends)
    BY Zenon, <1>6, <1>7 DEF Told
  <1>9. QED
    BY Zenon, <1>7, <1>8 DEF SendInv, SignalArrives

(* Every send, and every step, keeps it.                                   *)
LEMMA SendStep ==
  ASSUME ReaderInv, SendInv, [FramingNext]_framingVars
  PROVE  SendInv'
  <1>0. Len(sends) + 1 \in Nat /\ 0 \in Nat /\ 0 <= MaxFrame
    BY FramingAssumption DEF ReaderInv, FramingTypes
  <1>1. \A b \in Nat : Repeat(b, 0) = <<>>
    BY DEF Repeat
  <1>2. resync \in BOOLEAN
    BY Zenon DEF ReaderInv, FramingTypes
  <1>3. sends # <<>> => \E P \in {<<>>, <<0>>} :
                          RecoveryPrefix(resync) = P /\ (P = <<>> => Clean(Whole))
    <2>1. <<0>> # <<>>
      OBVIOUS
    <2>2. QED
      BY Zenon, <1>2, <2>1 DEF RecoveryPrefix, SendInv
  <1>4. CASE SendReset
    <2>1. PICK c : c = Repeat(Len(sends) + 1, 0) /\ c = <<>>
      BY Zenon, <1>0, <1>1
    <2>2. RecoveryPrefix(FALSE) \o ResetContent \o <<0>> = Output(<<0>>, c)
      <3>1. <<>> \o <<0>> = <<0>> /\ <<0>> \o <<>> = <<0>>
        OBVIOUS
      <3>2. QED
        BY Zenon, <2>1, <3>1 DEF RecoveryPrefix, ResetContent, Output
    <2>3. ResetContent \in Seq(Nat) /\ <<0>> # <<>>
      BY DEF ResetContent
    <2>4. "reset" # "packet" /\ "reset" \in Kinds
      BY DEF Kinds
    <2>5. QED
      BY Zenon, <1>0, <1>4, <2>1, <2>2, <2>3, <2>4, SendKeeps DEF SendReset, Prefixes, Framed
  <1>5. CASE SendDropped
    <2>1. PICK c : c = Repeat(Len(sends) + 1, 0) /\ c = <<>>
      BY Zenon, <1>0, <1>1
    <2>2. PICK P \in {<<>>, <<0>>} : RecoveryPrefix(resync) = P /\ (P = <<>> => Clean(Whole))
      BY Zenon, <1>3, <1>5 DEF SendDropped
    <2>3. RecoveryPrefix(resync) \o <<>> \o <<0>> = Output(P, c)
      BY Zenon, <2>1, <2>2 DEF Output
    <2>4. <<>> \in Seq(Nat) /\ "dropped" # "packet" /\ "dropped" \in Kinds
      BY DEF Kinds
    <2>5. QED
      BY Zenon, <1>0, <1>2, <1>5, <2>1, <2>2, <2>3, <2>4, SendKeeps
         DEF SendDropped, Prefixes, Framed
  <1>6. CASE \E size \in 1 .. MaxFrame + 1 : SendPacket(size)
    <2>1. PICK size \in 1 .. MaxFrame + 1 : SendPacket(size)
      BY Zenon, <1>6
    <2>2. size \in Nat /\ size # 0 /\ size <= MaxFrame
      BY <2>1, FramingAssumption DEF SendPacket, Encodable
    <2>3. PICK c \in Seq(Nat) : c = Repeat(Len(sends) + 1, size)
      BY Zenon, <1>0, <2>2, RepeatFacts
    <2>4. PICK P \in {<<>>, <<0>>} : RecoveryPrefix(resync) = P /\ (P = <<>> => Clean(Whole))
      BY Zenon, <1>3, <2>1 DEF SendPacket
    <2>5. RecoveryPrefix(resync) \o c \o <<0>> = Output(P, c)
      BY Zenon, <2>4 DEF Output
    <2>6. SendFrame(resync, c, "packet") /\ MaySend /\ "packet" \in Kinds
      BY Zenon, <2>1, <2>3 DEF SendPacket, Kinds
    <2>7. QED
      BY Zenon, <1>2, <2>2, <2>3, <2>4, <2>5, <2>6, SendKeeps DEF Prefixes, Framed
  <1>7. CASE UNCHANGED <<resync, sends, carried>>
    BY Zenon, <1>7 DEF SendInv, Whole, SignalArrives, Arriving, Frames
  <1>8. QED
    BY Zenon, <1>4, <1>5, <1>6, <1>7
       DEF FramingNext, FindDelimiter, ReportOverflow, ReadMore, framingVars

(* What the stream tells of the sends, always.                             *)
LEMMA SendAlways == FramingSpec => []SendInv
  <1>1. FramingInit => SendInv
    BY Zenon, SendInit
  <1>2. ReaderInv /\ SendInv /\ [FramingNext]_framingVars => SendInv'
    BY Zenon, SendStep
  <1>3. QED
    BY <1>1, <1>2, ReaderAlways, PTL DEF FramingSpec

(* A packet whose send succeeded arrives whole and once, of a failed one   *)
(* at most a prefix arrives: a failed write never damages a later frame,   *)
(* for any frame limit and whatever a previous client left on the stream.  *)
THEOREM SendsArrive == FramingSpec => []SuccessArrives
  <1>1. ASSUME SendInv PROVE SuccessArrives
    <2>1. Arriving = Whole.frames
      BY Zenon DEF Arriving, Frames, Whole
    <2>2. \A n : Carrying(n) = Of(Whole, n)
      BY Zenon, <2>1 DEF Carrying, Of, IsOf
    <2>3. ASSUME NEW n \in DOMAIN sends, sends[n].kind = "packet"
          PROVE  \/ /\ ~sends[n].ok
                    /\ Carrying(n) = {}
                 \/ \E i \in DOMAIN Arriving :
                      /\ Carrying(n) = {i}
                      /\ \/ Arriving[i] = sends[n].content
                         \/ /\ ~sends[n].ok
                            /\ \E k \in DOMAIN sends[n].content :
                                 Arriving[i] = SubSeq(sends[n].content, 1, k)
      <3>1. Tells(Whole, n, sends[n])
        BY Zenon, <1>1, <2>3 DEF SendInv, Told
      <3>2. QED
        BY Zenon, <2>1, <2>2, <3>1 DEF Tells, One, None
    <2>4. QED
      BY Zenon, <2>3 DEF SuccessArrives
  <1>2. QED
    BY <1>1, SendAlways, PTL

(* A reset or dropped-session signal whose send succeeded is read last, as *)
(* an empty frame, whatever preceded it on the wire.                       *)
THEOREM SignalsArrive == FramingSpec => []SignalArrives
  <1>1. SendInv => SignalArrives
    BY Zenon DEF SendInv
  <1>2. QED
    BY <1>1, SendAlways, PTL
----------------------------------------------------------------------------
(* The memory pipe.                                                        *)

(* What was accepted is what was delivered, then what is buffered, then    *)
(* what the closing reader discarded.                                      *)
Accounted ==
  /\ ~lost => accepted = delivered \o bytes
  /\ lost => /\ ~readerOpen
             /\ Len(delivered) < Len(accepted)
             /\ SubSeq(accepted, 1, Len(delivered)) = delivered

(* Nothing can follow a closed reader or the end of the stream.            *)
ClosedIsEmpty ==
  /\ ~readerOpen => bytes = <<>>
  /\ eof => bytes = <<>> /\ ~writerOpen /\ ~lost

PipeInv == PipeTypeOK /\ Accounted /\ ClosedIsEmpty /\ NoSleeperForgotten

USE PipeAssumption DEF Places, Deadlines, Closers, ReaderClosers, WriterClosers

(* Joining two sequences, and joining nothing.                             *)
LEMMA Joined ==
  ASSUME NEW S, NEW s \in Seq(S), NEW t \in Seq(S)
  PROVE  /\ Len(s) \in Nat /\ Len(t) \in Nat
         /\ s \o t \in Seq(S)
         /\ Len(s \o t) = Len(s) + Len(t)
         /\ s \o <<>> = s
  <1>1. s \o <<>> = s
    OBVIOUS
  <1>2. QED
    BY <1>1

(* Splitting a sequence after its first count elements loses none.         *)
LEMMA SplitSeq ==
  ASSUME NEW S, NEW s \in Seq(S), NEW count \in 0..Len(s)
  PROVE  /\ SubSeq(s, 1, count) \in Seq(S)
         /\ SubSeq(s, count + 1, Len(s)) \in Seq(S)
         /\ Len(SubSeq(s, 1, count)) = count
         /\ Len(SubSeq(s, count + 1, Len(s))) = Len(s) - count
         /\ SubSeq(s, 1, count) \o SubSeq(s, count + 1, Len(s)) = s
  <1> DEFINE a == SubSeq(s, 1, count)
             b == SubSeq(s, count + 1, Len(s))
  <1>1. Len(s) \in Nat /\ count \in Nat /\ count <= Len(s)
    OBVIOUS
  <1>2. a \in Seq(S) /\ Len(a) = count /\ \A i \in 1 .. count : a[i] = s[i]
    BY <1>1
  <1>3. /\ b \in Seq(S) /\ Len(b) = Len(s) - count
        /\ \A i \in 1 .. Len(s) - count : b[i] = s[count + i]
    BY <1>1
  <1> HIDE DEF a, b
  <1>4. PICK d : d = a \o b /\ IsJoin(S, d, a, b)
    BY Zenon, <1>2, <1>3, ConcatIsJoin
  <1>5. /\ d \in Seq(S) /\ Len(d) = Len(s)
        /\ \A i \in 1 .. count : d[i] = a[i]
        /\ \A i \in 1 .. Len(s) - count : d[count + i] = b[i]
    BY <1>1, <1>2, <1>3, <1>4 DEF IsJoin
  <1>6. ASSUME NEW i \in 1 .. Len(s) PROVE d[i] = s[i]
    <2>1. CASE i \in 1 .. count
      BY Zenon, <1>2, <1>5, <2>1
    <2>2. CASE i \notin 1 .. count
      <3>1. PICK k \in 1 .. Len(s) - count : i = count + k
        <4>1. i - count \in 1 .. Len(s) - count /\ i = count + (i - count)
          BY <1>1, <2>2
        <4>2. QED
          BY <4>1
      <3>2. QED
        BY Zenon, <1>3, <1>5, <3>1
    <2>3. QED
      BY Zenon, <2>1, <2>2
  <1>7. d = s
    BY Zenon, <1>5, <1>6, SeqEqual
  <1>8. QED
    BY Zenon, <1>2, <1>3, <1>4, <1>7 DEF a, b

(* Concatenation of byte sequences is associative.                         *)
LEMMA BytesAssociate ==
  \A s, t, u \in Seq(Byte) : (s \o t) \o u = s \o (t \o u)
  BY SMTT(30)

(* An empty buffer is within any capacity.                                 *)
LEMMA EmptyFits == <<>> \in Seq(Byte) /\ Len(<<>>) <= Capacity
  <1>1. <<>> \in Seq(Byte) /\ Len(<<>>) = 0
    OBVIOUS
  <1>2. 0 <= Capacity
    OBVIOUS
  <1>3. QED
    BY <1>1, <1>2, Zenon

(* A sequence is empty if and only if its length is zero.                  *)
LEMMA NonEmptyLen ==
  ASSUME NEW s \in Seq(Byte), s # <<>>
  PROVE  Len(s) \in Nat /\ Len(s) > 0
  OBVIOUS

(* Arithmetic of the bytes a closing reader discards.                      *)
LEMMA LongerByPositive == \A a, d, b \in Nat : a = d + b /\ b > 0 => d < a
  OBVIOUS

(* Steps that leave the pipe and its history alone keep what they say.     *)
LEMMA DataFrame ==
  ASSUME Accounted, ClosedIsEmpty, UNCHANGED <<pipeVars, history>>
  PROVE  Accounted' /\ ClosedIsEmpty'
  BY DEF Accounted, ClosedIsEmpty, pipeVars, history

ThreadTypeOK ==
  /\ reading \in Places /\ writing \in Places
  /\ room \in Nat /\ buf \in Seq(Byte)
  /\ readDeadline \in Deadlines /\ writeDeadline \in Deadlines
  /\ closing \in [Closers -> {"idle", "notify", "done"}]

BufferTypeOK ==
  /\ bytes \in Seq(Byte) /\ Len(bytes) <= Capacity
  /\ readerOpen \in BOOLEAN /\ writerOpen \in BOOLEAN /\ lost \in BOOLEAN
  /\ accepted \in Seq(Byte) /\ delivered \in Seq(Byte)
  /\ eof \in BOOLEAN

(* The types, of the threads and of the buffer.                            *)
LEMMA TypeParts == PipeTypeOK <=> ThreadTypeOK /\ BufferTypeOK
  BY Zenon DEF PipeTypeOK, ThreadTypeOK, BufferTypeOK

(* The same of the next state.                                             *)
LEMMA TypePartsNext == ThreadTypeOK' /\ BufferTypeOK' => PipeTypeOK'
  BY TypeParts, PTL

(* Steps that leave the pipe and its history alone keep the buffer typed.  *)
LEMMA TypeFrame ==
  ASSUME PipeTypeOK, UNCHANGED <<pipeVars, history>>
  PROVE  BufferTypeOK'
  BY TypeParts, Zenon DEF BufferTypeOK, pipeVars, history

(* The first part of a concatenation is a prefix of it.                    *)
LEMMA PrefixOfConcat ==
  ASSUME NEW S, NEW s \in Seq(S), NEW t \in Seq(S)
  PROVE  SubSeq(s \o t, 1, Len(s)) = s
  <1>1. Len(s) \in Nat /\ Len(t) \in Nat
    OBVIOUS
  <1>2. \A i \in 1 .. Len(s) : (s \o t)[i] = s[i]
    OBVIOUS
  <1>3. QED
    BY <1>1, <1>2

(* The invariant holds of a fresh pipe.                                    *)
LEMMA PipeStarts == PipeInit => PipeInv
  <1> SUFFICES ASSUME PipeInit PROVE PipeInv
    OBVIOUS
  <1>1. readerOpen \in BOOLEAN /\ writerOpen \in BOOLEAN /\ lost \in BOOLEAN /\ eof \in BOOLEAN
    BY Zenon DEF PipeInit
  <1>2. <<>> \in Seq(Byte) /\ Len(<<>>) = 0
    OBVIOUS
  <1>3. PipeTypeOK
    <2>1. Len(bytes) <= Capacity
      BY EmptyFits, Zenon DEF PipeInit
    <2>2. bytes \in Seq(Byte) /\ buf \in Seq(Byte) /\ accepted \in Seq(Byte) /\ delivered \in Seq(Byte)
      BY <1>2, Zenon DEF PipeInit
    <2>3. room \in Nat /\ closing \in [Closers -> {"idle", "notify", "done"}]
      BY Zenon DEF PipeInit
    <2>4. reading \in Places /\ writing \in Places /\ readDeadline \in Deadlines /\ writeDeadline \in Deadlines
      BY Zenon DEF PipeInit
    <2>5. QED
      BY Zenon, <1>1, <2>1, <2>2, <2>3, <2>4 DEF PipeTypeOK
  <1>4. Accounted
    BY Zenon, <1>2, Joined DEF PipeInit, Accounted
  <1>5. ClosedIsEmpty /\ NoSleeperForgotten
    BY Zenon DEF PipeInit, ClosedIsEmpty, NoSleeperForgotten
  <1>6. QED
    BY Zenon, <1>3, <1>4, <1>5 DEF PipeInv

(* Reader::read moves a prefix of the buffer to its caller.                *)
LEMMA DeliverStep ==
  ASSUME PipeInv, ReadTurn, Deliver, readerOpen, bytes # <<>>, UNCHANGED eof
  PROVE  PipeInv'
  <1> DEFINE count == Fewer(room, Len(bytes))
  <1>1. /\ bytes \in Seq(Byte) /\ delivered \in Seq(Byte) /\ accepted \in Seq(Byte)
        /\ Len(bytes) \in Nat /\ room \in Nat
    BY Zenon, Joined DEF PipeInv, PipeTypeOK
  <1>2. count \in 0..Len(bytes)
    BY <1>1 DEF Fewer
  <1> HIDE DEF count
  <1>3. /\ delivered' = delivered \o SubSeq(bytes, 1, count)
        /\ bytes' = SubSeq(bytes, count + 1, Len(bytes))
        /\ reading' = "notify"
    BY Zenon DEF Deliver, count
  <1>4. UNCHANGED <<readerOpen, writerOpen, lost, room, writing, buf, readDeadline,
                    writeDeadline, closing, accepted, eof>>
    BY Zenon DEF ReadTurn
  <1>5. /\ SubSeq(bytes, 1, count) \in Seq(Byte)
        /\ SubSeq(bytes, count + 1, Len(bytes)) \in Seq(Byte)
        /\ Len(SubSeq(bytes, count + 1, Len(bytes))) = Len(bytes) - count
        /\ SubSeq(bytes, 1, count) \o SubSeq(bytes, count + 1, Len(bytes)) = bytes
    BY Zenon, <1>1, <1>2, SplitSeq
  <1>6. PipeTypeOK'
    <2>1. delivered' \in Seq(Byte) /\ bytes' \in Seq(Byte) /\ Len(bytes') <= Capacity
      <3>1. delivered' \in Seq(Byte) /\ bytes' \in Seq(Byte)
        BY <1>1, <1>3, <1>5, Joined, Zenon
      <3>2. Len(bytes') <= Capacity
        <4>1. Len(bytes') = Len(bytes) - count /\ Len(bytes) <= Capacity
          BY ZenonT(30), <1>3, <1>5 DEF PipeInv, PipeTypeOK
        <4>2. QED
          BY <1>1, <1>2, <4>1
      <3>3. QED
        BY <3>1, <3>2
    <2>2. QED
      BY ZenonT(30), <1>3, <1>4, <2>1 DEF PipeInv, PipeTypeOK
  <1>7. ~lost
    BY DEF PipeInv, Accounted
  <1>8. accepted = delivered' \o bytes'
    <2>1. accepted = delivered \o bytes
      BY <1>7 DEF PipeInv, Accounted
    <2>2. (delivered \o SubSeq(bytes, 1, count)) \o SubSeq(bytes, count + 1, Len(bytes))
            = delivered \o (SubSeq(bytes, 1, count) \o SubSeq(bytes, count + 1, Len(bytes)))
      BY <1>1, <1>5, BytesAssociate, ZenonT(60)
    <2>3. QED
      BY Zenon, <1>3, <1>5, <2>1, <2>2
  <1>9. Accounted' /\ ClosedIsEmpty'
    BY <1>4, <1>7, <1>8 DEF PipeInv, Accounted, ClosedIsEmpty
  <1>10. NoSleeperForgotten'
    BY <1>3 DEF NoSleeperForgotten, SomeoneNotifies
  <1>11. QED
    BY Zenon, <1>6, <1>9, <1>10 DEF PipeInv

(* Writer::write appends a prefix of its caller's bytes.                   *)
LEMMA AcceptStep ==
  ASSUME PipeInv, WriteTurn, Accept, Accepts, Space > 0
  PROVE  PipeInv'
  <1> DEFINE count == Fewer(Len(buf), Space)
             taken == SubSeq(buf, 1, count)
  <1>1. /\ bytes \in Seq(Byte) /\ delivered \in Seq(Byte) /\ accepted \in Seq(Byte)
        /\ buf \in Seq(Byte)
        /\ Len(bytes) \in Nat /\ Len(buf) \in Nat
        /\ Len(bytes) <= Capacity
    BY ZenonT(30), Joined DEF PipeInv, PipeTypeOK
  <1>2. count \in 0..Len(buf) /\ count <= Capacity - Len(bytes)
    BY <1>1 DEF Fewer, Space
  <1> HIDE DEF count
  <1>3. taken \in Seq(Byte) /\ Len(taken) = count
    BY <1>1, <1>2, SplitSeq
  <1>4. /\ bytes' = bytes \o taken
        /\ accepted' = accepted \o taken
        /\ writing' = "notify"
    BY Zenon DEF Accept, count
  <1> HIDE DEF taken
  <1>5. UNCHANGED <<readerOpen, writerOpen, lost, reading, room, buf, readDeadline,
                    writeDeadline, closing, delivered, eof>>
    BY Zenon DEF WriteTurn
  <1>6. PipeTypeOK'
    <2>1. /\ accepted' \in Seq(Byte) /\ bytes' \in Seq(Byte)
          /\ Len(bytes') = Len(bytes) + Len(taken)
      BY Zenon, <1>1, <1>3, <1>4, Joined
    <2>2. Len(bytes') <= Capacity
      BY <1>1, <1>2, <1>3, <2>1
    <2>3. QED
      BY ZenonT(30), <1>4, <1>5, <2>1, <2>2 DEF PipeInv, PipeTypeOK
  <1>7. readerOpen /\ writerOpen /\ ~lost /\ ~eof
    BY DEF PipeInv, Accounted, ClosedIsEmpty, Accepts
  <1>8. accepted' = delivered' \o bytes'
    <2>1. accepted = delivered \o bytes
      BY <1>7 DEF PipeInv, Accounted
    <2>2. (delivered \o bytes) \o taken = delivered \o (bytes \o taken)
      BY ZenonT(30), <1>1, <1>3, BytesAssociate, ZenonT(60)
    <2>3. QED
      BY <1>4, <1>5, <2>1, <2>2
  <1>9. Accounted' /\ ClosedIsEmpty'
    BY <1>5, <1>7, <1>8 DEF Accounted, ClosedIsEmpty
  <1>10. NoSleeperForgotten'
    BY <1>4 DEF NoSleeperForgotten, SomeoneNotifies
  <1>11. QED
    BY <1>6, <1>9, <1>10 DEF PipeInv

(* close_reader marks as lost exactly what it discards.                    *)
LEMMA CloseReaderStep ==
  ASSUME PipeInv, NEW c \in Closers, CloseReader(c)
  PROVE  PipeInv'
  <1>1. /\ bytes \in Seq(Byte) /\ delivered \in Seq(Byte) /\ accepted \in Seq(Byte)
        /\ lost \in BOOLEAN
    BY Zenon DEF PipeInv, PipeTypeOK
  <1>2. /\ readerOpen' = FALSE /\ bytes' = <<>>
        /\ closing' = [closing EXCEPT ![c] = "notify"]
        /\ UNCHANGED <<writerOpen, room, buf, readDeadline, writeDeadline,
                       accepted, delivered, eof>>
    BY ZenonT(30) DEF CloseReader, Discard, history
  <1>3. /\ reading' \in {reading, "gone"} /\ writing' \in {writing, "gone"}
    BY ZenonT(30) DEF CloseReader, Drops
  <1>4. lost' \in BOOLEAN /\ (lost' <=> lost \/ bytes # <<>>)
    BY Zenon DEF CloseReader, Discard
  <1>5. PipeTypeOK'
    <2>1. bytes' \in Seq(Byte) /\ Len(bytes') <= Capacity
      <3>1. <<>> \in Seq(Byte) /\ Len(<<>>) <= Capacity
        BY ZenonT(30), EmptyFits
      <3>2. QED
        BY <1>2, <3>1, Zenon
    <2>2. readerOpen' \in BOOLEAN
      BY ZenonT(30), <1>2
    <2>3. QED
      BY ZenonT(30), <1>2, <1>3, <1>4, <2>1, <2>2 DEF PipeInv, PipeTypeOK
  <1>6. Accounted'
    <2>1. CASE lost
      BY Zenon, <1>2, <1>4, <2>1 DEF PipeInv, Accounted
    <2>2. CASE ~lost /\ bytes = <<>>
      BY Zenon, <1>2, <1>4, <2>2 DEF PipeInv, Accounted
    <2>3. CASE ~lost /\ bytes # <<>>
      <3>1. accepted = delivered \o bytes
        BY Zenon, <2>3 DEF PipeInv, Accounted
      <3>2. SubSeq(accepted, 1, Len(delivered)) = delivered
        BY Zenon, <1>1, <3>1, PrefixOfConcat
      <3>3. Len(accepted) = Len(delivered) + Len(bytes)
        BY Zenon, <1>1, <3>1, Joined
      <3>4. Len(bytes) > 0 /\ Len(delivered) \in Nat
        BY ZenonT(30), <1>1, <2>3, NonEmptyLen, Joined
      <3>5. Len(delivered) < Len(accepted)
        <4>1. Len(bytes) \in Nat /\ Len(accepted) \in Nat
          BY Zenon, <1>1, Joined
        <4>2. \A a, d, b \in Nat : a = d + b /\ b > 0 => d < a
          BY Zenon, LongerByPositive
        <4>3. QED
          BY <3>3, <3>4, <4>1, <4>2, Zenon
      <3>6. QED
        BY Zenon, <1>2, <1>4, <2>3, <3>2, <3>5 DEF Accounted
    <2>4. QED
      BY Zenon, <1>1, <2>1, <2>2, <2>3
  <1>7. ClosedIsEmpty'
    BY Zenon, <1>2, <1>4 DEF PipeInv, ClosedIsEmpty
  <1>8. NoSleeperForgotten'
    <2>1. closing'[c] = "notify"
      BY Zenon, <1>2 DEF PipeInv, PipeTypeOK
    <2>2. QED
      BY Zenon, <2>1 DEF NoSleeperForgotten, SomeoneNotifies
  <1>9. QED
    BY ZenonT(30), <1>5, <1>6, <1>7, <1>8 DEF PipeInv

(* Every step keeps the invariant.                                         *)
LEMMA PipeStep ==
  ASSUME PipeInv, [PipeNext]_allPipeVars
  PROVE  PipeInv'
  <1> USE DEF pipeVars, history
  <1>1. ASSUME SetReadDeadline \/ ReadDeadlinePasses PROVE PipeInv'
    <2>1. ThreadTypeOK'
      BY Zenon, <1>1, TypeParts DEF PipeInv, SetReadDeadline, ReadDeadlinePasses, ThreadTypeOK
    <2>2. PipeTypeOK' /\ Accounted' /\ ClosedIsEmpty'
      BY Zenon, <1>1, <2>1, TypePartsNext, TypeFrame, DataFrame
         DEF PipeInv, SetReadDeadline, ReadDeadlinePasses
    <2>3. NoSleeperForgotten'
      BY Zenon, <1>1
         DEF PipeInv, SetReadDeadline, ReadDeadlinePasses, PipeTypeOK, NoSleeperForgotten,
         SomeoneNotifies, Space
    <2>4. QED
      BY Zenon, <2>2, <2>3 DEF PipeInv
  <1>2. ASSUME SetWriteDeadline \/ WriteDeadlinePasses PROVE PipeInv'
    <2>1. ThreadTypeOK'
      BY Zenon, <1>2, TypeParts DEF PipeInv, SetWriteDeadline, WriteDeadlinePasses, ThreadTypeOK
    <2>2. PipeTypeOK' /\ Accounted' /\ ClosedIsEmpty'
      BY Zenon, <1>2, <2>1, TypePartsNext, TypeFrame, DataFrame
         DEF PipeInv, SetWriteDeadline, WriteDeadlinePasses
    <2>3. NoSleeperForgotten'
      BY Zenon, <1>2
         DEF PipeInv, SetWriteDeadline, WriteDeadlinePasses, PipeTypeOK, NoSleeperForgotten,
         SomeoneNotifies, Space
    <2>4. QED
      BY <2>2, <2>3 DEF PipeInv
  <1>3. ASSUME ReadTimer \/ WriteTimer PROVE PipeInv'
    <2>1. ThreadTypeOK'
      BY Zenon, <1>3, TypeParts DEF PipeInv, ReadTimer, WriteTimer, TimesOut, ThreadTypeOK
    <2>2. PipeTypeOK' /\ Accounted' /\ ClosedIsEmpty'
      BY Zenon, <1>3, <2>1, TypePartsNext, TypeFrame, DataFrame
         DEF PipeInv, ReadTimer, WriteTimer, TimesOut
    <2>3. NoSleeperForgotten'
      BY Zenon, <1>3
         DEF PipeInv, ReadTimer, WriteTimer, TimesOut, PipeTypeOK, NoSleeperForgotten,
         SomeoneNotifies, Space
    <2>4. QED
      BY <2>2, <2>3 DEF PipeInv
  <1>4. ASSUME ReadCall PROVE PipeInv'
    <2>1. ThreadTypeOK'
      <3>1. room' \in Nat
        BY <1>4 DEF ReadCall
      <3>2. QED
        BY Zenon, <1>4, <3>1, TypeParts DEF PipeInv, ReadCall, ThreadTypeOK
    <2>2. PipeTypeOK' /\ Accounted' /\ ClosedIsEmpty'
      BY Zenon, <1>4, <2>1, TypePartsNext, TypeFrame, DataFrame DEF PipeInv, ReadCall
    <2>3. NoSleeperForgotten'
      BY Zenon, <1>4 DEF PipeInv, ReadCall, PipeTypeOK, NoSleeperForgotten, SomeoneNotifies, Space
    <2>4. QED
      BY <2>2, <2>3 DEF PipeInv
  <1>5. ASSUME WriteCall PROVE PipeInv'
    <2>1. buf' \in Seq(Byte)
      BY <1>5 DEF WriteCall, Chunks
    <2>2. QED
      BY ZenonT(30), <1>5, <2>1 DEF PipeInv, WriteCall, PipeTypeOK, Accounted, ClosedIsEmpty,
                        NoSleeperForgotten, SomeoneNotifies, Space
  <1>6. ASSUME ReadTurn PROVE PipeInv'
    <2>1. CASE Deliver /\ readerOpen /\ bytes # <<>> /\ UNCHANGED eof
      BY SMTT(30), <1>6, <2>1, DeliverStep
    <2>2. CASE /\ reading' = "idle" /\ UNCHANGED <<bytes, delivered, eof>>
      <3>1. ThreadTypeOK' /\ UNCHANGED <<pipeVars, history>>
        BY ZenonT(30), <1>6, <2>2, TypeParts DEF PipeInv, ReadTurn, ThreadTypeOK
      <3>2. PipeTypeOK' /\ Accounted' /\ ClosedIsEmpty'
        BY SMTT(30), <3>1, TypePartsNext, TypeFrame, DataFrame DEF PipeInv
      <3>3. NoSleeperForgotten'
        BY ZenonT(30), <1>6, <2>2 DEF PipeInv, ReadTurn, NoSleeperForgotten, SomeoneNotifies, Space
      <3>4. QED
        BY <3>2, <3>3 DEF PipeInv
    <2>3. CASE /\ readerOpen /\ EndOfStream /\ reading' = "idle" /\ eof' = TRUE
               /\ UNCHANGED <<bytes, delivered>>
      <3>1. ~lost
        BY <2>3 DEF PipeInv, Accounted
      <3>2. QED
        BY Zenon, <1>6, <2>3, <3>1
           DEF PipeInv, ReadTurn, EndOfStream, PipeTypeOK, Accounted, ClosedIsEmpty,
                          NoSleeperForgotten, SomeoneNotifies, Space
    <2>4. CASE /\ readerOpen /\ bytes = <<>> /\ writerOpen /\ reading' = "asleep"
               /\ UNCHANGED <<bytes, delivered, eof>>
      BY Zenon, <1>6, <2>4 DEF PipeInv, ReadTurn, PipeTypeOK, Accounted, ClosedIsEmpty,
                        NoSleeperForgotten, SomeoneNotifies, Space
    <2>5. QED
      BY Zenon, <1>6, <2>1, <2>2, <2>3, <2>4 DEF ReadTurn
  <1>7. ASSUME WriteTurn PROVE PipeInv'
    <2>1. CASE Accept /\ Accepts /\ Space > 0
      BY Zenon, <1>7, <2>1, AcceptStep
    <2>2. CASE writing' = "idle" /\ UNCHANGED <<bytes, accepted>>
      BY ZenonT(30), <1>7, <2>2 DEF PipeInv, WriteTurn, PipeTypeOK, Accounted, ClosedIsEmpty,
                        NoSleeperForgotten, SomeoneNotifies, Space
    <2>3. CASE Accepts /\ Space = 0 /\ writing' = "asleep" /\ UNCHANGED <<bytes, accepted>>
      BY Zenon, <1>7, <2>3 DEF PipeInv, WriteTurn, Accepts, PipeTypeOK, Accounted, ClosedIsEmpty,
                        NoSleeperForgotten, SomeoneNotifies, Space
    <2>4. QED
      BY <1>7, <2>1, <2>2, <2>3 DEF WriteTurn
  <1>8. ASSUME ReadNotify \/ WriteNotify PROVE PipeInv'
    <2>1. ThreadTypeOK'
      BY Zenon, <1>8, TypeParts DEF PipeInv, ReadNotify, WriteNotify, Woken, ThreadTypeOK
    <2>2. PipeTypeOK' /\ Accounted' /\ ClosedIsEmpty'
      BY Zenon, <1>8, <2>1, TypePartsNext, TypeFrame, DataFrame
         DEF PipeInv, ReadNotify, WriteNotify, Woken
    <2>3. NoSleeperForgotten'
      BY Zenon, <1>8
         DEF PipeInv, ReadNotify, WriteNotify, Woken, PipeTypeOK, NoSleeperForgotten,
         SomeoneNotifies, Space
    <2>4. QED
      BY <2>2, <2>3 DEF PipeInv
  <1>9. ASSUME NEW c \in Closers, CloseReader(c) PROVE PipeInv'
    BY Zenon, <1>9, CloseReaderStep
  <1>10. ASSUME NEW c \in Closers, CloseWriter(c) PROVE PipeInv'
    <2>1. /\ reading' \in {reading, "gone"} /\ writing' \in {writing, "gone"}
          /\ writerOpen' = FALSE
          /\ closing' = [closing EXCEPT ![c] = "notify"]
          /\ UNCHANGED <<bytes, readerOpen, lost, room, buf, readDeadline, writeDeadline,
                         accepted, delivered, eof>>
      BY Zenon, <1>10 DEF CloseWriter, Drops
    <2>2. writerOpen' \in BOOLEAN /\ closing'[c] = "notify"
      BY ZenonT(30), <2>1 DEF PipeInv, PipeTypeOK
    <2>3. PipeTypeOK'
      BY ZenonT(30), <2>1, <2>2, ZenonT(60) DEF PipeInv, PipeTypeOK
    <2>4. Accounted' /\ ClosedIsEmpty'
      BY ZenonT(30), <2>1 DEF PipeInv, Accounted, ClosedIsEmpty
    <2>5. NoSleeperForgotten'
      BY ZenonT(30), <2>2 DEF NoSleeperForgotten, SomeoneNotifies
    <2>6. QED
      BY ZenonT(30), <2>3, <2>4, <2>5 DEF PipeInv
  <1>11. ASSUME NEW c \in Closers, CloseNotify(c) PROVE PipeInv'
    <2>1. reading' # "asleep" /\ writing' # "asleep"
      BY ZenonT(30), <1>11 DEF CloseNotify, CloseNotifies, Woken
    <2>2. NoSleeperForgotten'
      BY ZenonT(30), <2>1 DEF NoSleeperForgotten
    <2>3. PipeTypeOK' /\ Accounted' /\ ClosedIsEmpty'
      BY Zenon, <1>11
         DEF PipeInv, CloseNotify, CloseNotifies, Woken, PipeTypeOK, Accounted, ClosedIsEmpty
    <2>4. QED
      BY ZenonT(30), <2>2, <2>3 DEF PipeInv
  <1>12. ASSUME UNCHANGED allPipeVars PROVE PipeInv'
    <2>1. ThreadTypeOK'
      BY Zenon, <1>12, TypeParts DEF PipeInv, allPipeVars, ThreadTypeOK
    <2>2. PipeTypeOK' /\ Accounted' /\ ClosedIsEmpty'
      BY Zenon, <1>12, <2>1, TypePartsNext, TypeFrame, DataFrame DEF PipeInv, allPipeVars
    <2>3. NoSleeperForgotten'
      BY ZenonT(30), <1>12 DEF PipeInv, allPipeVars, PipeTypeOK, NoSleeperForgotten,
         SomeoneNotifies, Space
    <2>4. QED
      BY <2>2, <2>3 DEF PipeInv
  <1>13. QED
    BY ZenonT(30), <1>1, <1>2, <1>3, <1>4, <1>5, <1>6, <1>7, <1>8, <1>9, <1>10, <1>11, <1>12
       DEF PipeNext

(* The invariant holds throughout.                                         *)
LEMMA PipeInvariant == PipeSpec => []PipeInv
  BY PipeStarts, PipeStep, PTL DEF PipeSpec

(* No sleeping read or write is forgotten, for any capacity and any sizes  *)
(* of the buffers passed to read and write.                                *)
THEOREM SleepersAreWoken == PipeSpec => []NoSleeperForgotten
  <1>1. PipeInv => NoSleeperForgotten
    BY DEF PipeInv
  <1>2. QED
    BY <1>1, PipeInvariant, PTL

(* The pipe delivers what it accepted, in order, and ends a stream only    *)
(* after its last byte, whatever the order of reads, writes and closings.  *)
THEOREM StreamIsDelivered == PipeSpec => []DeliveredInOrder
  <1>1. ASSUME PipeInv PROVE DeliveredInOrder
    <2>1. eof => accepted = delivered
      <3>1. eof => accepted = delivered \o <<>>
        BY Zenon, <1>1 DEF PipeInv, Accounted, ClosedIsEmpty
      <3>2. delivered \o <<>> = delivered
        BY ZenonT(30), <1>1, Joined DEF PipeInv, PipeTypeOK
      <3>3. QED
        BY Zenon, <3>1, <3>2
    <2>2. QED
      BY <1>1, <2>1 DEF PipeInv, Accounted, DeliveredInOrder
  <1>2. QED
    BY <1>1, PipeInvariant, PTL

(* Writer::flush reports a loss exactly when the reader closed on bytes it *)
(* had not read.                                                           *)
THEOREM FlushIsExact == PipeSpec => []FlushTellsTheTruth
  <1>1. ASSUME PipeInv PROVE FlushTellsTheTruth
    <2>1. ASSUME lost PROVE ~readerOpen /\ accepted # delivered
      <3>1. ~readerOpen /\ Len(delivered) < Len(accepted)
        BY <1>1, <2>1 DEF PipeInv, Accounted
      <3>2. Len(delivered) \in Nat
        BY ZenonT(30), <1>1, Joined DEF PipeInv, PipeTypeOK
      <3>3. QED
        BY <3>1, <3>2
    <2>2. ASSUME ~lost, ~readerOpen PROVE accepted = delivered
      <3>1. accepted = delivered \o <<>>
        BY Zenon, <1>1, <2>2 DEF PipeInv, Accounted, ClosedIsEmpty
      <3>2. delivered \o <<>> = delivered
        BY <1>1, Joined DEF PipeInv, PipeTypeOK
      <3>3. QED
        BY <3>1, <3>2
    <2>3. QED
      BY <2>1, <2>2 DEF FlushTellsTheTruth, FlushFails
  <1>2. QED
    BY <1>1, PipeInvariant, PTL
=============================================================================

------------------------- MODULE KernelEntryProofs -------------------------
(***************************************************************************)
(* Proofs about KernelEntry and the scheduler for every set of processes,    *)
(* every set of interrupt lines and every priority; and, in the last part,    *)
(* about one interrupt handler and its task, the keyboard: what the user types  *)
(* arrives.  The two parts share no state.                                    *)
(***************************************************************************)
EXTENDS KernelEntry, Keyboard, FiniteSetTheorems, SequenceTheorems, WellFoundedInduction,
        TLAPS

\* What save leaves on the stack, and what an exception leaves.
Regs == [who : Procs \cup {KERNEL}, eax : Nat]
Entry == [what : Irqs \cup {"sys_call"}, at : {"run", "handled"}, esi : Procs,
          saved : Regs, ret : {"restart", "restart_reenter"}]
Stopped == <<[what |-> "exception", at |-> "hlt"]>>

\* Somebody can run: the idle processes never block.
SchedOK == TypeOK /\ Idle \subseteq runnable

\* Every level knows where the outermost one saved to, and below it the kernel's own
\* registers; a line on the stack has its handler.
StackOK ==
  /\ esp0 \in Procs /\ handler \subseteq Irqs
  /\ (stack = Stopped /\ ~if) \/ stack \in Seq(Entry)
  /\ stack # Stopped =>
       \A i \in DOMAIN stack :
         /\ stack[i].esi = esp0
         /\ i > 1 => stack[i].saved = [who |-> KERNEL, eax |-> i - 1]
  /\ \A i \in DOMAIN stack : stack[i].what \in Irqs => stack[i].what \in handler

\* The outermost entry is a call.
InSysCall == stack # <<>> /\ stack[1].what = "sys_call"

\* Whoever does not run has its registers in its entry, except that a caller has not
\* its result there yet.
InEntry(p) ==
  /\ frame[p] = [who |-> p, eax |-> frame[p].eax]
  /\ \/ frame[p].eax = owed[p]
     \/ p = esp0 /\ InSysCall
FrameOK ==
  /\ owed \in [Procs -> Nat] /\ frame \in [Procs -> Regs] /\ regs \in Regs
  /\ InSysCall => owed[esp0] = Result
  /\ stack # Stopped => \A p \in Procs : (p = esp0 /\ UserMode) \/ InEntry(p)

\* The inductive invariant.
IInv == SchedOK /\ StackConsistent /\ StackOK /\ FrameOK /\ ContextKept

----------------------------------------------------------------------------
\* A set of subsets of a finite set has a least one.
LEMMA LeastSubset ==
  ASSUME NEW S, IsFiniteSet(S), NEW Bad \in SUBSET SUBSET S, Bad # {}
  PROVE  \E U \in Bad : \A V \in Bad : V \subseteq U => V = U
<1>1. IsWellFoundedOn(StrictSubsetOrdering(S), FiniteSubsetsOf(S))
  BY FS_StrictSubsetOrderingWellFounded
<1>2. IsWellFoundedOn(StrictSubsetOrdering(S), SUBSET S)
  BY <1>1, FS_FiniteSubsetsOfFinite
<1> DEFINE R == StrictSubsetOrdering(S)
<1>3. PICK U \in Bad : \A V \in Bad : ~ (<<V, U>> \in R)
  <2> HIDE DEF R
  <2>1. QED
    BY <1>2, WFMin DEF R
<1>4. \A V \in Bad : V \subseteq U /\ V # U => <<V, U>> \in R
  BY DEF StrictSubsetOrdering
<1> HIDE DEF R
<1>5. \A V \in Bad : V \subseteq U => V = U
  BY <1>3, <1>4
<1>6. QED
  BY <1>5

----------------------------------------------------------------------------
\* Lemmas about sums

Sum(f, S) == MapThenSumSet(LAMBDA q : f[q], S)

\* The recursion that MapThenSumSet runs on the subsets of S.
IsSum(g, f, S) ==
  g = [s \in SUBSET S |-> IF s = {} THEN 0
                          ELSE f[CHOOSE x \in s : TRUE] + g[s \ {CHOOSE x \in s : TRUE}]]

LEMMA SumDef ==
  ASSUME NEW f, NEW S
  PROVE  Sum(f, S) = (CHOOSE g : IsSum(g, f, S))[S]
BY DEF Sum, MapThenSumSet, MapThenFoldSet, IsSum

LEMMA SumValue ==
  ASSUME NEW f, NEW S, NEW g, IsSum(g, f, S), NEW s \in SUBSET S
  PROVE  /\ s = {} => g[s] = 0
         /\ s # {} => \E x \in s : /\ x = CHOOSE y \in s : TRUE
                                   /\ g[s] = f[x] + g[s \ {x}]
<1> DEFINE c == CHOOSE y \in s : TRUE
<1>1. s # {} => c \in s
  OBVIOUS
<1>2. g[s] = IF s = {} THEN 0 ELSE f[c] + g[s \ {c}]
  BY DEF IsSum
<1> HIDE DEF c
<1>3. QED
  BY <1>1, <1>2 DEF c

\* Two of them agree where both are defined.
LEMMA SumsAgree ==
  ASSUME NEW f, NEW S, IsFiniteSet(S), NEW T, NEW g, IsSum(g, f, S), NEW h, IsSum(h, f, T)
  PROVE  \A s \in SUBSET S : s \in SUBSET T => g[s] = h[s]
<1> DEFINE Bad == {s \in SUBSET S : s \in SUBSET T /\ g[s] # h[s]}
<1>1. SUFFICES ASSUME Bad # {} PROVE FALSE
  OBVIOUS
<1>2. PICK U \in Bad : \A V \in Bad : V \subseteq U => V = U
  <2>1. Bad \in SUBSET SUBSET S
    OBVIOUS
  <2> HIDE DEF Bad
  <2>2. QED
    BY <1>1, <2>1, LeastSubset
<1>3. U # {}
  BY <1>2, SumValue
<1>4. PICK x \in U : x = (CHOOSE y \in U : TRUE) /\ g[U] = f[x] + g[U \ {x}]
  BY <1>2, <1>3, SumValue
<1>5. h[U] = f[x] + h[U \ {x}]
  <2>1. PICK z \in U : z = (CHOOSE y \in U : TRUE) /\ h[U] = f[z] + h[U \ {z}]
    BY <1>2, <1>3, SumValue
  <2>2. QED
    BY <1>4, <2>1
<1>6. U \ {x} \notin Bad
  BY <1>2, <1>4
<1>7. QED
  BY <1>2, <1>4, <1>5, <1>6

LEMMA SumExists ==
  ASSUME NEW f, NEW S, IsFiniteSet(S)
  PROVE  IsSum(CHOOSE g : IsSum(g, f, S), f, S)
<1> DEFINE G(U) == CHOOSE g : IsSum(g, f, U)
           Bad == {U \in SUBSET S : ~ \E g : IsSum(g, f, U)}
<1>1. SUFFICES ASSUME Bad # {} PROVE FALSE
  OBVIOUS
<1>2. PICK U \in Bad : \A V \in Bad : V \subseteq U => V = U
  <2>1. Bad \in SUBSET SUBSET S
    OBVIOUS
  <2> HIDE DEF Bad
  <2>2. QED
    BY <1>1, <2>1, LeastSubset
<1>3. \A V \in SUBSET U : IsFiniteSet(V) /\ (V # U => IsSum(G(V), f, V))
  BY <1>2, FS_Subset
<1> HIDE DEF G
<1> DEFINE c(s) == CHOOSE x \in s : TRUE
           less(s) == G(s \ {c(s)})[s \ {c(s)}]
           h == [s \in SUBSET U |-> IF s = {} THEN 0 ELSE f[c(s)] + less(s)]
<1>4. ASSUME NEW s \in SUBSET U, s # {} PROVE h[s \ {c(s)}] = less(s)
  <2> DEFINE r == s \ {c(s)}
  <2>1. c(s) \in s
    BY <1>4
  <2>2. r \in SUBSET U /\ r # U
    BY <2>1
  <2> HIDE DEF r, c
  <2>3. IsSum(G(r), f, r) /\ r \in SUBSET r
    BY <1>3, <2>2
  <2>4. CASE r = {}
    BY <2>2, <2>3, <2>4, SumValue DEF r
  <2>5. CASE r # {}
    <3>1. PICK x \in r : x = (CHOOSE y \in r : TRUE) /\ G(r)[r] = f[x] + G(r)[r \ {x}]
      BY <2>3, <2>5, SumValue
    <3>2. x = c(r)
      BY <3>1 DEF c
    <3>3. r \ {x} \in SUBSET U /\ r \ {x} # U /\ r \ {x} \in SUBSET r
      BY <2>2, <3>1
    <3>4. IsSum(G(r \ {x}), f, r \ {x}) /\ IsFiniteSet(r)
      BY <1>3, <2>2, <3>3
    <3>5. G(r)[r \ {x}] = G(r \ {x})[r \ {x}]
      BY <2>3, <3>3, <3>4, SumsAgree
    <3>6. h[r] = f[x] + G(r \ {x})[r \ {x}]
      BY <2>2, <2>5, <3>2
    <3>7. QED
      BY <3>1, <3>5, <3>6 DEF r
  <2>6. QED
    BY <2>4, <2>5
<1>5. IsSum(h, f, U)
  <2>1. h = [s \in SUBSET U |-> IF s = {} THEN 0 ELSE f[c(s)] + h[s \ {c(s)}]]
    <3>1. \A s \in SUBSET U : s # {} => h[s \ {c(s)}] = less(s)
      BY <1>4
    <3> HIDE DEF c, less
    <3>2. QED
      BY <3>1
  <2> HIDE DEF h
  <2>2. QED
    BY <2>1 DEF IsSum
<1>6. QED
  BY <1>2, <1>5

\* The sum of a finite set is that of any of its elements and of the others.
LEMMA SumRest ==
  ASSUME NEW f, NEW S, IsFiniteSet(S)
  PROVE  /\ S = {} => Sum(f, S) = 0
         /\ S # {} => \E x \in S : Sum(f, S) = f[x] + Sum(f, S \ {x})
<1> DEFINE g == CHOOSE h : IsSum(h, f, S)
<1>1. IsSum(g, f, S) /\ Sum(f, S) = g[S]
  BY SumExists, SumDef
<1> HIDE DEF g
<1>2. CASE S = {}
  BY <1>1, <1>2, SumValue
<1>3. CASE S # {}
  <2>1. PICK x \in S : g[S] = f[x] + g[S \ {x}]
    BY <1>1, <1>3, SumValue
  <2> DEFINE h == CHOOSE k : IsSum(k, f, S \ {x})
  <2>2. IsSum(h, f, S \ {x}) /\ Sum(f, S \ {x}) = h[S \ {x}]
    BY SumExists, SumDef, FS_Subset
  <2> HIDE DEF h
  <2>3. g[S \ {x}] = h[S \ {x}]
    BY <1>1, <2>2, SumsAgree
  <2>4. QED
    BY <1>1, <2>1, <2>2, <2>3
<1>4. QED
  BY <1>2, <1>3

LEMMA SumInNat ==
  ASSUME NEW S, IsFiniteSet(S), NEW f, \A x \in S : f[x] \in Nat
  PROVE  Sum(f, S) \in Nat
<1> DEFINE Bad == {U \in SUBSET S : Sum(f, U) \notin Nat}
<1>1. SUFFICES ASSUME Bad # {} PROVE FALSE
  OBVIOUS
<1>2. PICK U \in Bad : \A V \in Bad : V \subseteq U => V = U
  <2>1. Bad \in SUBSET SUBSET S
    OBVIOUS
  <2> HIDE DEF Bad
  <2>2. QED
    BY <1>1, <2>1, LeastSubset
<1>3. IsFiniteSet(U)
  BY <1>2, FS_Subset
<1>4. U # {}
  BY <1>2, <1>3, SumRest
<1>5. PICK x \in U : Sum(f, U) = f[x] + Sum(f, U \ {x})
  BY <1>3, <1>4, SumRest
<1>6. Sum(f, U \ {x}) \in Nat
  BY <1>2, <1>5
<1>7. QED
  BY <1>2, <1>5, <1>6

LEMMA SumAnyRest ==
  ASSUME NEW S, IsFiniteSet(S), NEW f, \A x \in S : f[x] \in Nat, NEW x \in S
  PROVE  Sum(f, S) = f[x] + Sum(f, S \ {x})
<1> DEFINE Bad == {U \in SUBSET S : \E y \in U : Sum(f, U) # f[y] + Sum(f, U \ {y})}
<1>1. SUFFICES ASSUME Bad # {} PROVE FALSE
  OBVIOUS
<1>2. PICK U \in Bad : \A V \in Bad : V \subseteq U => V = U
  <2>1. Bad \in SUBSET SUBSET S
    OBVIOUS
  <2> HIDE DEF Bad
  <2>2. QED
    BY <1>1, <2>1, LeastSubset
<1>3. PICK y \in U : Sum(f, U) # f[y] + Sum(f, U \ {y})
  BY <1>2
<1>4. \A V \in SUBSET U : IsFiniteSet(V) /\ Sum(f, V) \in Nat
  BY <1>2, FS_Subset, SumInNat
<1>5. PICK c \in U : Sum(f, U) = f[c] + Sum(f, U \ {c})
  BY <1>3, <1>4, SumRest
<1>6. Sum(f, U \ {c}) = f[y] + Sum(f, (U \ {c}) \ {y})
  BY <1>2, <1>3, <1>5
<1>7. Sum(f, U \ {y}) = f[c] + Sum(f, (U \ {y}) \ {c})
  BY <1>2, <1>3, <1>5
<1>8. (U \ {c}) \ {y} = (U \ {y}) \ {c}
  OBVIOUS
<1>9. f[c] \in Nat /\ f[y] \in Nat /\ Sum(f, (U \ {y}) \ {c}) \in Nat
  BY <1>2, <1>3, <1>4, <1>5
<1> DEFINE r == Sum(f, (U \ {y}) \ {c})
<1>10. Sum(f, U) = f[c] + (f[y] + r) /\ f[y] + Sum(f, U \ {y}) = f[y] + (f[c] + r)
  BY <1>5, <1>6, <1>7, <1>8
<1>11. f[c] \in Nat /\ f[y] \in Nat /\ r \in Nat
  BY <1>9
<1> HIDE DEF r
<1>12. f[c] + (f[y] + r) = f[y] + (f[c] + r)
  BY <1>11
<1>13. QED
  BY <1>3, <1>10, <1>12

\* It grows with what is summed.
LEMMA SumGrows ==
  ASSUME NEW S, IsFiniteSet(S), NEW f, NEW g,
         \A x \in S : f[x] \in Nat /\ g[x] \in Nat /\ f[x] <= g[x]
  PROVE  Sum(f, S) \in Nat /\ Sum(g, S) \in Nat /\ Sum(f, S) <= Sum(g, S)
<1> DEFINE Bad == {U \in SUBSET S : ~ (Sum(f, U) <= Sum(g, U))}
<1>1. ASSUME NEW U \in SUBSET S
      PROVE  IsFiniteSet(U) /\ Sum(f, U) \in Nat /\ Sum(g, U) \in Nat
  BY FS_Subset, SumInNat
<1>2. SUFFICES ASSUME Bad # {} PROVE FALSE
  BY <1>1
<1>3. PICK U \in Bad : \A V \in Bad : V \subseteq U => V = U
  <2>1. Bad \in SUBSET SUBSET S
    OBVIOUS
  <2> HIDE DEF Bad
  <2>2. QED
    BY <1>2, <2>1, LeastSubset
<1>4. U # {}
  BY <1>1, <1>3, SumRest
<1>5. PICK x \in U : TRUE
  BY <1>4
<1>6. Sum(f, U) = f[x] + Sum(f, U \ {x}) /\ Sum(g, U) = g[x] + Sum(g, U \ {x})
  BY <1>1, <1>3, <1>5, SumAnyRest
<1>7. Sum(f, U \ {x}) <= Sum(g, U \ {x})
  BY <1>3, <1>5
<1>8. QED
  BY <1>1, <1>3, <1>5, <1>6, <1>7

----------------------------------------------------------------------------
\* Lemmas about the scheduler

\* A function on a finite set takes a greatest value: the scans of schedule() find
\* somebody.
LEMMA GreatestValue ==
  ASSUME NEW S, IsFiniteSet(S), S # {}, NEW f \in [S -> Nat]
  PROVE  \E p \in S : \A q \in S : f[q] <= f[p]
<1> DEFINE Bad == {U \in SUBSET S : U # {} /\ ~ \E p \in U : \A q \in U : f[q] <= f[p]}
<1>1. SUFFICES Bad = {}
  OBVIOUS
<1>2. SUFFICES ASSUME Bad # {} PROVE FALSE
  OBVIOUS
<1>3. IsWellFoundedOn(StrictSubsetOrdering(S), FiniteSubsetsOf(S))
  BY FS_StrictSubsetOrderingWellFounded
<1>4. IsWellFoundedOn(StrictSubsetOrdering(S), SUBSET S)
  BY <1>3, FS_FiniteSubsetsOfFinite
<1> DEFINE R == StrictSubsetOrdering(S)
<1>5. PICK U \in Bad : \A V \in Bad : ~ (<<V, U>> \in R)
  <2>1. Bad \subseteq SUBSET S
    OBVIOUS
  <2> HIDE DEF Bad, R
  <2>2. QED
    BY <1>2, <1>4, <2>1, WFMin DEF R
<1>6. PICK x \in U : TRUE
  OBVIOUS
<1>7. \A V \in SUBSET S : V \subseteq U /\ V # U => <<V, U>> \in StrictSubsetOrdering(S)
  BY DEF StrictSubsetOrdering
<1>8. U \ {x} \notin Bad
  BY <1>5, <1>6, <1>7
<1>9. CASE U \ {x} = {}
  <2>1. U = {x}
    BY <1>6, <1>9
  <2>2. QED
    BY <2>1
<1>10. CASE U \ {x} # {}
  <2>1. PICK m \in U \ {x} : \A q \in U \ {x} : f[q] <= f[m]
    BY <1>8, <1>10
  <2>2. f[m] \in Nat /\ f[x] \in Nat /\ \A q \in U : f[q] \in Nat
    OBVIOUS
  <2>3. CASE f[x] <= f[m]
    BY <2>1, <2>2, <2>3
  <2>4. CASE ~ (f[x] <= f[m])
    <3>1. \A q \in U : f[q] <= f[x]
      BY <2>1, <2>2, <2>4
    <3>2. QED
      BY <3>1, <1>6
  <2>5. QED
    BY <2>3, <2>4
<1>11. QED
  BY <1>9, <1>10

\* schedule() takes a process that can run, and gives nobody more than its priority.
LEMMA ScheduleLemma ==
  ASSUME NEW run \in SUBSET Procs, run # {}, NEW t \in [Procs -> Nat],
         \A p \in Procs : t[p] <= priority[p],
         Schedule(run, t)
  PROVE  /\ ticks' \in [Procs -> Nat]
         /\ \A p \in Procs : ticks'[p] <= priority[p]
         /\ p_proc_ready' \in run
<1>1. IsFiniteSet(run) /\ run \subseteq Nat /\ priority \in [Procs -> Nat \ {0}]
  BY FS_Subset, SchedAssumption
<1> DEFINE u == IF MostTicks(run, t) = {} THEN Refill(run, t) ELSE t
<1>2. u \in [Procs -> Nat] /\ \A p \in Procs : u[p] <= priority[p]
  BY <1>1 DEF Refill
<1>3. ticks' = u /\ p_proc_ready' = ChooseReady(run, u)
  BY DEF Schedule
<1>4. MostTicks(run, u) # {}
  <2>1. CASE MostTicks(run, t) = {}
    <3>1. \A p \in run : u[p] > 0
      BY <1>1, <2>1 DEF Refill
    <3>2. PICK p \in run : \A q \in run : [x \in run |-> u[x]][q] <= [x \in run |-> u[x]][p]
      <4>1. [x \in run |-> u[x]] \in [run -> Nat]
        BY <1>2
      <4>2. QED
        BY <4>1, <1>1, GreatestValue
    <3>3. p \in MostTicks(run, u)
      BY <3>1, <3>2 DEF MostTicks
    <3>4. QED
      BY <3>3
  <2>2. CASE MostTicks(run, t) # {}
    BY <2>2
  <2>3. QED
    BY <2>1, <2>2
<1> HIDE DEF u
<1>5. \E p \in MostTicks(run, u) : \A q \in MostTicks(run, u) : q <= p
  <2> DEFINE M == MostTicks(run, u)
  <2>1. M \subseteq run /\ IsFiniteSet(M)
    BY <1>1, FS_Subset DEF MostTicks
  <2>2. [p \in M |-> p] \in [M -> Nat]
    BY <1>1, <2>1
  <2> HIDE DEF M
  <2>3. PICK p \in M : \A q \in M : [x \in M |-> x][q] <= [x \in M |-> x][p]
    BY <2>1, <2>2, <1>4, GreatestValue DEF M
  <2>4. QED
    BY <2>3 DEF M
<1>6. ChooseReady(run, u) \in MostTicks(run, u)
  BY <1>5 DEF ChooseReady, LastOf
<1>7. QED
  BY <1>2, <1>3, <1>6 DEF MostTicks

\* What the scheduler does at a tick, a blocking and an unblocking keeps its types, and
\* somebody can run.
SchedStep ==
  UserTick \/ KernelTick \/ Block \/ (\E p \in Procs : Unblock(p)) \/ UNCHANGED vars

LEMMA SchedLemma ==
  ASSUME SchedOK, SchedStep
  PROVE  SchedOK'
<1> USE DEF SchedOK, TypeOK
<1>1. /\ Procs \subseteq Nat /\ priority \in [Procs -> Nat \ {0}]
      /\ Idle \subseteq Procs /\ Idle # {} /\ TASK_TTY \in Procs
  BY SchedAssumption
<1>2. /\ Charged \in [Procs -> Nat]
      /\ \A p \in Procs : Charged[p] <= priority[p]
  <2>1. ticks[p_proc_ready] \in Nat
    OBVIOUS
  <2>2. (IF ticks[p_proc_ready] > 0 THEN ticks[p_proc_ready] - 1 ELSE 0) \in Nat
    BY <2>1
  <2>3. (IF ticks[p_proc_ready] > 0 THEN ticks[p_proc_ready] - 1 ELSE 0) <= ticks[p_proc_ready]
    BY <2>1
  <2>4. QED
    BY <1>1, <2>1, <2>2, <2>3 DEF Charged
<1>3. Used \in {0, 1}
  BY DEF Used
<1>4. ASSUME NEW n \in {0, 1}, CountWaiting(n) PROVE watched' \in Procs /\ waited' \in Nat
  BY <1>4 DEF CountWaiting
<1>5. ASSUME runnable' \in Informed
      PROVE  runnable' \in SUBSET Procs /\ Idle \subseteq runnable' /\ runnable' # {}
  BY <1>1, <1>5 DEF Informed
<1>6. CASE UserTick
  <2>1. runnable' \in SUBSET Procs /\ Idle \subseteq runnable' /\ runnable' # {}
    BY <1>5, <1>6 DEF UserTick
  <2>2. watched' \in Procs /\ waited' \in Nat
    BY <1>3, <1>4, <1>6 DEF UserTick
  <2>3. CASE Charged[p_proc_ready] > 0
    BY <1>2, <1>6, <2>1, <2>2, <2>3 DEF UserTick
  <2>4. CASE ~ (Charged[p_proc_ready] > 0)
    <3>1. Schedule(runnable', Charged)
      BY <1>6, <2>4 DEF UserTick
    <3>2. /\ ticks' \in [Procs -> Nat]
          /\ \A p \in Procs : ticks'[p] <= priority[p]
          /\ p_proc_ready' \in runnable'
      BY <1>2, <2>1, <3>1, ScheduleLemma
    <3>3. QED
      BY <2>1, <2>2, <3>2
  <2>5. QED
    BY <2>3, <2>4
<1>7. CASE KernelTick
  <2>1. watched' \in Procs /\ waited' \in Nat
    BY <1>3, <1>4, <1>7 DEF KernelTick
  <2>2. QED
    BY <1>2, <1>5, <1>7, <2>1 DEF KernelTick
<1>8. CASE Block
  <2>1. runnable' \in SUBSET Procs /\ Idle \subseteq runnable' /\ runnable' # {}
    BY <1>1, <1>8 DEF Block
  <2>2. watched' \in Procs /\ waited' \in Nat
    BY <1>4, <1>8 DEF Block
  <2>3. Schedule(runnable', ticks)
    BY <1>8 DEF Block
  <2>4. /\ ticks' \in [Procs -> Nat]
        /\ \A p \in Procs : ticks'[p] <= priority[p]
        /\ p_proc_ready' \in runnable'
    BY <2>1, <2>3, ScheduleLemma
  <2>5. QED
    BY <2>1, <2>2, <2>4
<1>9. ASSUME NEW p \in Procs, Unblock(p) PROVE SchedOK'
  <2>1. watched' \in Procs /\ waited' \in Nat
    BY <1>4, <1>9 DEF Unblock
  <2>2. QED
    BY <1>9, <2>1 DEF Unblock
<1>10. CASE UNCHANGED vars
  BY <1>10 DEF vars
<1>11. QED
  BY <1>6, <1>7, <1>8, <1>9, <1>10 DEF SchedStep

----------------------------------------------------------------------------
\* What a process that is ready may still have to wait

Waiting(p) == p \in runnable /\ p # p_proc_ready
Others == Procs \ {watched}

\* Until it has ticks of its own, a process that waits has not seen a refill, so that the
\* ticks used and those left are what the others had; afterwards there is none
\* before it runs.
WaitOK ==
  IF Waiting(watched)
  THEN waited + Sum(ticks, Others) <=
         IF ticks[watched] = 0 THEN Sum(priority, Others) ELSE 2 * Sum(priority, Others)
  ELSE waited = 0

LEMMA BelowPriority ==
  ASSUME NEW t, NEW w \in Procs, \A p \in Procs : t[p] \in Nat /\ t[p] <= priority[p]
  PROVE  /\ IsFiniteSet(Procs \ {w}) /\ Sum(t, Procs \ {w}) \in Nat
         /\ Sum(priority, Procs \ {w}) \in Nat
         /\ Sum(t, Procs \ {w}) <= Sum(priority, Procs \ {w})
<1>1. IsFiniteSet(Procs) /\ priority \in [Procs -> Nat \ {0}]
  BY SchedAssumption
<1>2. IsFiniteSet(Procs \ {w})
  BY <1>1, FS_Subset
<1>3. \A p \in Procs \ {w} : t[p] \in Nat /\ priority[p] \in Nat /\ t[p] <= priority[p]
  BY <1>1
<1>4. QED
  BY <1>2, <1>3, SumGrows

LEMMA OthersLemma ==
  ASSUME SchedOK
  PROVE  /\ IsFiniteSet(Others) /\ Sum(ticks, Others) \in Nat /\ Sum(priority, Others) \in Nat
         /\ Sum(ticks, Others) <= Sum(priority, Others)
         /\ WaitBound(watched) = 2 * Sum(priority, Others)
<1>1. WaitBound(watched) = 2 * Sum(priority, Others)
  BY DEF WaitBound, Sum, Others
<1>2. watched \in Procs /\ \A p \in Procs : ticks[p] \in Nat /\ ticks[p] <= priority[p]
  BY DEF SchedOK, TypeOK
<1>3. QED
  BY <1>1, <1>2, BelowPriority DEF Others

LEMMA BoundedLemma == SchedOK /\ WaitOK => BoundedWait
<1>1. SUFFICES ASSUME SchedOK, WaitOK PROVE BoundedWait
  OBVIOUS
<1>2. waited \in Nat
  BY <1>1 DEF SchedOK, TypeOK
<1>3. QED
  BY <1>1, <1>2, OthersLemma DEF WaitOK, BoundedWait

\* A tick is one of those the others had.
LEMMA ChargeLemma ==
  ASSUME SchedOK, watched # p_proc_ready
  PROVE  /\ Charged \in [Procs -> Nat] /\ Charged[watched] = ticks[watched]
         /\ \A p \in Procs : Charged[p] <= ticks[p]
         /\ Used \in {0, 1} /\ Sum(ticks, Others) = Used + Sum(Charged, Others)
<1>1. ticks \in [Procs -> Nat] /\ p_proc_ready \in Others /\ watched \in Procs
  BY DEF SchedOK, TypeOK, Others
<1> DEFINE r == p_proc_ready
<1>2. /\ Charged = [ticks EXCEPT ![r] = IF ticks[r] > 0 THEN ticks[r] - 1 ELSE 0]
      /\ Used = IF ticks[r] > 0 THEN 1 ELSE 0
  BY <1>1 DEF Charged, Used
<1>3. ticks[r] \in Nat /\ r \in Others /\ r \in Procs
  BY <1>1 DEF Others
<1>4. /\ Charged \in [Procs -> Nat] /\ Charged[r] \in Nat /\ Used \in {0, 1}
      /\ ticks[r] = Used + Charged[r] /\ Charged[r] <= ticks[r]
      /\ \A p \in Procs : p # r => Charged[p] = ticks[p]
  BY <1>1, <1>2, <1>3
<1>5. Sum(ticks, Others \ {r}) = Sum(Charged, Others \ {r})
  <2>1. \A p \in Others \ {r} : /\ ticks[p] \in Nat /\ Charged[p] \in Nat
                               /\ ticks[p] <= Charged[p] /\ Charged[p] <= ticks[p]
    BY <1>1, <1>4 DEF Others
  <2>2. IsFiniteSet(Others \ {r})
    BY OthersLemma, FS_Subset
  <2>3. /\ Sum(ticks, Others \ {r}) <= Sum(Charged, Others \ {r})
        /\ Sum(Charged, Others \ {r}) <= Sum(ticks, Others \ {r})
        /\ Sum(ticks, Others \ {r}) \in Nat /\ Sum(Charged, Others \ {r}) \in Nat
    BY <2>1, <2>2, SumGrows
  <2>4. QED
    BY <2>3
<1>6. /\ Sum(ticks, Others) = ticks[r] + Sum(ticks, Others \ {r})
      /\ Sum(Charged, Others) = Charged[r] + Sum(Charged, Others \ {r})
      /\ Sum(Charged, Others \ {r}) \in Nat
  <2>1. \A p \in Others : ticks[p] \in Nat /\ Charged[p] \in Nat
    BY <1>1, <1>4 DEF Others
  <2>2. IsFiniteSet(Others) /\ IsFiniteSet(Others \ {r})
    BY OthersLemma, FS_Subset
  <2>3. QED
    BY <1>3, <2>1, <2>2, SumAnyRest, SumInNat
<1>7. Charged[watched] = ticks[watched] /\ \A p \in Procs : Charged[p] <= ticks[p]
  BY <1>1, <1>4 DEF SchedOK, TypeOK
<1>8. QED
  BY <1>3, <1>4, <1>5, <1>6, <1>7

\* A step that takes n ticks from the others, with or without a refill, for which those that
\* can run must have used up theirs.
LEMMA WaitStep ==
  ASSUME SchedOK, WaitOK, SchedOK', NEW n \in {0, 1}, CountWaiting(n),
         NEW t \in [Procs -> Nat],
         Waiting(watched) => /\ t[watched] = ticks[watched]
                             /\ Sum(ticks, Others) = n + Sum(t, Others),
         \/ ticks' = t
         \/ ticks' = Refill(runnable', t) /\ \A p \in runnable' : t[p] = 0
  PROVE  WaitOK'
<1> DEFINE P == Sum(priority, Others)
           T == Sum(ticks, Others)
           T1 == Sum(ticks', Others)
<1>1. watched' = watched /\ Others' = Others /\ waited \in Nat /\ watched \in Procs
  BY DEF CountWaiting, Others, SchedOK, TypeOK
<1>2. /\ T \in Nat /\ P \in Nat /\ T <= P /\ T1 \in Nat /\ T1 <= P
      /\ WaitBound(watched) = 2 * P
  <2>1. \A p \in Procs : ticks'[p] \in Nat /\ ticks'[p] <= priority[p]
    BY DEF SchedOK, TypeOK
  <2>2. QED
    BY <1>1, <2>1, BelowPriority, OthersLemma DEF Others
<1>3. ASSUME \/ ~ Waiting(watched)' /\ waited' = 0
             \/ waited' \in Nat /\ Waiting(watched)' /\ waited' + T1 <= P
             \/ /\ Waiting(watched)' /\ ticks'[watched] # 0
                /\ waited' + T1 <= 2 * P
      PROVE  WaitOK'
  <2>1. WaitOK' = IF Waiting(watched)'
                  THEN waited' + T1 <= IF ticks'[watched] = 0 THEN P ELSE 2 * P
                  ELSE waited' = 0
    BY <1>1 DEF WaitOK
  <2>2. CASE ~ Waiting(watched)' /\ waited' = 0
    BY <2>1, <2>2
  <2>3. CASE waited' \in Nat /\ Waiting(watched)' /\ waited' + T1 <= P
    <3> HIDE DEF P, T, T1
    <3>1. \A a, b, c \in Nat : a + b <= c => a + b <= 2 * c
      OBVIOUS
    <3>2. waited' + T1 <= 2 * P
      BY <1>2, <2>3, <3>1
    <3>3. QED
      BY <2>1, <2>3, <3>2
  <2>4. CASE Waiting(watched)' /\ ticks'[watched] # 0 /\ waited' + T1 <= 2 * P
    BY <2>1, <2>4
  <2>5. QED
    BY <1>3, <2>2, <2>3, <2>4
<1>4. CASE ~ Waiting(watched) \/ ~ Waiting(watched)'
  <2>1. waited' = 0
    BY <1>1, <1>4 DEF CountWaiting, Waiting
  <2> HIDE DEF P, T, T1
  <2>2. waited' + T1 <= P /\ waited' \in Nat
    BY <1>2, <2>1
  <2>3. QED
    BY <1>3, <2>1, <2>2
<1>5. CASE Waiting(watched) /\ Waiting(watched)'
  <2>1. waited + T <= IF ticks[watched] = 0 THEN P ELSE 2 * P
    BY <1>5 DEF WaitOK
  <2>2. t[watched] = ticks[watched] /\ T = n + Sum(t, Others) /\ Sum(t, Others) \in Nat
    <3>1. \A p \in Others : t[p] \in Nat
      BY DEF Others
    <3>2. QED
      BY <1>5, <3>1, OthersLemma, SumInNat
  <2>3. waited' = waited + n
    <3> HIDE DEF P, T, T1
    <3>1. ~ (waited > WaitBound(watched))
      BY <1>1, <1>2, <2>1
    <3>2. watched \in (runnable \cap runnable') \ {p_proc_ready, p_proc_ready'}
      BY <1>1, <1>5 DEF Waiting
    <3>3. QED
      BY <3>1, <3>2 DEF CountWaiting
  <2>4. CASE ticks' = t
    <3>1. T1 = Sum(t, Others)
      BY <2>4
    <3> HIDE DEF P, T, T1
    <3>2. waited' + T1 = waited + T
      BY <1>1, <1>2, <2>2, <2>3, <3>1
    <3>3. ticks'[watched] = ticks[watched] /\ waited' \in Nat
      BY <1>1, <2>2, <2>3, <2>4
    <3>4. CASE ticks[watched] = 0
      BY <1>3, <1>5, <2>1, <3>2, <3>3, <3>4
    <3>5. CASE ticks[watched] # 0
      BY <1>3, <1>5, <2>1, <3>2, <3>3, <3>5
    <3>6. QED
      BY <3>4, <3>5
  <2>5. CASE ticks' = Refill(runnable', t) /\ \A p \in runnable' : t[p] = 0
    <3>1. ticks[watched] = 0
      BY <1>1, <1>5, <2>2, <2>5 DEF Waiting
    <3>2. ticks'[watched] # 0
      BY <1>1, <1>5, <2>5, SchedAssumption DEF Waiting, Refill
    <3> HIDE DEF P, T, T1
    <3>3. waited' <= P
      BY <1>1, <1>2, <2>1, <2>2, <2>3, <3>1
    <3>4. waited' \in Nat
      BY <1>1, <2>3
    <3>5. \A a, b, c \in Nat : a <= c /\ b <= c => a + b <= 2 * c
      OBVIOUS
    <3>6. waited' + T1 <= 2 * P
      BY <1>2, <3>3, <3>4, <3>5
    <3>7. QED
      BY <1>3, <1>5, <3>2, <3>6
  <2>6. QED
    BY <2>4, <2>5
<1>6. QED
  BY <1>4, <1>5

\* schedule() refills when nobody that can run has a tick left.
LEMMA RefillLemma ==
  ASSUME NEW run \in SUBSET Procs, run # {}, NEW t \in [Procs -> Nat], MostTicks(run, t) = {}
  PROVE  \A p \in run : t[p] = 0
<1>1. IsFiniteSet(run)
  BY FS_Subset, SchedAssumption
<1>2. [x \in run |-> t[x]] \in [run -> Nat]
  OBVIOUS
<1>3. PICK p \in run : \A q \in run : [x \in run |-> t[x]][q] <= [x \in run |-> t[x]][p]
  BY <1>1, <1>2, GreatestValue
<1>4. \A q \in run : t[q] <= t[p] /\ t[q] \in Nat
  BY <1>3
<1>5. ~ (t[p] > 0)
  BY <1>4 DEF MostTicks
<1>6. QED
  BY <1>4, <1>5

LEMMA WaitLemma ==
  ASSUME SchedOK, WaitOK, SchedStep
  PROVE  WaitOK'
<1>1. SchedOK'
  BY SchedLemma
<1>2. /\ Charged \in [Procs -> Nat] /\ ticks \in [Procs -> Nat] /\ Used \in {0, 1}
      /\ Sum(ticks, Others) \in Nat
  <2>1. ticks \in [Procs -> Nat] /\ ticks[p_proc_ready] \in Nat
    BY DEF SchedOK, TypeOK
  <2>2. (IF ticks[p_proc_ready] > 0 THEN ticks[p_proc_ready] - 1 ELSE 0) \in Nat
    BY <2>1
  <2>3. QED
    BY <2>1, <2>2, OthersLemma DEF Charged, Used
<1>3. Waiting(watched) => /\ Charged[watched] = ticks[watched]
                          /\ Sum(ticks, Others) = Used + Sum(Charged, Others)
  BY ChargeLemma DEF Waiting
<1>4. ASSUME NEW t \in [Procs -> Nat], Schedule(runnable', t)
      PROVE  \/ ticks' = t
             \/ ticks' = Refill(runnable', t) /\ \A p \in runnable' : t[p] = 0
  <2>1. runnable' \in SUBSET Procs /\ runnable' # {}
    BY <1>1, SchedAssumption DEF SchedOK, TypeOK
  <2>2. QED
    BY <1>4, <2>1, RefillLemma DEF Schedule
<1>5. CASE UserTick
  <2>1. CountWaiting(Used)
    BY <1>5 DEF UserTick
  <2>2. \/ ticks' = Charged
        \/ ticks' = Refill(runnable', Charged) /\ \A p \in runnable' : Charged[p] = 0
    BY <1>2, <1>4, <1>5 DEF UserTick
  <2>3. QED
    BY <1>1, <1>2, <1>3, <2>1, <2>2, WaitStep
<1>6. CASE KernelTick
  <2>1. CountWaiting(Used) /\ ticks' = Charged
    BY <1>6 DEF KernelTick
  <2>2. QED
    BY <1>1, <1>2, <1>3, <2>1, WaitStep
<1>7. Sum(ticks, Others) = 0 + Sum(ticks, Others)
  BY <1>2
<1>8. CASE Block
  <2>1. CountWaiting(0) /\ Schedule(runnable', ticks)
    BY <1>8 DEF Block
  <2>2. \/ ticks' = ticks
        \/ ticks' = Refill(runnable', ticks) /\ \A p \in runnable' : ticks[p] = 0
    BY <1>2, <1>4, <2>1
  <2>3. QED
    BY <1>1, <1>2, <1>7, <2>1, <2>2, WaitStep
<1>9. ASSUME NEW p \in Procs, Unblock(p) PROVE WaitOK'
  <2>1. CountWaiting(0) /\ ticks' = ticks
    BY <1>9 DEF Unblock
  <2>2. QED
    BY <1>1, <1>2, <1>7, <2>1, WaitStep
<1>10. CASE UNCHANGED vars
  BY <1>10 DEF vars, WaitOK, Waiting, Others
<1>11. QED
  BY <1>5, <1>6, <1>8, <1>9, <1>10 DEF SchedStep

----------------------------------------------------------------------------
\* Lemmas about the stack

\* An exception is on the stack of a machine that has stopped, and on no other.
LEMMA StoppedLemma ==
  /\ \E i \in DOMAIN Stopped : Stopped[i].what = "exception"
  /\ Stopped # <<>> /\ Len(Stopped) = 1 /\ DOMAIN Stopped = {1}
  /\ Stopped[1] = [what |-> "exception", at |-> "hlt"]
  BY DEF Stopped
LEMMA EntryLemma ==
  ASSUME NEW s \in Seq(Entry)
  PROVE  (~ \E i \in DOMAIN s : s[i].what = "exception") /\ s # Stopped
<1>1. "exception" \notin Irqs \cup {"sys_call"}
  BY EntryAssumption
<1>2. \A i \in DOMAIN s : s[i] \in Entry
  OBVIOUS
<1>3. ~ \E i \in DOMAIN s : s[i].what = "exception"
  BY <1>1, <1>2 DEF Entry
<1>4. QED
  BY <1>3, StoppedLemma

\* A machine that runs code of the kernel, or a process, has not stopped.
LEMMA RunningLemma ==
  ASSUME IInv, UserMode \/ Top.what # "exception"
  PROVE  stack \in Seq(Entry) /\ ~Halted /\ stack # Stopped
<1>1. stack # Stopped
  BY StoppedLemma DEF UserMode, Top
<1>2. QED
  BY <1>1, EntryLemma DEF IInv, StackOK, Halted, OnStack

LEMMA DepthLemma ==
  ASSUME IInv, ~Halted
  PROVE  k_reenter = Len(stack) - 1
  BY DEF IInv, StackConsistent

\* A handler or a call is done: nothing else of the stack changes.
LEMMA SetTopLemma ==
  ASSUME IInv, ~UserMode, stack \in Seq(Entry),
         stack' = SetTop([Top EXCEPT !.at = "handled"]),
         UNCHANGED <<regs, k_reenter, esp0, frame, imr, handler, owed>>
  PROVE  StackConsistent' /\ StackOK' /\ FrameOK' /\ ContextKept'
<1> DEFINE n == Len(stack)
<1>1. n \in Nat \ {0} /\ DOMAIN stack = 1 .. n
  BY DEF UserMode
<1>2. /\ stack' \in Seq(Entry) /\ Len(stack') = n /\ DOMAIN stack' = 1 .. n
      /\ \A i \in 1 .. n : /\ stack'[i].what = stack[i].what /\ stack'[i].esi = stack[i].esi
                           /\ stack'[i].saved = stack[i].saved /\ stack'[i].ret = stack[i].ret
  <2>1. stack[n] \in Entry /\ \A i \in 1 .. n : stack[i] \in Entry
    BY <1>1
  <2> DEFINE e == [stack[n] EXCEPT !.at = "handled"]
  <2>2. /\ e \in Entry /\ e.what = stack[n].what /\ e.esi = stack[n].esi
        /\ e.saved = stack[n].saved /\ e.ret = stack[n].ret
    BY <2>1 DEF Entry
  <2>3. stack' = [stack EXCEPT ![n] = e]
    BY DEF SetTop, Top
  <2> HIDE DEF e
  <2>4. QED
    BY <1>1, <2>1, <2>2, <2>3
<1>3. ~UserMode' /\ ~Halted /\ ~Halted' /\ stack # Stopped /\ stack' # Stopped
  BY <1>1, <1>2, EntryLemma DEF UserMode, Halted, OnStack
<1> HIDE DEF n
<1>4. stack[1].what = stack'[1].what
  <2>1. 1 \in 1 .. n
    BY <1>1
  <2>2. QED
    BY <1>2, <2>1
<1>5. StackConsistent'
  <2>1. imr' = Masked'
    <3>1. \A x : OnStack(x)' <=> OnStack(x)
      BY <1>1, <1>2 DEF OnStack
    <3>2. Masked' = Masked
      BY <3>1 DEF Masked
    <3>3. QED
      BY <3>2 DEF IInv, StackConsistent
  <2>2. k_reenter' = Len(stack') - 1
    BY <1>2, <1>3 DEF IInv, StackConsistent, n
  <2>3. \A i, j \in 1 .. n : stack'[i].what = stack'[j].what => i = j
    BY <1>1, <1>2 DEF IInv, StackConsistent
  <2>4. \A i \in 1 .. n :
           /\ stack'[i].ret = (IF i = 1 THEN "restart" ELSE "restart_reenter")
           /\ stack'[i].what = "sys_call" => i = 1
    BY <1>1, <1>2, <1>3 DEF IInv, StackConsistent
  <2>5. QED
    <3>1. k_reenter' = IF Halted' THEN -1 ELSE Len(stack') - 1
      BY <1>3, <2>2
    <3>2. \A i, j \in DOMAIN stack' : stack'[i].what = stack'[j].what => i = j
      BY <1>2, <2>3
    <3>3. \A i \in DOMAIN stack' :
           /\ stack'[i].ret = (IF i = 1 THEN "restart" ELSE "restart_reenter")
           /\ stack'[i].what = "sys_call" => i = 1
      BY <1>2, <2>4
    <3>4. QED
      BY <1>3, <2>1, <3>1, <3>2, <3>3 DEF StackConsistent
<1>6. StackOK'
  BY <1>1, <1>2, <1>3 DEF IInv, StackOK
<1>7. FrameOK'
  BY <1>1, <1>2, <1>3, <1>4 DEF IInv, FrameOK, InEntry, InSysCall, UserMode
<1>8. ContextKept'
  BY <1>2, <1>3 DEF IInv, ContextKept, KernelRegs, n, UserMode
<1>9. QED
  BY <1>5, <1>6, <1>7, <1>8

\* save puts the registers of the process into its entry, or those of the kernel on the
\* stack, and adds one level.
LEMMA SaveLemma ==
  ASSUME IInv, stack \in Seq(Entry),
         NEW what \in Irqs \cup {"sys_call"}, Save(what), ~OnStack(what),
         what = "sys_call" => UserMode, what \in Irqs => what \in handler,
         UNCHANGED handler, imr' = imr \cup ({what} \cap Irqs),
         owed' = IF what = "sys_call" THEN [owed EXCEPT ![p_proc_ready] = Result] ELSE owed
  PROVE  StackConsistent' /\ StackOK' /\ FrameOK' /\ ContextKept'
<1> DEFINE n == Len(stack)
           e == [what |-> what, at |-> "run", esi |-> esp0, saved |-> regs,
                 ret |-> IF n = 0 THEN "restart" ELSE "restart_reenter"]
<1>1. n \in Nat /\ DOMAIN stack = 1 .. n /\ \A i \in 1 .. n : stack[i] \in Entry
  OBVIOUS
<1>2. UserMode <=> n = 0
  BY DEF UserMode
<1>3. ~Halted /\ stack # Stopped
  BY EntryLemma DEF Halted, OnStack
<1>4. k_reenter = n - 1 /\ k_reenter' = n
  BY <1>1, <1>3 DEF IInv, StackConsistent, Save
<1>5. e \in Entry
  BY DEF IInv, StackOK, FrameOK, Entry
<1>6. stack' = Append(stack, e)
  <2>1. CASE n = 0
    <3>1. stack = <<>>
      BY <2>1, <1>2 DEF UserMode
    <3>2. stack' = <<e>>
      BY <2>1, <1>4 DEF Save
    <3>3. QED
      BY <3>1, <3>2
  <2>2. CASE n # 0
    BY <2>2, <1>1, <1>4 DEF Save
  <2>3. QED
    BY <2>1, <2>2
<1>7. /\ e.what = what /\ e.esi = esp0 /\ e.saved = regs
      /\ e.ret = IF n = 0 THEN "restart" ELSE "restart_reenter"
  OBVIOUS
<1> HIDE DEF e
<1>8. /\ stack' \in Seq(Entry) /\ Len(stack') = n + 1 /\ DOMAIN stack' = 1 .. n + 1
      /\ stack'[n + 1] = e /\ \A i \in 1 .. n : stack'[i] = stack[i]
  BY <1>1, <1>5, <1>6
<1> HIDE DEF n
<1>9. ~UserMode' /\ ~Halted' /\ stack' # Stopped
  <2>1. stack' # <<>>
    BY <1>1, <1>8
  <2>2. QED
    BY <2>1, <1>8, EntryLemma DEF UserMode, Halted, OnStack
<1>10. regs' = [who |-> KERNEL, eax |-> n + 1] /\ esp0' = esp0
  BY <1>8 DEF Save, KernelRegs
<1>11. \A i \in 1 .. n + 1 : i \in 1 .. n \/ i = n + 1
  BY <1>1
<1>12. \A x : OnStack(x)' <=> OnStack(x) \/ x = what
  BY <1>1, <1>7, <1>8, <1>11 DEF OnStack
<1>13. StackConsistent'
  <2>1. imr' = Masked'
    <3>1. \A i \in Irqs : i \in Masked' <=> i \in imr \cup ({what} \cap Irqs)
      BY <1>12 DEF IInv, StackConsistent, Masked
    <3>2. QED
      BY <3>1 DEF Masked, IInv, StackConsistent
  <2>2. k_reenter' = Len(stack') - 1
    BY <1>1, <1>4, <1>8
  <2>3. \A i, j \in 1 .. n + 1 : stack'[i].what = stack'[j].what => i = j
    <3>1. \A i \in 1 .. n : stack'[i].what # what
      BY <1>1, <1>8 DEF OnStack
    <3>2. QED
      BY <1>1, <1>7, <1>8, <1>11, <3>1 DEF IInv, StackConsistent
  <2>4. \A i \in 1 .. n + 1 :
           /\ stack'[i].ret = (IF i = 1 THEN "restart" ELSE "restart_reenter")
           /\ stack'[i].what = "sys_call" => i = 1
    <3>1. \A i \in 1 .. n :
           /\ stack'[i].ret = (IF i = 1 THEN "restart" ELSE "restart_reenter")
           /\ stack'[i].what = "sys_call" => i = 1
      BY <1>1, <1>3, <1>8 DEF IInv, StackConsistent
    <3>2. n + 1 = 1 <=> n = 0
      BY <1>1
    <3>3. QED
      BY <1>2, <1>7, <1>8, <1>11, <3>1, <3>2
  <2>5. QED
    BY <1>8, <1>9, <2>1, <2>2, <2>3, <2>4 DEF StackConsistent
<1>14. StackOK'
  <2>1. \A i \in 1 .. n + 1 :
           /\ stack'[i].esi = esp0
           /\ i > 1 => stack'[i].saved = [who |-> KERNEL, eax |-> i - 1]
    <3>1. \A i \in 1 .. n :
           /\ stack'[i].esi = esp0
           /\ i > 1 => stack'[i].saved = [who |-> KERNEL, eax |-> i - 1]
      BY <1>1, <1>3, <1>8 DEF IInv, StackOK
    <3>2. n # 0 => regs = [who |-> KERNEL, eax |-> n]
      BY <1>2 DEF IInv, ContextKept, KernelRegs, n
    <3>3. (n + 1) - 1 = n /\ (n + 1 > 1 <=> n # 0)
      BY <1>1
    <3>4. QED
      BY <1>7, <1>8, <1>11, <3>1, <3>2, <3>3
  <2>2. \A i \in 1 .. n + 1 : stack'[i].what \in Irqs => stack'[i].what \in handler
    BY <1>1, <1>7, <1>8, <1>11 DEF IInv, StackOK
  <2>3. QED
    BY <1>8, <1>10, <2>1, <2>2 DEF IInv, StackOK
<1>15. FrameOK'
  <2>1. regs' \in Regs
    BY <1>1, <1>10 DEF Regs
  <2>2. owed' \in [Procs -> Nat] /\ frame' \in [Procs -> Regs]
    BY DEF IInv, FrameOK, Save, Result
  <2>3. ASSUME NEW p \in Procs PROVE InEntry(p)'
    <3>1. CASE n = 0
      <4>1. /\ esp0 = p_proc_ready /\ regs = [who |-> p_proc_ready, eax |-> owed[p_proc_ready]]
        BY <3>1, <1>2 DEF IInv, StackConsistent, ContextKept
      <4>2. frame' = [frame EXCEPT ![esp0] = regs]
        BY <1>4, <3>1 DEF Save
      <4>3. stack' # <<>> /\ stack'[1].what = what
        <5>1. n + 1 = 1
          BY <3>1
        <5>2. stack'[1] = e
          BY <1>8, <5>1
        <5>3. QED
          BY <1>7, <1>9, <5>2 DEF UserMode
      <4>4. CASE p = esp0
        <5>1. frame'[p] = regs
          BY <4>2, <4>4 DEF IInv, FrameOK
        <5>2. what = "sys_call" => owed'[p] = Result
          BY <4>1, <4>4 DEF IInv, FrameOK
        <5>3. QED
          BY <1>10, <4>1, <4>3, <4>4, <5>1, <5>2 DEF InEntry, InSysCall
      <4>5. CASE p # esp0
        <5>1. frame'[p] = frame[p] /\ owed'[p] = owed[p]
          BY <4>1, <4>2, <4>5 DEF IInv, FrameOK
        <5>2. InEntry(p) /\ ~InSysCall
          BY <1>3, <4>5, <3>1, <1>2 DEF IInv, FrameOK, InSysCall, UserMode
        <5>3. QED
          BY <4>5, <5>1, <5>2 DEF InEntry
      <4>6. QED
        BY <4>4, <4>5
    <3>2. CASE n # 0
      <4>1. frame' = frame /\ owed' = owed
        BY <1>1, <1>2, <1>4, <3>2 DEF Save
      <4>2. InEntry(p) /\ stack # <<>>
        BY <1>2, <1>3, <3>2 DEF IInv, FrameOK, UserMode
      <4>3. stack' # <<>> /\ stack'[1] = stack[1]
        BY <1>1, <1>8, <3>2
      <4>4. QED
        BY <1>10, <4>1, <4>2, <4>3 DEF InEntry, InSysCall
    <3>3. QED
      BY <3>1, <3>2
  <2>4. ASSUME InSysCall' PROVE owed'[esp0'] = Result
    <3>1. CASE n = 0
      <4>1. what = "sys_call" /\ esp0 = p_proc_ready
        BY <1>1, <1>2, <1>7, <1>8, <2>4, <3>1 DEF InSysCall, IInv, StackConsistent
      <4>2. QED
        BY <1>10, <4>1 DEF IInv, StackOK, FrameOK
    <3>2. CASE n # 0
      <4>1. InSysCall
        BY <1>1, <1>2, <1>8, <2>4, <3>2 DEF InSysCall, UserMode
      <4>2. what # "sys_call"
        BY <1>2, <3>2
      <4>3. QED
        BY <1>10, <4>1, <4>2 DEF IInv, FrameOK
    <3>3. QED
      BY <3>1, <3>2
  <2>5. QED
    BY <2>1, <2>2, <2>3, <2>4 DEF FrameOK
<1>16. ContextKept'
  BY <1>8, <1>9, <1>10 DEF ContextKept, KernelRegs
<1>17. QED
  BY <1>13, <1>14, <1>15, <1>16

\* restart gives the registers to the process the scheduler has chosen, and saves to its
\* entry from then on.
LEMMA GoLemma ==
  ASSUME IInv, stack \in Seq(Entry), Len(stack) = 1, NEW saved \in [Procs -> Regs],
         \A p \in Procs : saved[p] = [who |-> p, eax |-> owed[p]],
         Go(saved), k_reenter' = k_reenter - 1, imr' = imr \ ({stack[1].what} \cap Irqs),
         UNCHANGED <<vars, handler, owed>>
  PROVE  StackConsistent' /\ StackOK' /\ FrameOK' /\ ContextKept'
<1>1. p_proc_ready \in Procs /\ p_proc_ready' = p_proc_ready
  BY DEF IInv, SchedOK, TypeOK, vars
<1>2. /\ stack' = <<>> /\ Len(stack') = 0 /\ DOMAIN stack' = {} /\ stack' \in Seq(Entry)
      /\ esp0' = p_proc_ready /\ DOMAIN stack = {1}
  BY DEF Go
<1>3. UserMode' /\ ~Halted' /\ ~Halted /\ stack # Stopped /\ stack' # Stopped
  BY <1>2, EntryLemma DEF UserMode, Halted, OnStack
<1>4. StackConsistent'
  <2>1. \A x : ~OnStack(x)' /\ (OnStack(x) <=> x = stack[1].what)
    BY <1>2 DEF OnStack
  <2>2. \A i \in Irqs : i \in Masked' <=> i \in imr \ {stack[1].what}
    BY <1>2, <2>1 DEF IInv, StackConsistent, StackOK, Masked
  <2>3. imr' = Masked'
    BY <2>2 DEF Masked, IInv, StackConsistent
  <2>4. k_reenter' = -1
    <3>1. k_reenter = Len(stack) - 1
      BY <1>3, DepthLemma
    <3>2. QED
      BY <3>1
  <2>5. UserMode' => esp0' = p_proc_ready'
    BY <1>1, <1>2
  <2>6. k_reenter' = IF Halted' THEN -1 ELSE Len(stack') - 1
    <3>1. -1 = 0 - 1
      OBVIOUS
    <3>2. QED
      BY <1>2, <2>4, <3>1
  <2>7. \A i : i \notin DOMAIN stack'
    BY <1>2
  <2>8. QED
    BY <2>3, <2>5, <2>6, <2>7 DEF StackConsistent
<1>5. StackOK'
  BY <1>1, <1>2, <1>3 DEF IInv, StackOK
<1>6. FrameOK'
  <2>1. Popped \in Regs
    BY DEF Popped, Regs, Own
  <2>2. frame' \in [Procs -> Regs] /\ regs' \in Regs /\ owed' \in [Procs -> Nat]
    BY <1>1, <2>1 DEF Go, IInv, FrameOK
  <2>3. ASSUME NEW p \in Procs, p # p_proc_ready PROVE InEntry(p)'
    <3>1. frame'[p] = saved[p]
      BY <2>3 DEF Go
    <3>2. QED
      BY <3>1 DEF InEntry
  <2>4. QED
    BY <1>2, <1>3, <2>2, <2>3 DEF FrameOK, InSysCall
<1>7. ContextKept'
  BY <1>1, <1>2, <1>3 DEF ContextKept, Go
<1>8. QED
  BY <1>4, <1>5, <1>6, <1>7

\* The end of an interrupt: the outermost goes on with a process, another with the kernel
\* code below it.
LEMMA HwintEndsLemma ==
  ASSUME IInv, stack \in Seq(Entry), HwintEnds
  PROVE  StackConsistent' /\ StackOK' /\ FrameOK' /\ ContextKept'
<1> DEFINE n == Len(stack)
<1>1. n \in Nat \ {0} /\ DOMAIN stack = 1 .. n /\ \A i \in 1 .. n : stack[i] \in Entry
  BY DEF HwintEnds, UserMode
<1>2. Top = stack[n] /\ Top.what \in Irqs /\ Top.what # "sys_call"
  BY EntryAssumption DEF Top, HwintEnds
<1>3. ~Halted /\ stack # Stopped
  BY EntryLemma DEF Halted, OnStack
<1> HIDE DEF n
<1>4. Top.ret = (IF n = 1 THEN "restart" ELSE "restart_reenter")
  BY <1>1, <1>2, <1>3 DEF IInv, StackConsistent
<1>5. CASE n = 1
  <2>1. Len(stack) = 1 /\ stack[1].what = Top.what
    BY <1>2, <1>5 DEF n
  <2>2. ~InSysCall
    BY <1>2, <2>1 DEF InSysCall
  <2>3. frame \in [Procs -> Regs] /\ \A p \in Procs : frame[p] = [who |-> p, eax |-> owed[p]]
    BY <1>3, <2>2 DEF IInv, FrameOK, InEntry, HwintEnds
  <2>4. Go(frame) /\ k_reenter' = k_reenter - 1
    BY <1>4, <1>5 DEF HwintEnds, Restart
  <2>5. imr' = imr \ ({stack[1].what} \cap Irqs) /\ UNCHANGED <<vars, handler, owed>>
    BY <1>2, <2>1 DEF HwintEnds
  <2>6. QED
    BY <2>1, <2>3, <2>4, <2>5, GoLemma
<1>6. CASE n # 1
  <2>1. n - 1 \in Nat \ {0}
    BY <1>1, <1>6
  <2>2. stack' = SubSeq(stack, 1, n - 1) /\ regs' = Top.saved /\ UNCHANGED <<esp0, frame>>
    BY <1>4, <1>6 DEF HwintEnds, Restart, n
  <2>3. /\ stack' \in Seq(Entry) /\ Len(stack') = n - 1 /\ DOMAIN stack' = 1 .. n - 1
        /\ \A i \in 1 .. n - 1 : stack'[i] = stack[i]
    BY <1>1, <2>1, <2>2 DEF n
  <2>4. ~UserMode' /\ ~Halted' /\ stack' # Stopped
    <3>1. stack' # <<>>
      BY <2>1, <2>3
    <3>2. QED
      BY <3>1, <2>3, EntryLemma DEF UserMode, Halted, OnStack
  <2>5. 1 .. n - 1 \subseteq 1 .. n /\ 1 \in 1 .. n - 1
        /\ \A i \in 1 .. n : i \in 1 .. n - 1 \/ i = n
    BY <1>1, <2>1
  <2>6. UNCHANGED <<handler, owed>> /\ imr' = imr \ {Top.what}
    BY DEF HwintEnds
  <2>7. StackConsistent'
    <3>1. \A i \in 1 .. n - 1 : stack[i].what # Top.what
      BY <1>1, <1>2, <2>5 DEF IInv, StackConsistent
    <3>2. \A x : OnStack(x)' <=> OnStack(x) /\ x # Top.what
      BY <1>1, <1>2, <2>3, <2>5, <3>1 DEF OnStack
    <3>3. Top.what \in handler
      BY <1>1, <1>2 DEF IInv, StackOK
    <3>4. \A i \in Irqs : i \in Masked' <=> i \in imr \ {Top.what}
      BY <2>6, <3>2, <3>3 DEF IInv, StackConsistent, Masked
    <3>5. imr' = Masked'
      BY <2>6, <3>4 DEF Masked, IInv, StackConsistent
    <3>6. k_reenter' = Len(stack') - 1
      BY <1>1, <1>3, <2>3 DEF IInv, StackConsistent, HwintEnds, Restart, n
    <3>7. /\ \A i, j \in 1 .. n - 1 : stack'[i].what = stack'[j].what => i = j
          /\ \A i \in 1 .. n - 1 :
               /\ stack'[i].ret = (IF i = 1 THEN "restart" ELSE "restart_reenter")
               /\ stack'[i].what = "sys_call" => i = 1
      BY <1>1, <1>3, <2>3, <2>5 DEF IInv, StackConsistent
    <3>8. QED
      BY <2>3, <2>4, <3>5, <3>6, <3>7 DEF StackConsistent
  <2>8. StackOK'
    BY <1>1, <1>3, <2>2, <2>3, <2>4, <2>5, <2>6 DEF IInv, StackOK
  <2>9. ContextKept'
    <3>1. Top.saved = [who |-> KERNEL, eax |-> n - 1]
      BY <1>1, <1>2, <1>3, <1>6 DEF IInv, StackOK
    <3>2. QED
      BY <2>2, <2>3, <2>4, <3>1 DEF ContextKept, KernelRegs
  <2>10. FrameOK'
    <3>1. stack # <<>> /\ stack' # <<>> /\ stack'[1] = stack[1]
      BY <2>3, <2>4, <2>5 DEF HwintEnds, UserMode
    <3>2. regs' \in Regs
      BY <1>1, <1>2, <2>2 DEF Entry
    <3>3. QED
      BY <1>3, <2>2, <2>4, <2>6, <3>1, <3>2 DEF IInv, FrameOK, InEntry, InSysCall, UserMode
  <2>11. QED
    BY <2>7, <2>8, <2>9, <2>10
<1>7. QED
  BY <1>5, <1>6

\* The end of a call: its result goes to the caller, wherever the CPU goes.
LEMMA SysCallEndsLemma ==
  ASSUME IInv, stack \in Seq(Entry), SysCallEnds
  PROVE  StackConsistent' /\ StackOK' /\ FrameOK' /\ ContextKept'
<1>1. Len(stack) \in Nat \ {0} /\ DOMAIN stack = 1 .. Len(stack)
  BY DEF SysCallEnds, UserMode
<1>2. ~Halted /\ stack # Stopped
  BY EntryLemma DEF Halted, OnStack
<1>3. Len(stack) = 1 /\ Top = stack[1] /\ Top.what = "sys_call"
  BY <1>1, <1>2 DEF IInv, StackConsistent, SysCallEnds, Top
<1>4. Top.esi = esp0 /\ esp0 \in Procs
  BY <1>1, <1>2, <1>3 DEF IInv, StackOK
<1>5. owed[esp0] = Result
  BY <1>1, <1>3 DEF IInv, FrameOK, InSysCall, SysCallEnds, UserMode
<1> DEFINE saved == Answered(esp0)
<1>6. saved \in [Procs -> Regs] /\ \A p \in Procs : saved[p] = [who |-> p, eax |-> owed[p]]
  <2>1. frame \in [Procs -> Regs]
    BY DEF IInv, FrameOK
  <2>2. ASSUME NEW p \in Procs PROVE saved[p] = [who |-> p, eax |-> owed[p]]
    <3>1. InEntry(p)
      BY <1>2 DEF IInv, FrameOK, SysCallEnds
    <3>2. CASE p = esp0
      BY <1>4, <1>5, <2>1, <3>1, <3>2 DEF InEntry, Answered
    <3>3. CASE p # esp0
      BY <1>4, <2>1, <3>1, <3>3 DEF InEntry, Answered
    <3>4. QED
      BY <3>2, <3>3
  <2>3. saved \in [Procs -> Regs]
    BY <1>4, <2>1 DEF Regs, Result, Answered
  <2>4. QED
    BY <2>2, <2>3
<1>7. Go(saved) /\ k_reenter' = k_reenter - 1 /\ UNCHANGED <<vars, handler, owed>>
  BY <1>4 DEF SysCallEnds, picVars
<1>8. imr' = imr \ ({stack[1].what} \cap Irqs)
  BY <1>3, EntryAssumption DEF SysCallEnds, picVars
<1> HIDE DEF saved
<1>9. QED
  BY <1>3, <1>6, <1>7, <1>8, GoLemma

----------------------------------------------------------------------------
\* The invariant is inductive

\* Where nothing of the kernel changes, and an interrupt flag that is cleared stays so when
\* the machine has stopped.
LEMMA SameLemma ==
  ASSUME IInv, UNCHANGED <<vars, regs, stack, k_reenter, esp0, frame, imr, handler, owed>>,
         if' = if \/ stack # Stopped
  PROVE  IInv'
<1>1. SchedOK'
  BY SchedLemma DEF IInv, SchedStep
<1>2. StackConsistent'
  <2>1. Halted' <=> Halted
    BY DEF Halted, OnStack
  <2>2. Masked' = Masked
    BY DEF Masked, OnStack
  <2>3. p_proc_ready' = p_proc_ready
    BY DEF vars
  <2>4. QED
    BY <2>1, <2>2, <2>3 DEF IInv, StackConsistent, UserMode
<1>3. StackOK'
  BY DEF IInv, StackOK
<1>4. FrameOK'
  BY DEF IInv, FrameOK, InEntry, InSysCall, UserMode
<1>5. ContextKept'
  BY DEF IInv, ContextKept, KernelRegs, UserMode, vars
<1>6. QED
  BY <1>1, <1>2, <1>3, <1>4, <1>5 DEF IInv

\* In user mode nothing has stopped, and the process that runs has its registers.
LEMMA UserLemma ==
  ASSUME IInv, UserMode
  PROVE  /\ stack = <<>> /\ stack \in Seq(Entry) /\ ~Halted /\ stack # Stopped
         /\ DOMAIN stack = {} /\ k_reenter = -1 /\ esp0 = p_proc_ready /\ p_proc_ready \in Procs
         /\ \A x : ~OnStack(x)
<1>1. stack = <<>> /\ stack \in Seq(Entry) /\ ~Halted /\ stack # Stopped
  BY RunningLemma DEF UserMode
<1>2. DOMAIN stack = {} /\ Len(stack) = 0
  BY <1>1
<1>3. k_reenter = Len(stack) - 1
  BY <1>1, DepthLemma
<1>4. k_reenter = -1
  BY <1>2, <1>3
<1>5. esp0 = p_proc_ready /\ p_proc_ready \in Procs
  BY DEF IInv, StackConsistent, SchedOK, TypeOK
<1>6. QED
  BY <1>1, <1>2, <1>4, <1>5 DEF OnStack

\* The process computes.
LEMMA UserStepLemma ==
  ASSUME IInv, UserStep
  PROVE  IInv'
<1>1. /\ stack = <<>> /\ esp0 = p_proc_ready /\ p_proc_ready \in Procs /\ stack # Stopped
      /\ UserMode
  BY UserLemma DEF UserStep
<1>2. /\ regs' = [who |-> p_proc_ready, eax |-> Own]
      /\ owed' = [owed EXCEPT ![p_proc_ready] = Own]
      /\ owed \in [Procs -> Nat]
  BY <1>1 DEF UserStep, IInv, ContextKept, FrameOK
<1>3. /\ UNCHANGED <<vars, if, stack, k_reenter, esp0, frame, imr, handler>>
  BY DEF UserStep, picVars
<1>4. SchedOK'
  BY <1>3, SchedLemma DEF IInv, SchedStep
<1>5. StackConsistent'
  <2>1. Halted' <=> Halted
    BY <1>3 DEF Halted, OnStack
  <2>2. Masked' = Masked
    BY <1>3 DEF Masked, OnStack
  <2>3. p_proc_ready' = p_proc_ready
    BY <1>3 DEF vars
  <2>4. QED
    BY <1>3, <2>1, <2>2, <2>3 DEF IInv, StackConsistent, UserMode
<1>6. StackOK'
  BY <1>3 DEF IInv, StackOK
<1>7. FrameOK'
  <2>1. regs' \in Regs /\ owed' \in [Procs -> Nat]
    BY <1>1, <1>2 DEF Regs, Own
  <2>2. ASSUME NEW p \in Procs, p # p_proc_ready PROVE InEntry(p)'
    BY <1>1, <1>2, <1>3, <2>2 DEF IInv, FrameOK, InEntry, InSysCall
  <2>3. ~InSysCall'
    BY <1>1, <1>3 DEF InSysCall
  <2>4. QED
    BY <1>1, <1>3, <2>1, <2>2, <2>3 DEF IInv, FrameOK, UserMode
<1>8. ContextKept'
  BY <1>1, <1>2, <1>3 DEF ContextKept, UserMode, vars
<1>9. QED
  BY <1>4, <1>5, <1>6, <1>7, <1>8 DEF IInv

\* An exception stops the machine.
LEMMA ExceptionLemma ==
  ASSUME IInv, Exception
  PROVE  IInv'
<1>1. /\ UserMode /\ k_reenter = -1 /\ \A x : ~OnStack(x)
  BY UserLemma DEF Exception
<1>2. /\ stack' = Stopped /\ regs' = KernelRegs' /\ if' = FALSE
      /\ UNCHANGED <<vars, k_reenter, esp0, frame, imr, handler, owed>>
  BY DEF Exception, Stopped, picVars
<1>3. Halted' /\ ~UserMode'
  BY <1>2, StoppedLemma DEF Halted, OnStack, UserMode
<1>4. SchedOK'
  BY <1>2, SchedLemma DEF IInv, SchedStep
<1>5. \A i \in Irqs : ~OnStack(i)'
  BY <1>2, StoppedLemma, EntryAssumption DEF OnStack
<1>6. StackConsistent'
  <2>1. imr' = Masked'
    BY <1>1, <1>2, <1>5 DEF IInv, StackConsistent, Masked
  <2>2. \A i, j \in DOMAIN stack' : i = j
    BY <1>2, StoppedLemma
  <2>3. QED
    BY <1>1, <1>2, <1>3, <2>1, <2>2 DEF StackConsistent
<1>7. StackOK'
  <2>1. \A i \in DOMAIN stack' : stack'[i].what \notin Irqs
    BY <1>5 DEF OnStack
  <2>2. QED
    BY <1>2, <2>1 DEF IInv, StackOK
<1>8. FrameOK'
  <2>1. ~InSysCall'
    BY <1>2, StoppedLemma DEF InSysCall
  <2>2. regs' = [who |-> KERNEL, eax |-> 1]
    BY <1>2, StoppedLemma DEF KernelRegs
  <2>3. regs' \in Regs
    BY <2>2 DEF Regs
  <2>4. QED
    BY <1>2, <2>1, <2>3 DEF IInv, FrameOK
<1>9. ContextKept'
  BY <1>2, <1>3 DEF ContextKept
<1>10. QED
  BY <1>4, <1>6, <1>7, <1>8, <1>9 DEF IInv

\* A task installs the handler of its line and enables it.
LEMMA PutIrqHandlerLemma ==
  ASSUME IInv, NEW i \in Lines, PutIrqHandler(i)
  PROVE  IInv'
<1>1. /\ stack = <<>> /\ DOMAIN stack = {} /\ ~Halted /\ UserMode /\ \A x : ~OnStack(x)
      /\ stack # Stopped
  BY UserLemma DEF PutIrqHandler
<1>2. /\ UNCHANGED <<vars, regs, if, stack, k_reenter, esp0, frame, owed>>
      /\ handler' = handler \cup {i} /\ imr' = imr \ {i} /\ i \in Irqs
  BY DEF PutIrqHandler, cpuVars, Irqs
<1>3. SchedOK'
  BY <1>2, SchedLemma DEF IInv, SchedStep
<1>4. StackConsistent'
  <2>1. Halted' <=> Halted
    BY <1>2 DEF Halted, OnStack
  <2>2. \A j \in Irqs : j \in Masked' <=> j \in imr \ {i}
    BY <1>1, <1>2 DEF IInv, StackConsistent, Masked, OnStack
  <2>3. imr' = Masked'
    BY <1>2, <2>2 DEF Masked, IInv, StackConsistent
  <2>4. p_proc_ready' = p_proc_ready
    BY <1>2 DEF vars
  <2>5. QED
    BY <1>2, <2>1, <2>3, <2>4 DEF IInv, StackConsistent, UserMode
<1>5. StackOK'
  BY <1>1, <1>2 DEF IInv, StackOK
<1>6. FrameOK'
  BY <1>2 DEF IInv, FrameOK, InEntry, InSysCall, UserMode
<1>7. ContextKept'
  BY <1>2 DEF IInv, ContextKept, KernelRegs, UserMode, vars
<1>8. QED
  BY <1>3, <1>4, <1>5, <1>6, <1>7 DEF IInv

LEMMA EntryStep ==
  ASSUME IInv, [EntryNext]_entryVars
  PROVE  IInv'
<1>1. ASSUME NEW i \in Irqs, Raise(i) PROVE IInv'
  BY <1>1, SameLemma DEF Raise, cpuVars
<1>2. ASSUME NEW i \in Irqs, Hwint(i) PROVE IInv'
  <2>1. stack \in Seq(Entry)
    BY <1>2 DEF Hwint, IInv, StackOK
  <2>2. ~OnStack(i) /\ i \in handler
    BY <1>2 DEF Hwint, Requested, IInv, StackConsistent, Masked
  <2>3. i # "sys_call"
    BY EntryAssumption
  <2>4. /\ Save(i) /\ UNCHANGED handler /\ imr' = imr \cup ({i} \cap Irqs) /\ owed' = owed
        /\ UNCHANGED vars
    BY <1>2 DEF Hwint
  <2>5. StackConsistent' /\ StackOK' /\ FrameOK' /\ ContextKept'
    BY <2>1, <2>2, <2>3, <2>4, SaveLemma
  <2>6. SchedOK'
    BY <2>4, SchedLemma DEF IInv, SchedStep
  <2>7. QED
    BY <2>5, <2>6 DEF IInv
<1>3. ASSUME NEW i \in Irqs, Handled(i), SchedStep PROVE IInv'
  <2>1. ~UserMode /\ Top.what # "exception"
    BY <1>3, EntryAssumption DEF Handled
  <2>2. stack \in Seq(Entry)
    BY <2>1, RunningLemma
  <2>3. StackConsistent' /\ StackOK' /\ FrameOK' /\ ContextKept'
    BY <1>3, <2>1, <2>2, SetTopLemma DEF Handled, picVars
  <2>4. QED
    BY <1>3, <2>3, SchedLemma DEF IInv
<1>4. CASE ClockHandler
  BY <1>3, <1>4 DEF ClockHandler, SchedStep, Irqs
<1>5. ASSUME NEW i \in Lines, DeviceHandler(i) PROVE IInv'
  BY <1>3, <1>5, EntryAssumption DEF DeviceHandler, SchedStep, Irqs
<1>6. CASE HwintEnds
  <2>1. ~UserMode /\ Top.what # "exception"
    BY <1>6, EntryAssumption DEF HwintEnds
  <2>2. UNCHANGED vars
    BY <1>6 DEF HwintEnds
  <2>3. QED
    BY <1>6, <2>1, <2>2, RunningLemma, HwintEndsLemma, SchedLemma DEF IInv, SchedStep
<1>7. CASE CallBody
  <2>1. ~UserMode /\ Top.what # "exception" /\ SchedStep
    BY <1>7 DEF CallBody, InCall, SchedStep
  <2>2. StackConsistent' /\ StackOK' /\ FrameOK' /\ ContextKept'
    BY <1>7, <2>1, RunningLemma, SetTopLemma DEF CallBody, picVars
  <2>3. QED
    BY <2>1, <2>2, SchedLemma DEF IInv
<1>8. CASE SysCallEnds
  <2>1. ~UserMode /\ Top.what # "exception"
    BY <1>8 DEF SysCallEnds
  <2>2. UNCHANGED vars
    BY <1>8 DEF SysCallEnds
  <2>3. QED
    BY <1>8, <2>1, <2>2, RunningLemma, SysCallEndsLemma, SchedLemma DEF IInv, SchedStep
<1>9. CASE SysCall
  <2>1. UserMode /\ stack \in Seq(Entry) /\ ~OnStack("sys_call")
    BY <1>9, UserLemma DEF SysCall
  <2>2. /\ Save("sys_call") /\ UNCHANGED <<vars, handler, imr>>
        /\ owed' = [owed EXCEPT ![p_proc_ready] = Result]
    BY <1>9 DEF SysCall, picVars
  <2>3. "sys_call" \notin Irqs
    BY EntryAssumption
  <2>4. imr' = imr \cup ({"sys_call"} \cap Irqs)
    BY <2>2, <2>3
  <2>5. StackConsistent' /\ StackOK' /\ FrameOK' /\ ContextKept'
    BY <2>1, <2>2, <2>3, <2>4, SaveLemma
  <2>6. QED
    BY <2>2, <2>5, SchedLemma DEF IInv, SchedStep
<1>10. CASE PageFault
  BY <1>10, SameLemma DEF PageFault, cpuVars, picVars
<1>11. CASE DisableInt \/ EnableInt
  <2>1. stack # Stopped
    BY <1>11, UserLemma DEF DisableInt, EnableInt
  <2>2. QED
    BY <1>11, <2>1, SameLemma DEF DisableInt, EnableInt, picVars
<1>12. CASE UNCHANGED entryVars
  BY <1>12, SameLemma DEF entryVars, cpuVars, picVars
<1>13. QED
  BY <1>1, <1>2, <1>4, <1>5, <1>6, <1>7, <1>8, <1>9, <1>10, <1>11, <1>12,
     UserStepLemma, ExceptionLemma, PutIrqHandlerLemma DEF EntryNext, Kernel, Process

\* kernel_main starts the first process of the table.
LEMMA EntryStart ==
  ASSUME EntryInit
  PROVE  IInv
<1>1. Procs # {} /\ Procs \subseteq Nat /\ IsFiniteSet(Procs) /\ priority \in [Procs -> Nat \ {0}]
  BY SchedAssumption
<1>2. PICK m \in Procs : \A q \in Procs : q <= m
  <2>1. PICK m \in Procs : \A q \in Procs : [x \in Procs |-> x][q] <= [x \in Procs |-> x][m]
    <3>1. [x \in Procs |-> x] \in [Procs -> Nat]
      BY <1>1
    <3>2. QED
      BY <1>1, <3>1, GreatestValue
  <2>2. QED
    BY <2>1
<1>3. PICK l \in Procs : \A q \in Procs : l <= q
  <2> DEFINE f == [x \in Procs |-> m - x]
  <2>1. f \in [Procs -> Nat]
    BY <1>1, <1>2
  <2> HIDE DEF f
  <2>2. PICK l \in Procs : \A q \in Procs : f[q] <= f[l]
    BY <1>1, <2>1, GreatestValue
  <2>3. \A q \in Procs : f[q] = m - q
    BY DEF f
  <2>4. \A q \in Procs : l <= q
    BY <1>1, <2>2, <2>3
  <2>5. QED
    BY <2>4
<1>4. p_proc_ready \in Procs
  BY <1>3 DEF EntryInit, Init
<1>5. SchedOK
  <2>1. ticks \in [Procs -> Nat] /\ \A p \in Procs : ticks[p] <= priority[p]
    BY <1>1 DEF EntryInit, Init
  <2>2. QED
    BY <1>4, <2>1, SchedAssumption DEF SchedOK, TypeOK, EntryInit, Init
<1>6. /\ stack = <<>> /\ DOMAIN stack = {} /\ Len(stack) = 0 /\ k_reenter = -1
      /\ esp0 = p_proc_ready /\ stack \in Seq(Entry)
      /\ imr = Lines /\ handler = {CLOCK_IRQ}
  BY DEF EntryInit
<1>7. UserMode /\ ~Halted /\ stack # Stopped /\ ~InSysCall /\ \A x : ~OnStack(x)
  BY <1>6, StoppedLemma DEF UserMode, Halted, OnStack, InSysCall
<1>8. StackConsistent
  <2>1. imr = Masked
    BY <1>6, <1>7, EntryAssumption DEF Masked, Irqs
  <2>2. k_reenter = Len(stack) - 1
    BY <1>6
  <2>3. QED
    BY <1>6, <1>7, <2>1, <2>2 DEF StackConsistent
<1>9. StackOK
  BY <1>4, <1>6, <1>7 DEF StackOK, Irqs
<1>10. FrameOK
  BY <1>4, <1>6, <1>7 DEF FrameOK, InEntry, EntryInit, Regs, Popped, Own
<1>11. ContextKept
  BY <1>4, <1>7 DEF ContextKept, EntryInit
<1>12. QED
  BY <1>5, <1>8, <1>9, <1>10, <1>11 DEF IInv

----------------------------------------------------------------------------
\* Every step of the kernel is one of the scheduler, or leaves its variables alone.
LEMMA EntrySchedStep ==
  ASSUME IInv, [EntryNext]_entryVars
  PROVE  SchedStep
<1>1. CASE UNCHANGED entryVars
  BY <1>1 DEF entryVars, SchedStep
<1>2. ASSUME NEW i \in Irqs, Raise(i) \/ Hwint(i) PROVE SchedStep
  BY <1>2 DEF Raise, Hwint, SchedStep
<1>3. CASE Kernel
  <2>1. CASE ClockHandler
    BY <2>1 DEF ClockHandler, SchedStep
  <2>2. ASSUME NEW i \in Lines, DeviceHandler(i) PROVE SchedStep
    <3>1. Woken[i] \in Procs
      BY EntryAssumption
    <3>2. QED
      BY <2>2, <3>1 DEF DeviceHandler, SchedStep
  <2>3. CASE HwintEnds \/ CallBody \/ SysCallEnds
    BY <2>3 DEF HwintEnds, CallBody, SysCallEnds, SchedStep
  <2>4. QED
    BY <1>3, <2>1, <2>2, <2>3 DEF Kernel
<1>4. CASE Process
  BY <1>4 DEF Process, SysCall, PageFault, Exception, UserStep, DisableInt, EnableInt,
              PutIrqHandler, SchedStep
<1>5. QED
  BY <1>1, <1>2, <1>3, <1>4 DEF EntryNext

----------------------------------------------------------------------------
\* Theorems

\* The inductive invariant: entries and exits of the kernel nest, each level finds the
\* registers of the one below, every entry of proc_table holds what its process is to go on with,
\* and somebody can run.
THEOREM EntryInvariant == EntrySpec => []IInv
<1>1. EntryInit => IInv
  BY EntryStart
<1>2. IInv /\ [EntryNext]_entryVars => IInv'
  BY EntryStep
<1>3. QED
  BY <1>1, <1>2, PTL DEF EntrySpec

\* kernel.asm's k_reenter, the masks of the 8259 and tss.esp0 agree with the entries on the
\* kernel stack, whatever lines and processes there are: save and restart take the
\* right branch, and no handler is entered twice.
THEOREM EntryIsConsistent == EntrySpec => []EntryConsistent
<1>1. IInv => EntryConsistent
  BY DEF IInv, SchedOK, EntryConsistent
<1>2. QED
  BY <1>1, EntryInvariant, PTL

\* save, restart and sys_call give each process its own registers back, and a caller
\* the result of its own call, whatever happened in between.
THEOREM EntryKeepsContext == EntrySpec => []ContextKept
<1>1. IInv => ContextKept
  BY DEF IInv
<1>2. QED
  BY <1>1, EntryInvariant, PTL

\* schedule() always finds a process that can run, so that its loop ends: p_proc_ready is chosen
\* among the runnable, and nobody holds more ticks than its priority.
THEOREM SchedulerFindsSomebody == EntrySpec => [](TypeOK /\ runnable # {})
<1>1. IInv => TypeOK /\ runnable # {}
  BY SchedAssumption DEF IInv, SchedOK
<1>2. QED
  BY <1>1, EntryInvariant, PTL

\* While a process is ready to run, no more ticks are charged to others in user mode
\* than they hold and are given once more, whatever blocks and unblocks in between:
\* schedule() refills only when nobody has any left.  Ticks that fall into the kernel
\* are charged too and are not counted here; clock_handler reschedules at none of them.
THEOREM WaitIsBounded == EntrySpec => []BoundedWait
<1>1. EntryInit => WaitOK
  <2>1. SUFFICES ASSUME EntryInit PROVE WaitOK
    OBVIOUS
  <2>2. SchedOK /\ waited = 0
    BY <2>1, EntryStart DEF IInv, EntryInit, Init
  <2>3. \A a, b \in Nat : a <= b => 0 + a <= b /\ 0 + a <= 2 * b
    OBVIOUS
  <2>4. QED
    BY <2>2, <2>3, OthersLemma DEF WaitOK
<1>2. IInv /\ WaitOK /\ [EntryNext]_entryVars => WaitOK'
  BY EntrySchedStep, WaitLemma DEF IInv
<1>3. IInv /\ WaitOK => BoundedWait
  BY BoundedLemma DEF IInv
<1>4. QED
  BY <1>1, <1>2, <1>3, EntryInvariant, PTL DEF EntrySpec

----------------------------------------------------------------------------
\* The keyboard

\* The strokes: the bytes of a key, or an acknowledgement.
Byte == 0 .. 255
Strokes ==
  {<<c>> : c \in Byte \ {\hE0, \hE1}} \cup {<<\hE0, c>> : c \in Byte \ {\h2A, \hB7}}
    \cup {PrintMake, PrintBreak, PauseBreak}

\* What TTY makes of a stroke: x has the modifiers, the console and what was done.
Made(s) == scan_code(s) < 128
ColumnWith(m, s) ==
  LET shift == m.shift_l \/ m.shift_r
      caps == IF m.caps_lock /\ KeyAt(scan_code(s), 0) = "a" THEN ~shift ELSE shift
  IN IF code_with_E0(s) THEN 2 ELSE IF caps THEN 1 ELSE 0
KeyWith(m, s) ==
  IF s \in {PrintMake, PrintBreak, PauseBreak} THEN "none"
  ELSE KeyAt(scan_code(s), ColumnWith(m, s))
ModsWith(m, k, mk) ==
  CASE k = "shift_l" -> [m EXCEPT !.shift_l = mk]
    [] k = "shift_r" -> [m EXCEPT !.shift_r = mk]
    [] k \in {"alt_l", "alt_r"} -> [m EXCEPT !.alt_l = mk]
    [] k = "caps" /\ mk -> [m EXCEPT !.caps_lock = ~@]
    [] k = "num" /\ mk -> [m EXCEPT !.num_lock = ~@]
    [] OTHER -> m
Deed(m, k, mk) == IF mk THEN InProcess(k, m) ELSE "none"
Done(x, m, e) ==
  [mods |-> m, current |-> IF e \in {"f1", "f2"} THEN e ELSE x.current,
   got |-> IF e = "none" THEN x.got ELSE Append(x.got, [to |-> x.current, what |-> e])]
Read(x, s) ==
  LET k == KeyWith(x.mods, s)  m == ModsWith(x.mods, k, Made(s))
  IN Done(x, m, Deed(m, k, Made(s)))

\* The keyboard as TTY has it, and as the user has it.
Mine == [mods |-> mods, current |-> current, got |-> got]
Yours ==
  [mods |-> [shift_l |-> "shift_l" \in user.down, shift_r |-> "shift_r" \in user.down,
             alt_l |-> user.alt, caps_lock |-> user.caps, num_lock |-> user.num],
   current |-> user.console, got |-> meant]

\* The bytes that TTY has not acted on.
Unread == seen \o kb_in \o wire

Consoles == {"f1", "f2"}
Effects == {"a", "A", "nl", "8", "scroll", "f1", "f2", "none"}
Deeds == [to : Consoles, what : Effects]
Holds(q, p, s) == p + Len(s) <= Len(q) /\ \A i \in 1 .. Len(s) : q[p + i] = s[i]
Before(s, t) == Len(s) <= Len(t) /\ \A i \in 1 .. Len(s) : s[i] = t[i]

\* From x the bytes q lead to y, stroke by stroke: f[p] is where p bytes lead.
Leads(f, x, q, y) ==
  /\ DOMAIN f \subseteq 0 .. Len(q) /\ 0 \in DOMAIN f /\ Len(q) \in DOMAIN f
  /\ f[0] = x /\ f[Len(q)] = y
  /\ \A p \in DOMAIN f :
       /\ f[p].got \in Seq(Deeds) /\ Before(f[p].got, y.got)
       /\ p # Len(q) => \E s \in Strokes : /\ Holds(q, p, s) /\ p + Len(s) \in DOMAIN f
                                           /\ f[p + Len(s)] = Read(f[p], s)
Goes(x, q, y) == \E f : Leads(f, x, q, y)

Locks == [shift_l : BOOLEAN, shift_r : BOOLEAN, alt_l : BOOLEAN, caps_lock : BOOLEAN,
          num_lock : BOOLEAN]
Bytes ==
  /\ wire \in Seq(Byte) /\ kb_in \in Seq(Byte) /\ seen \in Seq(Byte)
  /\ MoreToRead(seen) /\ (at # "reading" => seen = <<>>)
KeyKept == mods \in Locks /\ tty \in Consoles /\ current \in Consoles /\ got \in Seq(Deeds)
Expected ==
  user = [down |-> user.down, alt |-> user.alt, caps |-> user.caps, num |-> user.num,
          console |-> user.console]
  /\ user.alt \in BOOLEAN /\ user.caps \in BOOLEAN /\ user.num \in BOOLEAN
  /\ user.console \in Consoles /\ meant \in Seq(Deeds)

\* The inductive invariant.
KeyInv == Bytes /\ KeyKept /\ Expected /\ (lost = {} => Goes(Mine, Unread, Yours))

----------------------------------------------------------------------------
\* Bytes

\* A prefix, byte by byte: what GetByte and GetKey test.
LEMMA PrefixLemma ==
  ASSUME NEW S, NEW s \in Seq(S), NEW t \in Seq(S)
  PROVE  /\ IsPrefix(s, t) <=> Before(s, t)
         /\ IsStrictPrefix(s, t) <=> Before(s, t) /\ Len(s) < Len(t)
<1>1. Len(s) \in Nat /\ Len(t) \in Nat
  BY LenProperties
<1>2. IsPrefix(s, t) <=> Before(s, t)
  <2>1. CASE Len(s) <= Len(t)
    <3>1. SubSeq(s, 1, Len(s)) = s
      BY SubSeqFull
    <3>2. /\ SubSeq(t, 1, Len(s)) \in Seq(S) /\ Len(SubSeq(t, 1, Len(s))) = Len(s)
          /\ \A i \in 1 .. Len(s) : SubSeq(t, 1, Len(s))[i] = t[i]
      BY <1>1, <2>1
    <3>3. s = SubSeq(t, 1, Len(s)) <=> \A i \in 1 .. Len(s) : s[i] = t[i]
      BY <3>2, SeqEqual
    <3>4. QED
      BY <2>1, <3>1, <3>3 DEF IsPrefix, Before
  <2>2. QED
    BY <2>1 DEF IsPrefix, Before
<1>3. Before(s, t) => (s # t <=> Len(s) < Len(t))
  <2>1. ASSUME Before(s, t), Len(s) = Len(t) PROVE s = t
    BY <2>1, SeqEqual DEF Before
  <2>2. ASSUME Before(s, t) PROVE Len(s) <= Len(t)
    BY <2>2 DEF Before
  <2>3. QED
    BY <1>1, <2>1, <2>2
<1>4. QED
  BY <1>2, <1>3 DEF IsStrictPrefix

\* A short sequence, element by element.
LEMMA ShortLemma ==
  ASSUME NEW s \in Seq(Byte), NEW a, NEW b, NEW c, NEW d, NEW e, NEW f
  PROVE  /\ s = <<>> <=> Len(s) = 0
         /\ s = <<a>> <=> Len(s) = 1 /\ s[1] = a
         /\ s = <<a, b>> <=> Len(s) = 2 /\ s[1] = a /\ s[2] = b
         /\ s = <<a, b, c>> <=> Len(s) = 3 /\ s[1] = a /\ s[2] = b /\ s[3] = c
         /\ s = <<a, b, c, d>> <=> Len(s) = 4 /\ s[1] = a /\ s[2] = b /\ s[3] = c /\ s[4] = d
         /\ s = <<a, b, c, d, e>> <=> /\ Len(s) = 5 /\ s[1] = a /\ s[2] = b /\ s[3] = c
                                      /\ s[4] = d /\ s[5] = e
         /\ s = <<a, b, c, d, e, f>> <=> /\ Len(s) = 6 /\ s[1] = a /\ s[2] = b /\ s[3] = c
                                         /\ s[4] = d /\ s[5] = e /\ s[6] = f
<1>1. Len(s) \in Nat /\ s = [i \in 1 .. Len(s) |-> s[i]]
  OBVIOUS
<1>2. s = <<>> <=> Len(s) = 0
  OBVIOUS
<1>3. s = <<a>> <=> Len(s) = 1 /\ s[1] = a
  <2>1. Len(s) = 1 /\ s[1] = a => s = <<a>>
    BY <1>1
  <2>2. QED
    BY <2>1
<1>4. s = <<a, b>> <=> Len(s) = 2 /\ s[1] = a /\ s[2] = b
  <2>1. Len(s) = 2 /\ s[1] = a /\ s[2] = b => s = <<a, b>>
    BY <1>1
  <2>2. QED
    BY <2>1
<1>5. s = <<a, b, c>> <=> Len(s) = 3 /\ s[1] = a /\ s[2] = b /\ s[3] = c
  <2>1. Len(s) = 3 /\ s[1] = a /\ s[2] = b /\ s[3] = c => s = <<a, b, c>>
    BY <1>1
  <2>2. QED
    BY <2>1
<1>6. s = <<a, b, c, d>> <=> Len(s) = 4 /\ s[1] = a /\ s[2] = b /\ s[3] = c /\ s[4] = d
  <2>1. Len(s) = 4 /\ s[1] = a /\ s[2] = b /\ s[3] = c /\ s[4] = d => s = <<a, b, c, d>>
    BY <1>1
  <2>2. QED
    BY <2>1
<1>7. s = <<a, b, c, d, e>> <=> /\ Len(s) = 5 /\ s[1] = a /\ s[2] = b /\ s[3] = c
                                /\ s[4] = d /\ s[5] = e
  <2>1. ASSUME Len(s) = 5 /\ s[1] = a /\ s[2] = b /\ s[3] = c /\ s[4] = d /\ s[5] = e
        PROVE  s = <<a, b, c, d, e>>
    <3> DEFINE t == <<a, b, c, d, e>>
    <3>2. \A i \in 1 .. Len(s) : s[i] \in Byte
      OBVIOUS
    <3>3. a \in Byte /\ b \in Byte /\ c \in Byte /\ d \in Byte /\ e \in Byte
      BY <2>1, <3>2
    <3>4. t \in Seq(Byte) /\ Len(t) = 5 /\ t[1] = a /\ t[2] = b /\ t[3] = c /\ t[4] = d /\ t[5] = e
      BY <3>3
    <3> HIDE DEF t
    <3>5. \A i \in 1 .. 5 : i = 1 \/ i = 2 \/ i = 3 \/ i = 4 \/ i = 5
      OBVIOUS
    <3>6. \A i \in 1 .. Len(s) : s[i] = t[i]
      BY <2>1, <3>4, <3>5
    <3>7. QED
      BY <2>1, <3>4, <3>6, SeqEqual
  <2>2. QED
    BY <2>1
<1>8. s = <<a, b, c, d, e, f>> <=> /\ Len(s) = 6 /\ s[1] = a /\ s[2] = b /\ s[3] = c
                                   /\ s[4] = d /\ s[5] = e /\ s[6] = f
  <2>1. ASSUME Len(s) = 6 /\ s[1] = a /\ s[2] = b /\ s[3] = c /\ s[4] = d /\ s[5] = e /\ s[6] = f
        PROVE  s = <<a, b, c, d, e, f>>
    <3> DEFINE t == <<a, b, c, d, e, f>>
    <3>2. \A i \in 1 .. Len(s) : s[i] \in Byte
      OBVIOUS
    <3>3. a \in Byte /\ b \in Byte /\ c \in Byte /\ d \in Byte /\ e \in Byte /\ f \in Byte
      BY <2>1, <3>2
    <3>4. t \in Seq(Byte) /\ Len(t) = 6 /\ t[1] = a /\ t[2] = b /\ t[3] = c /\ t[4] = d /\ t[5] = e /\ t[6] = f
      BY <3>3
    <3> HIDE DEF t
    <3>5. \A i \in 1 .. 6 : i = 1 \/ i = 2 \/ i = 3 \/ i = 4 \/ i = 5 \/ i = 6
      OBVIOUS
    <3>6. \A i \in 1 .. Len(s) : s[i] = t[i]
      BY <2>1, <3>4, <3>5
    <3>7. QED
      BY <2>1, <3>4, <3>6, SeqEqual
  <2>2. QED
    BY <2>1
<1>9. QED
  BY <1>2, <1>3, <1>4, <1>5, <1>6, <1>7, <1>8

\* The long strokes, Pause and PrintScreen, as numbers.
LEMMA LongLemma ==
  /\ PauseBreak = <<225, 29, 69, 225, 157, 197>> /\ PauseBreak \in Seq(Byte)
  /\ PrintMake = <<224, 42, 224, 55>> /\ PrintMake \in Seq(Byte)
  /\ PrintBreak = <<224, 183, 224, 170>> /\ PrintBreak \in Seq(Byte)
  BY DEF PauseBreak, PrintMake, PrintBreak, Byte

\* Their bytes, one by one.
LEMMA LongBytes ==
  /\ Len(PauseBreak) = 6 /\ Len(PrintMake) = 4 /\ Len(PrintBreak) = 4
  /\ PauseBreak[1] = 225 /\ PauseBreak[2] = 29 /\ PauseBreak[3] = 69 /\ PauseBreak[4] = 225
  /\ PauseBreak[5] = 157 /\ PauseBreak[6] = 197
  /\ PrintMake[1] = 224 /\ PrintMake[2] = 42 /\ PrintMake[3] = 224 /\ PrintMake[4] = 55
  /\ PrintBreak[1] = 224 /\ PrintBreak[2] = 183 /\ PrintBreak[3] = 224 /\ PrintBreak[4] = 170
  BY LongLemma

\* A sequence of n elements that begins with a, b, ... is shorter than one that has these.
Begins6(n, a, b, c, d, e) ==
  \/ n = 0
  \/ n = 1 /\ a = 225
  \/ n = 2 /\ a = 225 /\ b = 29
  \/ n = 3 /\ a = 225 /\ b = 29 /\ c = 69
  \/ n = 4 /\ a = 225 /\ b = 29 /\ c = 69 /\ d = 225
  \/ n = 5 /\ a = 225 /\ b = 29 /\ c = 69 /\ d = 225 /\ e = 157
Begins4(n, a, b, c, x) ==
  \/ n = 0
  \/ n = 1 /\ a = 224
  \/ n = 2 /\ a = 224 /\ b = x
  \/ n = 3 /\ a = 224 /\ b = x /\ c = 224
MoreBytes(s) ==
  \/ Begins6(Len(s), s[1], s[2], s[3], s[4], s[5])
  \/ Begins4(Len(s), s[1], s[2], s[3], 42)
  \/ Begins4(Len(s), s[1], s[2], s[3], 183)

Starts(n, s, t, m) == n < m /\ \A i \in 1 .. n : s[i] = t[i]
\* The bytes after which one of the long strokes may still come.
LEMMA BeginsLemma ==
  ASSUME NEW n \in Nat, NEW s, NEW t
  PROVE  /\ t[1] = 225 /\ t[2] = 29 /\ t[3] = 69 /\ t[4] = 225 /\ t[5] = 157 =>
              (Starts(n, s, t, 6) <=> Begins6(n, s[1], s[2], s[3], s[4], s[5]))
         /\ \A x : t[1] = 224 /\ t[2] = x /\ t[3] = 224 =>
              (Starts(n, s, t, 4) <=> Begins4(n, s[1], s[2], s[3], x))
<1>1. /\ 1 .. 0 = {} /\ 1 .. 1 = {1} /\ 1 .. 2 = {1, 2} /\ 1 .. 3 = {1, 2, 3}
      /\ 1 .. 4 = {1, 2, 3, 4} /\ 1 .. 5 = {1, 2, 3, 4, 5}
  OBVIOUS
<1>2. n < 6 => n = 0 \/ n = 1 \/ n = 2 \/ n = 3 \/ n = 4 \/ n = 5
  OBVIOUS
<1>3. n < 4 => n = 0 \/ n = 1 \/ n = 2 \/ n = 3
  OBVIOUS
<1>4. ASSUME t[1] = 225, t[2] = 29, t[3] = 69, t[4] = 225, t[5] = 157
      PROVE  Starts(n, s, t, 6) <=> Begins6(n, s[1], s[2], s[3], s[4], s[5])
  BY <1>1, <1>2, <1>4 DEF Begins6, Starts
<1>5. ASSUME NEW x, t[1] = 224, t[2] = x, t[3] = 224
      PROVE  Starts(n, s, t, 4) <=> Begins4(n, s[1], s[2], s[3], x)
  BY <1>1, <1>3, <1>5 DEF Begins4, Starts
<1>6. QED
  BY <1>4, <1>5

\* After which bytes TTY waits for more.
LEMMA MoreLemma ==
  ASSUME NEW s \in Seq(Byte)
  PROVE  MoreToRead(s) <=> MoreBytes(s)
<1>1. /\ PauseBreak \in Seq(Byte) /\ PrintMake \in Seq(Byte) /\ PrintBreak \in Seq(Byte)
      /\ 4 \in Nat /\ 6 \in Nat
  BY LongLemma
<1>2. PICK n \in Nat : n = Len(s)
  OBVIOUS
<1>3. \A t \in Seq(Byte) : IsStrictPrefix(s, t) <=> Starts(n, s, t, Len(t))
  <2>1. SUFFICES ASSUME NEW t \in Seq(Byte)
                 PROVE  IsStrictPrefix(s, t) <=> Starts(n, s, t, Len(t))
    OBVIOUS
  <2>2. IsStrictPrefix(s, t) <=> Before(s, t) /\ Len(s) < Len(t)
    BY PrefixLemma
  <2>3. n < Len(t) => n <= Len(t)
    OBVIOUS
  <2>4. QED
    BY <1>2, <2>1, <2>2, <2>3 DEF Before, Starts
<1>4. IsStrictPrefix(s, PauseBreak) <=> Begins6(n, s[1], s[2], s[3], s[4], s[5])
  <2>1. /\ Len(PauseBreak) = 6 /\ PauseBreak[1] = 225 /\ PauseBreak[2] = 29 /\ PauseBreak[3] = 69
         /\ PauseBreak[4] = 225 /\ PauseBreak[5] = 157
    BY LongBytes
  <2>2. IsStrictPrefix(s, PauseBreak) <=> Starts(n, s, PauseBreak, Len(PauseBreak))
    BY <1>1, <1>3
  <2>3. QED
    BY <1>2, <2>1, <2>2, BeginsLemma
<1>5. IsStrictPrefix(s, PrintMake) <=> Begins4(n, s[1], s[2], s[3], 42)
  <2>1. Len(PrintMake) = 4 /\ PrintMake[1] = 224 /\ PrintMake[2] = 42 /\ PrintMake[3] = 224
    BY LongBytes
  <2>2. IsStrictPrefix(s, PrintMake) <=> Starts(n, s, PrintMake, Len(PrintMake))
    BY <1>1, <1>3
  <2>3. QED
    BY <1>2, <2>1, <2>2, BeginsLemma
<1>6. IsStrictPrefix(s, PrintBreak) <=> Begins4(n, s[1], s[2], s[3], 183)
  <2>1. Len(PrintBreak) = 4 /\ PrintBreak[1] = 224 /\ PrintBreak[2] = 183 /\ PrintBreak[3] = 224
    BY LongBytes
  <2>2. IsStrictPrefix(s, PrintBreak) <=> Starts(n, s, PrintBreak, Len(PrintBreak))
    BY <1>1, <1>3
  <2>3. QED
    BY <1>2, <2>1, <2>2, BeginsLemma
<1>7. QED
  BY <1>2, <1>4, <1>5, <1>6 DEF MoreToRead, MoreBytes

----------------------------------------------------------------------------
\* Strokes

MoreAt(n, q) ==
  \/ Begins6(n, q[1], q[2], q[3], q[4], q[5])
  \/ Begins4(n, q[1], q[2], q[3], 42)
  \/ Begins4(n, q[1], q[2], q[3], 183)

\* Bytes that begin q are waited after as q says.
LEMMA SameBytes ==
  ASSUME NEW v \in Seq(Byte), NEW q, Before(v, q)
  PROVE  MoreToRead(v) <=> MoreAt(Len(v), q)
<1>1. PICK n \in Nat : n = Len(v)
  OBVIOUS
<1>2. \A i \in 1 .. n : v[i] = q[i]
  BY <1>1 DEF Before
<1>3. /\ n >= 1 => v[1] = q[1]
      /\ n >= 2 => v[2] = q[2]
      /\ n >= 3 => v[3] = q[3]
      /\ n >= 4 => v[4] = q[4]
      /\ n >= 5 => v[5] = q[5]
  BY <1>2
<1>4. Begins6(n, v[1], v[2], v[3], v[4], v[5]) <=> Begins6(n, q[1], q[2], q[3], q[4], q[5])
  BY ONLY <1>3 DEF Begins6
<1>5. /\ Begins4(n, v[1], v[2], v[3], 42) <=> Begins4(n, q[1], q[2], q[3], 42)
      /\ Begins4(n, v[1], v[2], v[3], 183) <=> Begins4(n, q[1], q[2], q[3], 183)
  BY ONLY <1>3 DEF Begins4
<1>6. QED
  BY <1>1, <1>4, <1>5, MoreLemma DEF MoreAt, MoreBytes

\* The bytes of a stroke.
LEMMA StrokeBytes ==
  ASSUME NEW s \in Strokes
  PROVE  /\ s \in Seq(Byte) /\ Len(s) \in Nat \ {0}
         /\ \/ Len(s) = 1 /\ s[1] \in Byte \ {224, 225} /\ s = <<s[1]>>
            \/ Len(s) = 2 /\ s[1] = 224 /\ s[2] \in Byte \ {42, 183} /\ s = <<224, s[2]>>
            \/ Len(s) = 4 /\ s[1] = 224 /\ s[2] = 42 /\ s[3] = 224 /\ s[4] = 55 /\ s = PrintMake
            \/ Len(s) = 4 /\ s[1] = 224 /\ s[2] = 183 /\ s[3] = 224 /\ s[4] = 170 /\ s = PrintBreak
            \/ /\ Len(s) = 6 /\ s[1] = 225 /\ s[2] = 29 /\ s[3] = 69 /\ s[4] = 225
               /\ s[5] = 157 /\ s[6] = 197 /\ s = PauseBreak
<1>1. CASE \E c \in Byte \ {224, 225} : s = <<c>>
  BY <1>1 DEF Byte
<1>2. CASE \E c \in Byte \ {42, 183} : s = <<224, c>>
  BY <1>2 DEF Byte
<1>3. CASE s = PrintMake
  BY <1>3, LongLemma, LongBytes
<1>4. CASE s = PrintBreak
  BY <1>4, LongLemma, LongBytes
<1>5. CASE s = PauseBreak
  BY <1>5, LongLemma, LongBytes
<1>6. QED
  BY <1>1, <1>2, <1>3, <1>4, <1>5 DEF Strokes

\* A stroke ends where TTY does not wait for more.
LEMMA EndLemma ==
  ASSUME NEW q, NEW s \in Strokes, Holds(q, 0, s), NEW n \in Nat, MoreAt(n, q), ~ MoreAt(n + 1, q)
  PROVE  n + 1 = Len(s)
<1>1. \A i \in 1 .. Len(s) : q[i] = s[i]
  BY StrokeBytes DEF Holds
<1>2. n = 0 \/ n = 1 \/ n = 2 \/ n = 3 \/ n = 4 \/ n = 5
  BY DEF MoreAt, Begins6, Begins4
<1>3. CASE Len(s) = 1 /\ s[1] \in Byte \ {224, 225}
  <2>1. q[1] # 224 /\ q[1] # 225
    BY <1>1, <1>3
  <2>2. n = 0
    BY <1>2, <2>1 DEF MoreAt, Begins6, Begins4
  <2>3. QED
    BY <1>3, <2>2
<1>4. CASE Len(s) = 2 /\ s[1] = 224 /\ s[2] \in Byte \ {42, 183}
  <2>1. q[1] = 224 /\ q[2] # 42 /\ q[2] # 183
    BY <1>1, <1>4
  <2>2. n = 0 \/ n = 1
    BY <1>2, <2>1 DEF MoreAt, Begins6, Begins4
  <2>3. n # 0
    BY <2>1 DEF MoreAt, Begins4
  <2>4. QED
    BY <1>4, <2>2, <2>3
<1>5. ASSUME NEW x \in {42, 183}, Len(s) = 4, s[1] = 224, s[2] = x, s[3] = 224 PROVE n + 1 = Len(s)
  <2>1. q[1] = 224 /\ q[2] = x /\ q[3] = 224
    BY <1>1, <1>5
  <2>2. n = 0 \/ n = 1 \/ n = 2 \/ n = 3
    BY <1>2, <2>1 DEF MoreAt, Begins6, Begins4
  <2>3. n # 0 /\ n # 1 /\ n # 2
    BY <1>5, <2>1 DEF MoreAt, Begins4
  <2>4. QED
    BY <1>5, <2>2, <2>3
<1>6. CASE Len(s) = 6 /\ s[1] = 225 /\ s[2] = 29 /\ s[3] = 69 /\ s[4] = 225 /\ s[5] = 157
  <2>1. q[1] = 225 /\ q[2] = 29 /\ q[3] = 69 /\ q[4] = 225 /\ q[5] = 157
    BY <1>1, <1>6
  <2>2. n # 0 /\ n # 1 /\ n # 2 /\ n # 3 /\ n # 4
    BY <2>1 DEF MoreAt, Begins6
  <2>3. QED
    BY <1>2, <1>6, <2>2
<1>7. QED
  BY <1>3, <1>4, <1>5, <1>6, StrokeBytes

\* What TTY reads is the stroke.
LEMMA StrokeLemma ==
  ASSUME NEW q, NEW s \in Strokes, Holds(q, 0, s), NEW v \in Seq(Byte), NEW b \in Byte,
         MoreToRead(v), ~ MoreToRead(Append(v, b)), Before(Append(v, b), q)
  PROVE  Append(v, b) = s
<1> DEFINE r == Append(v, b)
<1>1. r \in Seq(Byte) /\ Len(r) = Len(v) + 1 /\ Len(v) \in Nat /\ \A i \in 1 .. Len(v) : r[i] = v[i]
  OBVIOUS
<1>2. Before(v, q)
  BY <1>1 DEF Before
<1>3. MoreAt(Len(v), q) /\ ~ MoreAt(Len(v) + 1, q)
  BY <1>1, <1>2, SameBytes
<1>4. Len(r) = Len(s)
  BY <1>1, <1>3, EndLemma
<1>5. s \in Seq(Byte) /\ \A i \in 1 .. Len(s) : q[i] = s[i]
  BY StrokeBytes DEF Holds
<1>6. \A i \in 1 .. Len(r) : r[i] = s[i]
  BY <1>4, <1>5 DEF Before
<1> HIDE DEF r
<1>7. r = s
  BY <1>1, <1>4, <1>5, <1>6, SeqEqual
<1>8. QED
  BY <1>7 DEF r

----------------------------------------------------------------------------
\* What the bytes lead to

\* What in_process does of a key is one of the effects.
LEMMA DeedLemma ==
  ASSUME NEW k, NEW m, NEW mk
  PROVE  InProcess(k, m) \in Effects /\ Deed(m, k, mk) \in Effects
<1>1. InProcess(k, m) \in Effects
  BY DEF InProcess, Effects
<1>2. QED
  BY <1>1 DEF Deed, Effects

\* What TTY does of a stroke comes after what it did.
LEMMA ReadLemma ==
  ASSUME NEW x, x.got \in Seq(Deeds), x.current \in Consoles, NEW s
  PROVE  Read(x, s).got \in Seq(Deeds) /\ Before(x.got, Read(x, s).got)
<1> DEFINE k == KeyWith(x.mods, s)
           m == ModsWith(x.mods, k, Made(s))
           e == Deed(m, k, Made(s))
<1>1. Read(x, s).got = IF e = "none" THEN x.got ELSE Append(x.got, [to |-> x.current, what |-> e])
  BY DEF Read, Done
<1>2. e \in Effects
  BY DeedLemma
<1> HIDE DEF e
<1>3. [to |-> x.current, what |-> e] \in Deeds
  BY <1>2 DEF Deeds
<1>4. PICK d \in Deeds : d = [to |-> x.current, what |-> e]
  BY <1>3
<1>5. PICK g \in Seq(Deeds) : g = x.got
  OBVIOUS
<1>6. Before(g, g) /\ Append(g, d) \in Seq(Deeds) /\ Before(g, Append(g, d))
  BY DEF Before
<1>7. QED
  BY <1>1, <1>4, <1>5, <1>6

\* A stroke more.
LEMMA AppendLemma ==
  ASSUME NEW x, NEW y, NEW q \in Seq(Byte), NEW s \in Strokes, Goes(x, q, y),
         y.got \in Seq(Deeds), y.current \in Consoles
  PROVE  Goes(x, q \o s, Read(y, s))
<1> DEFINE z == Read(y, s)
<1>1. PICK f : Leads(f, x, q, y)
  BY DEF Goes
<1>2. z.got \in Seq(Deeds) /\ Before(y.got, z.got)
  BY ReadLemma
<1>3. PICK n \in Nat : n = Len(q)
  OBVIOUS
<1>4. PICK l \in Nat \ {0} : l = Len(s)
  BY StrokeBytes
<1>5. /\ q \o s \in Seq(Byte) /\ Len(q \o s) = n + l
      /\ \A i \in 1 .. n : (q \o s)[i] = q[i]
      /\ \A i \in 1 .. l : (q \o s)[n + i] = s[i]
  <2>1. s \in Seq(Byte)
    BY StrokeBytes
  <2>2. QED
    BY <1>3, <1>4, <2>1, ConcatProperties
<1> DEFINE r == q \o s
           D == DOMAIN f \cup {n + l}
           g == [p \in D |-> IF p = n + l THEN z ELSE f[p]]
<1>6. /\ DOMAIN f \subseteq 0 .. n /\ 0 \in DOMAIN f /\ n \in DOMAIN f /\ f[0] = x /\ f[n] = y
      /\ \A p \in DOMAIN f : f[p].got \in Seq(Deeds) /\ Before(f[p].got, y.got)
  BY <1>1, <1>3 DEF Leads
<1>7. \A p \in DOMAIN f : p # n => \E w \in Strokes : /\ Holds(q, p, w) /\ p + Len(w) \in DOMAIN f
                                                      /\ f[p + Len(w)] = Read(f[p], w)
  BY <1>1, <1>3 DEF Leads
<1> HIDE DEF r, z
<1>8. r \in Seq(Byte) /\ Len(r) = n + l
  BY <1>5 DEF r
<1>9. DOMAIN g = D /\ g[n + l] = z /\ \A p \in DOMAIN f : p \in 0 .. n /\ p # n + l /\ g[p] = f[p]
  BY <1>6
<1> HIDE DEF g
<1>10. DOMAIN g \subseteq 0 .. Len(r) /\ 0 \in DOMAIN g /\ Len(r) \in DOMAIN g
  BY <1>6, <1>8, <1>9
<1>11. g[0] = x /\ g[Len(r)] = z
  BY <1>6, <1>8, <1>9
<1>12. ASSUME NEW p \in DOMAIN g PROVE g[p].got \in Seq(Deeds) /\ Before(g[p].got, z.got)
  <2>1. CASE p = n + l
    BY <1>2, <1>9, <2>1 DEF Before
  <2>2. CASE p \in DOMAIN f
    <3>1. PICK a \in Seq(Deeds), b \in Seq(Deeds), c \in Seq(Deeds) : a = f[p].got /\ b = y.got /\ c = z.got
      BY <1>2, <1>6, <2>2
    <3>2. Before(a, b) /\ Before(b, c)
      BY <1>2, <1>6, <2>2, <3>1
    <3>3. Before(a, c)
      BY <3>2 DEF Before
    <3>4. QED
      BY <1>9, <2>2, <3>1, <3>3
  <2>3. QED
    BY <1>9, <2>1, <2>2
<1>13. ASSUME NEW p \in DOMAIN g, p # Len(r)
       PROVE  \E w \in Strokes : /\ Holds(r, p, w) /\ p + Len(w) \in DOMAIN g
                                 /\ g[p + Len(w)] = Read(g[p], w)
  <2>1. p \in DOMAIN f /\ p \in 0 .. n /\ g[p] = f[p]
    BY <1>8, <1>9, <1>13
  <2>2. CASE p = n
    <3>1. Holds(r, p, s)
      BY <1>4, <1>5, <1>8, <2>2 DEF Holds, r
    <3>2. p + Len(s) \in DOMAIN g /\ g[p + Len(s)] = z
      BY <1>4, <1>9, <2>2
    <3>3. g[p] = y
      BY <1>6, <2>1, <2>2
    <3>4. QED
      BY <3>1, <3>2, <3>3 DEF z
  <2>3. CASE p # n
    <3>1. PICK w \in Strokes : /\ Holds(q, p, w) /\ p + Len(w) \in DOMAIN f
                               /\ f[p + Len(w)] = Read(f[p], w)
      BY <1>7, <2>1, <2>3
    <3>2. Len(w) \in Nat
      BY StrokeBytes
    <3>3. p + Len(w) <= n /\ \A i \in 1 .. Len(w) : q[p + i] = w[i]
      BY <1>3, <3>1 DEF Holds
    <3>4. \A i \in 1 .. Len(w) : p + i \in 1 .. n /\ r[p + i] = q[p + i]
      BY <1>5, <2>1, <3>2, <3>3 DEF r
    <3>5. Holds(r, p, w)
      BY <1>8, <2>1, <3>2, <3>3, <3>4 DEF Holds
    <3>6. p + Len(w) \in DOMAIN g /\ g[p + Len(w)] = f[p + Len(w)]
      BY <1>9, <3>1
    <3>7. QED
      BY <2>1, <3>1, <3>5, <3>6
  <2>4. QED
    BY <2>2, <2>3
<1>14. Leads(g, x, r, z)
  BY <1>10, <1>11, <1>12, <1>13 DEF Leads
<1>15. QED
  BY <1>14 DEF Goes, r, z

\* A stroke less: what TTY has read is the first one.
LEMMA DropLemma ==
  ASSUME NEW x, NEW y, NEW v \in Seq(Byte), NEW b \in Byte, NEW t \in Seq(Byte),
         MoreToRead(v), ~ MoreToRead(Append(v, b)), Goes(x, Append(v, b) \o t, y)
  PROVE  Append(v, b) \in Strokes /\ Goes(Read(x, Append(v, b)), t, y)
<1> DEFINE r == Append(v, b)
           q == r \o t
<1>1. PICK f : Leads(f, x, q, y)
  BY DEF Goes
<1>2. r \in Seq(Byte) /\ Len(r) \in Nat \ {0}
  OBVIOUS
<1>3. PICK l \in Nat \ {0} : l = Len(r)
  BY <1>2
<1>4. PICK n \in Nat : n = Len(t)
  OBVIOUS
<1> HIDE DEF r
<1>5. /\ q \in Seq(Byte) /\ Len(q) = l + n
      /\ \A i \in 1 .. l : q[i] = r[i]
      /\ \A i \in 1 .. n : q[l + i] = t[i]
  BY <1>2, <1>3, <1>4, ConcatProperties
<1> HIDE DEF q
<1>6. /\ DOMAIN f \subseteq 0 .. l + n /\ 0 \in DOMAIN f /\ l + n \in DOMAIN f
      /\ f[0] = x /\ f[l + n] = y
      /\ \A p \in DOMAIN f : f[p].got \in Seq(Deeds) /\ Before(f[p].got, y.got)
  BY <1>1, <1>5 DEF Leads
<1>7. \A p \in DOMAIN f : p # l + n => \E w \in Strokes : /\ Holds(q, p, w) /\ p + Len(w) \in DOMAIN f
                                                          /\ f[p + Len(w)] = Read(f[p], w)
  BY <1>1, <1>5 DEF Leads
<1>8. PICK s \in Strokes : Holds(q, 0, s) /\ 0 + Len(s) \in DOMAIN f /\ f[0 + Len(s)] = Read(f[0], s)
  BY <1>6, <1>7
<1>9. Before(r, q)
  BY <1>3, <1>5 DEF Before
<1>10. r = s
  BY <1>8, <1>9, StrokeLemma DEF r
<1>11. r \in Strokes /\ l \in DOMAIN f /\ f[l] = Read(x, r)
  BY <1>3, <1>6, <1>8, <1>10
<1> DEFINE D == {p \in 0 .. n : l + p \in DOMAIN f}
           g == [p \in D |-> f[l + p]]
<1>12. DOMAIN g = D /\ \A p \in D : g[p] = f[l + p] /\ p \in 0 .. n /\ l + p \in DOMAIN f
  OBVIOUS
<1> HIDE DEF g
<1>13. DOMAIN g \subseteq 0 .. Len(t) /\ 0 \in DOMAIN g /\ Len(t) \in DOMAIN g
  BY <1>4, <1>6, <1>11, <1>12
<1>14. g[0] = Read(x, r) /\ g[Len(t)] = y
  BY <1>4, <1>6, <1>11, <1>12, <1>13
<1>15. ASSUME NEW p \in DOMAIN g PROVE g[p].got \in Seq(Deeds) /\ Before(g[p].got, y.got)
  BY <1>6, <1>12
<1>16. ASSUME NEW p \in DOMAIN g, p # Len(t)
       PROVE  \E w \in Strokes : /\ Holds(t, p, w) /\ p + Len(w) \in DOMAIN g
                                 /\ g[p + Len(w)] = Read(g[p], w)
  <2>1. p \in 0 .. n /\ l + p \in DOMAIN f /\ l + p # l + n /\ g[p] = f[l + p]
    BY <1>4, <1>12, <1>16
  <2>2. PICK w \in Strokes : /\ Holds(q, l + p, w) /\ (l + p) + Len(w) \in DOMAIN f
                             /\ f[(l + p) + Len(w)] = Read(f[l + p], w)
    BY <1>7, <2>1
  <2>3. PICK k \in Nat : k = Len(w)
    BY StrokeBytes
  <2>4. (l + p) + k = l + (p + k) /\ p + k \in Nat
    BY <2>1, <2>3
  <2>5. p + k \in D
    BY <1>6, <2>2, <2>3, <2>4
  <2>6. (l + p) + k <= l + n /\ \A i \in 1 .. k : q[(l + p) + i] = w[i]
    BY <1>5, <2>2, <2>3 DEF Holds
  <2>7. \A i \in 1 .. k : (l + p) + i = l + (p + i) /\ p + i \in 1 .. n
    BY <2>1, <2>6
  <2>8. \A i \in 1 .. k : t[p + i] = w[i]
    BY <1>5, <2>6, <2>7
  <2>9. Holds(t, p, w)
    BY <1>4, <2>3, <2>5, <2>8 DEF Holds
  <2>10. QED
    BY <1>12, <2>1, <2>2, <2>3, <2>4, <2>5, <2>9
<1>17. Leads(g, Read(x, r), t, y)
  BY <1>13, <1>14, <1>15, <1>16 DEF Leads
<1>18. QED
  BY <1>11, <1>17 DEF Goes, r

----------------------------------------------------------------------------
\* The user

Rows == {"a", "enter", "shift_l", "shift_r", "alt", "caps", "num", "f1", "f2", "up"}
\* The scan codes of the rows of keymap.
LEMMA CodeLemma ==
  /\ DOMAIN keymap = Rows
  /\ keymap["a"][1] = 30 /\ keymap["enter"][1] = 28 /\ keymap["shift_l"][1] = 42
  /\ keymap["shift_r"][1] = 54 /\ keymap["alt"][1] = 56 /\ keymap["caps"][1] = 58
  /\ keymap["num"][1] = 69 /\ keymap["f1"][1] = 59 /\ keymap["f2"][1] = 60 /\ keymap["up"][1] = 72
  BY DEF keymap, Rows

\* A scan code has one row.
LEMMA RowLemma ==
  ASSUME NEW code, NEW column
  PROVE  /\ \A r \in Rows : code % 128 = keymap[r][1] => KeyAt(code, column) = keymap[r][column + 2]
         /\ (\A r \in Rows : code % 128 # keymap[r][1]) => KeyAt(code, column) = "none"
<1> DEFINE rows == {r \in DOMAIN keymap : keymap[r][1] = code % 128}
<1>1. rows = {r \in Rows : keymap[r][1] = code % 128}
  BY CodeLemma
<1>2. ASSUME NEW r \in Rows, code % 128 = keymap[r][1]
      PROVE  KeyAt(code, column) = keymap[r][column + 2]
  <2>1. \A w \in Rows : keymap[w][1] = keymap[r][1] => w = r
    BY CodeLemma DEF Rows
  <2>2. rows = {r}
    BY <1>1, <1>2, <2>1
  <2>3. (CHOOSE w \in rows : TRUE) = r
    BY <2>2
  <2>4. QED
    BY <2>2, <2>3 DEF KeyAt
<1>3. ASSUME \A r \in Rows : code % 128 # keymap[r][1] PROVE KeyAt(code, column) = "none"
  <2>1. rows = {}
    BY <1>1, <1>3
  <2>2. QED
    BY <2>1 DEF KeyAt
<1>4. QED
  BY <1>2, <1>3

\* The key of each scan code, column by column: no key for the acknowledgement.
LEMMA ColumnLemma ==
  ASSUME NEW code \in Nat
  PROVE  /\ code % 128 = 30 => KeyAt(code, 0) = "a" /\ KeyAt(code, 1) = "A"
         /\ code % 128 = 28 => \A c \in 0 .. 2 : KeyAt(code, c) = "nl"
         /\ code % 128 = 42 => \A c \in 0 .. 1 : KeyAt(code, c) = "shift_l"
         /\ code % 128 = 54 => \A c \in 0 .. 1 : KeyAt(code, c) = "shift_r"
         /\ code % 128 = 56 => (\A c \in 0 .. 1 : KeyAt(code, c) = "alt_l") /\ KeyAt(code, 2) = "alt_r"
         /\ code % 128 = 58 => \A c \in 0 .. 1 : KeyAt(code, c) = "caps"
         /\ code % 128 = 69 => \A c \in 0 .. 1 : KeyAt(code, c) = "num"
         /\ code % 128 = 59 => \A c \in 0 .. 1 : KeyAt(code, c) = "f1"
         /\ code % 128 = 60 => \A c \in 0 .. 1 : KeyAt(code, c) = "f2"
         /\ code % 128 = 72 => KeyAt(code, 0) = "pad_up" /\ KeyAt(code, 1) = "8" /\ KeyAt(code, 2) = "up"
         /\ code % 128 = 122 => \A c \in 0 .. 2 : KeyAt(code, c) = "none"
<1> DEFINE n == code % 128
<1>1. /\ n = 30 => \A c : KeyAt(code, c) = keymap["a"][c + 2]
      /\ n = 28 => \A c : KeyAt(code, c) = keymap["enter"][c + 2]
      /\ n = 42 => \A c : KeyAt(code, c) = keymap["shift_l"][c + 2]
      /\ n = 54 => \A c : KeyAt(code, c) = keymap["shift_r"][c + 2]
      /\ n = 56 => \A c : KeyAt(code, c) = keymap["alt"][c + 2]
      /\ n = 58 => \A c : KeyAt(code, c) = keymap["caps"][c + 2]
      /\ n = 69 => \A c : KeyAt(code, c) = keymap["num"][c + 2]
      /\ n = 59 => \A c : KeyAt(code, c) = keymap["f1"][c + 2]
      /\ n = 60 => \A c : KeyAt(code, c) = keymap["f2"][c + 2]
      /\ n = 72 => \A c : KeyAt(code, c) = keymap["up"][c + 2]
  BY RowLemma, CodeLemma DEF Rows
<1>2. n = 122 => \A c : KeyAt(code, c) = "none"
  BY RowLemma, CodeLemma DEF Rows
<1>3. /\ \A c \in 0 .. 2 : c = 0 \/ c = 1 \/ c = 2
      /\ \A c \in 0 .. 1 : c = 0 \/ c = 1
      /\ 0 + 2 = 2 /\ 1 + 2 = 3 /\ 2 + 2 = 4
  OBVIOUS
<1>4. /\ keymap["a"][2] = "a" /\ keymap["a"][3] = "A"
      /\ keymap["enter"][2] = "nl" /\ keymap["enter"][3] = "nl" /\ keymap["enter"][4] = "nl"
      /\ keymap["shift_l"][2] = "shift_l" /\ keymap["shift_l"][3] = "shift_l"
      /\ keymap["shift_r"][2] = "shift_r" /\ keymap["shift_r"][3] = "shift_r"
      /\ keymap["alt"][2] = "alt_l" /\ keymap["alt"][3] = "alt_l" /\ keymap["alt"][4] = "alt_r"
      /\ keymap["caps"][2] = "caps" /\ keymap["caps"][3] = "caps"
      /\ keymap["num"][2] = "num" /\ keymap["num"][3] = "num"
      /\ keymap["f1"][2] = "f1" /\ keymap["f1"][3] = "f1"
      /\ keymap["f2"][2] = "f2" /\ keymap["f2"][3] = "f2"
      /\ keymap["up"][2] = "pad_up" /\ keymap["up"][3] = "8" /\ keymap["up"][4] = "up"
  BY DEF keymap
<1> HIDE DEF n
<1>5. QED
  BY <1>1, <1>2, <1>3, <1>4 DEF n

\* Two bytes put together.
LEMMA TwoLemma ==
  ASSUME NEW a \in Byte, NEW b \in Byte
  PROVE  <<a>> \o <<b>> = <<a, b>>
<1>1. /\ <<a>> \in Seq(Byte) /\ Len(<<a>>) = 1 /\ <<a>>[1] = a
      /\ <<b>> \in Seq(Byte) /\ Len(<<b>>) = 1 /\ <<b>>[1] = b
  OBVIOUS
<1>2. PICK u \in Seq(Byte), v \in Seq(Byte) : u = <<a>> /\ v = <<b>>
  BY <1>1
<1>3. u \o v \in Seq(Byte) /\ Len(u \o v) = 2 /\ (u \o v)[1] = a /\ (u \o v)[2] = b
  BY <1>1, <1>2
<1> DEFINE s == <<a>> \o <<b>>
           t == <<a, b>>
<1>4. /\ s \in Seq(Byte) /\ Len(s) = 2 /\ s[1] = a /\ s[2] = b
      /\ t \in Seq(Byte) /\ Len(t) = 2 /\ t[1] = a /\ t[2] = b
  BY <1>2, <1>3
<1> HIDE DEF s, t
<1>5. \A i \in 1 .. Len(s) : s[i] = t[i]
  BY <1>4
<1>6. s = t
  BY <1>4, <1>5, SeqEqual
<1>7. QED
  BY <1>6 DEF s, t

\* The bytes of a key.
LEMMA BytesLemma ==
  /\ MakeBytes("a") = <<30>> /\ BreakBytes("a") = <<158>>
  /\ MakeBytes("enter") = <<28>> /\ BreakBytes("enter") = <<156>>
  /\ MakeBytes("shift_l") = <<42>> /\ BreakBytes("shift_l") = <<170>>
  /\ MakeBytes("shift_r") = <<54>> /\ BreakBytes("shift_r") = <<182>>
  /\ MakeBytes("alt_l") = <<56>> /\ BreakBytes("alt_l") = <<184>>
  /\ MakeBytes("caps") = <<58>> /\ BreakBytes("caps") = <<186>>
  /\ MakeBytes("num") = <<69>> /\ BreakBytes("num") = <<197>>
  /\ MakeBytes("f1") = <<59>> /\ BreakBytes("f1") = <<187>>
  /\ MakeBytes("f2") = <<60>> /\ BreakBytes("f2") = <<188>>
  /\ MakeBytes("pad_up") = <<72>> /\ BreakBytes("pad_up") = <<200>>
  /\ MakeBytes("up") = <<224, 72>> /\ BreakBytes("up") = <<224, 200>>
  /\ MakeBytes("alt_r") = <<224, 56>> /\ BreakBytes("alt_r") = <<224, 184>>
  /\ MakeBytes("print") = PrintMake /\ BreakBytes("print") = PrintBreak
  /\ MakeBytes("pause") = PauseBreak /\ BreakBytes("pause") = <<>>
<1>1. ASSUME NEW k, k # "print", k # "pause", NEW c \in 0 .. 127, MakeBytes(k) = <<c>>
      PROVE  BreakBytes(k) = <<c + 128>>
  BY <1>1 DEF BreakBytes
<1>2. ASSUME NEW k, k # "print", k # "pause", NEW c \in 0 .. 127, MakeBytes(k) = <<224, c>>
      PROVE  BreakBytes(k) = <<224, c + 128>>
  <2>1. /\ DOMAIN MakeBytes(k) = {1, 2} /\ Len(MakeBytes(k)) = 2
        /\ MakeBytes(k)[1] = 224 /\ MakeBytes(k)[2] = c
    BY <1>2
  <2>2. BreakBytes(k) = [i \in {1, 2} |-> IF i = 2 THEN c + 128 ELSE 224]
    BY <1>2, <2>1 DEF BreakBytes
  <2>3. QED
    BY <2>2
<1>3. MakeBytes("a") = <<30>>
  BY CodeLemma DEF MakeBytes, Plain
<1>4. MakeBytes("enter") = <<28>>
  BY CodeLemma DEF MakeBytes, Plain
<1>5. MakeBytes("shift_l") = <<42>>
  BY CodeLemma DEF MakeBytes, Plain
<1>6. MakeBytes("shift_r") = <<54>>
  BY CodeLemma DEF MakeBytes, Plain
<1>7. MakeBytes("alt_l") = <<56>>
  BY CodeLemma DEF MakeBytes, Plain
<1>8. MakeBytes("caps") = <<58>>
  BY CodeLemma DEF MakeBytes, Plain
<1>9. MakeBytes("num") = <<69>>
  BY CodeLemma DEF MakeBytes, Plain
<1>10. MakeBytes("f1") = <<59>>
  BY CodeLemma DEF MakeBytes, Plain
<1>11. MakeBytes("f2") = <<60>>
  BY CodeLemma DEF MakeBytes, Plain
<1>12. MakeBytes("pad_up") = <<72>>
  BY CodeLemma DEF MakeBytes, Plain
<1>13. MakeBytes("up") = <<224, 72>>
  <2>1. Plain("up") = <<72>>
    BY CodeLemma DEF Plain
  <2>2. MakeBytes("up") = <<224>> \o Plain("up")
    BY DEF MakeBytes
  <2>3. 224 \in Byte /\ 72 \in Byte
    BY DEF Byte
  <2>4. <<224>> \o <<72>> = <<224, 72>>
    BY <2>3, TwoLemma
  <2>5. QED
    BY <2>1, <2>2, <2>4
<1>14. MakeBytes("alt_r") = <<224, 56>>
  <2>1. Plain("alt") = <<56>>
    BY CodeLemma DEF Plain
  <2>2. MakeBytes("alt_r") = <<224>> \o Plain("alt")
    BY DEF MakeBytes
  <2>3. 224 \in Byte /\ 56 \in Byte
    BY DEF Byte
  <2>4. <<224>> \o <<56>> = <<224, 56>>
    BY <2>3, TwoLemma
  <2>5. QED
    BY <2>1, <2>2, <2>4
<1>15. /\ MakeBytes("print") = PrintMake /\ BreakBytes("print") = PrintBreak
      /\ MakeBytes("pause") = PauseBreak /\ BreakBytes("pause") = <<>>
  BY DEF MakeBytes, BreakBytes
<1>16. BreakBytes("a") = <<158>>
  <2>1. 30 \in 0 .. 127 /\ 30 + 128 = 158
    OBVIOUS
  <2>2. QED
    BY <1>1, <1>3, <2>1
<1>17. BreakBytes("enter") = <<156>>
  <2>1. 28 \in 0 .. 127 /\ 28 + 128 = 156
    OBVIOUS
  <2>2. QED
    BY <1>1, <1>4, <2>1
<1>18. BreakBytes("shift_l") = <<170>>
  <2>1. 42 \in 0 .. 127 /\ 42 + 128 = 170
    OBVIOUS
  <2>2. QED
    BY <1>1, <1>5, <2>1
<1>19. BreakBytes("shift_r") = <<182>>
  <2>1. 54 \in 0 .. 127 /\ 54 + 128 = 182
    OBVIOUS
  <2>2. QED
    BY <1>1, <1>6, <2>1
<1>20. BreakBytes("alt_l") = <<184>>
  <2>1. 56 \in 0 .. 127 /\ 56 + 128 = 184
    OBVIOUS
  <2>2. QED
    BY <1>1, <1>7, <2>1
<1>21. BreakBytes("caps") = <<186>>
  <2>1. 58 \in 0 .. 127 /\ 58 + 128 = 186
    OBVIOUS
  <2>2. QED
    BY <1>1, <1>8, <2>1
<1>22. BreakBytes("num") = <<197>>
  <2>1. 69 \in 0 .. 127 /\ 69 + 128 = 197
    OBVIOUS
  <2>2. QED
    BY <1>1, <1>9, <2>1
<1>23. BreakBytes("f1") = <<187>>
  <2>1. 59 \in 0 .. 127 /\ 59 + 128 = 187
    OBVIOUS
  <2>2. QED
    BY <1>1, <1>10, <2>1
<1>24. BreakBytes("f2") = <<188>>
  <2>1. 60 \in 0 .. 127 /\ 60 + 128 = 188
    OBVIOUS
  <2>2. QED
    BY <1>1, <1>11, <2>1
<1>25. BreakBytes("pad_up") = <<200>>
  <2>1. 72 \in 0 .. 127 /\ 72 + 128 = 200
    OBVIOUS
  <2>2. QED
    BY <1>1, <1>12, <2>1
<1>26. BreakBytes("up") = <<224, 200>>
  <2>1. 72 \in 0 .. 127 /\ 72 + 128 = 200
    OBVIOUS
  <2>2. QED
    BY <1>2, <1>13, <2>1
<1>27. BreakBytes("alt_r") = <<224, 184>>
  <2>1. 56 \in 0 .. 127 /\ 56 + 128 = 184
    OBVIOUS
  <2>2. QED
    BY <1>2, <1>14, <2>1
<1>28. QED
  BY <1>3, <1>4, <1>5, <1>6, <1>7, <1>8, <1>9, <1>10, <1>11, <1>12, <1>13, <1>14,
     <1>15, <1>16, <1>17, <1>18, <1>19, <1>20, <1>21, <1>22, <1>23, <1>24, <1>25, <1>26, <1>27

\* How a stroke of one byte, or of two, is read.
LEMMA ScanLemma ==
  ASSUME NEW c \in Byte, c \notin {224, 225}
  PROVE  /\ <<c>> \in Strokes /\ <<c>> \notin {PrintMake, PrintBreak, PauseBreak}
         /\ scan_code(<<c>>) = c /\ ~ code_with_E0(<<c>>)
<1>1. <<c>> \in Seq(Byte) /\ Len(<<c>>) = 1 /\ <<c>>[1] = c
  OBVIOUS
<1>2. <<c>> \notin {PrintMake, PrintBreak, PauseBreak}
  BY <1>1, LongBytes
<1>3. <<c>> \in Strokes
  BY DEF Strokes
<1>4. Last(<<c>>) = c
  BY <1>1 DEF Last
<1>5. QED
  BY <1>1, <1>2, <1>3, <1>4 DEF scan_code, code_with_E0

\* The same of a byte after E0.
LEMMA ScanE0Lemma ==
  ASSUME NEW c \in Byte, c \notin {42, 183}
  PROVE  /\ <<224, c>> \in Strokes /\ <<224, c>> \notin {PrintMake, PrintBreak, PauseBreak}
         /\ scan_code(<<224, c>>) = c /\ code_with_E0(<<224, c>>)
<1>1. /\ <<224, c>> \in Seq(Byte) /\ Len(<<224, c>>) = 2 /\ <<224, c>>[1] = 224 /\ <<224, c>>[2] = c
  BY DEF Byte
<1>2. <<224, c>> \notin {PrintMake, PrintBreak, PauseBreak}
  BY <1>1, LongBytes
<1>3. <<224, c>> \in Strokes
  BY DEF Strokes
<1>4. Last(<<224, c>>) = c
  BY <1>1 DEF Last
<1>5. QED
  BY <1>1, <1>2, <1>3, <1>4 DEF scan_code, code_with_E0

\* Which key they are.
LEMMA KeyLemma ==
  ASSUME NEW m, m.shift_l \in BOOLEAN, m.shift_r \in BOOLEAN, m.caps_lock \in BOOLEAN,
         NEW c \in Byte, c \notin {224, 225}
  PROVE  /\ Made(<<c>>) <=> c < 128
         /\ KeyWith(m, <<c>>) =
              KeyAt(c, IF IF KeyAt(c, 0) = "a" THEN (m.shift_l \/ m.shift_r) # m.caps_lock
                          ELSE m.shift_l \/ m.shift_r THEN 1 ELSE 0)
<1>1. /\ <<c>> \notin {PrintMake, PrintBreak, PauseBreak}
      /\ scan_code(<<c>>) = c /\ ~ code_with_E0(<<c>>)
  BY ScanLemma
<1>2. QED
  BY <1>1 DEF KeyWith, ColumnWith, Made

\* After E0 it is the third column, whatever the shifts.
LEMMA KeyE0Lemma ==
  ASSUME NEW m, NEW c \in Byte, c \notin {42, 183}
  PROVE  (Made(<<224, c>>) <=> c < 128) /\ KeyWith(m, <<224, c>>) = KeyAt(c, 2)
<1>1. /\ <<224, c>> \notin {PrintMake, PrintBreak, PauseBreak}
      /\ scan_code(<<224, c>>) = c /\ code_with_E0(<<224, c>>)
  BY ScanE0Lemma
<1>2. QED
  BY <1>1 DEF KeyWith, ColumnWith, Made

\* The key that TTY finds for a key of the user.
Found(m, k) ==
  LET shift == m.shift_l \/ m.shift_r
  IN CASE k = "a" -> IF shift # m.caps_lock THEN "A" ELSE "a"
       [] k = "enter" -> "nl"
       [] k = "pad_up" -> IF shift THEN "8" ELSE "pad_up"
       [] k \in {"print", "pause"} -> "none"
       [] OTHER -> k

\* A key of one byte, pressed and released.
LEMMA OneLemma ==
  ASSUME NEW m \in Locks, NEW c \in 0 .. 95, NEW K0, NEW K1,
         \A x \in {c, c + 128} : KeyAt(x, 0) = K0 /\ KeyAt(x, 1) = K1,
         NEW K, K = IF IF K0 = "a" THEN (m.shift_l \/ m.shift_r) # m.caps_lock ELSE m.shift_l \/ m.shift_r
                    THEN K1 ELSE K0
  PROVE  /\ <<c>> \in Strokes /\ Made(<<c>>) /\ KeyWith(m, <<c>>) = K
         /\ <<c + 128>> \in Strokes /\ ~ Made(<<c + 128>>) /\ KeyWith(m, <<c + 128>>) = K
<1>1. m.shift_l \in BOOLEAN /\ m.shift_r \in BOOLEAN /\ m.caps_lock \in BOOLEAN
  BY DEF Locks
<1>2. ASSUME NEW x \in {c, c + 128}
      PROVE  <<x>> \in Strokes /\ (Made(<<x>>) <=> x < 128) /\ KeyWith(m, <<x>>) = K
  <2>1. x \in Byte /\ x \notin {224, 225}
    BY DEF Byte
  <2>2. <<x>> \in Strokes
    BY <2>1, ScanLemma
  <2>3. Made(<<x>>) <=> x < 128
    BY <1>1, <2>1, KeyLemma
  <2>4. KeyWith(m, <<x>>) = KeyAt(x, IF IF KeyAt(x, 0) = "a" THEN (m.shift_l \/ m.shift_r) # m.caps_lock
                                      ELSE m.shift_l \/ m.shift_r THEN 1 ELSE 0)
    BY <1>1, <2>1, KeyLemma
  <2>5. KeyAt(x, 0) = K0 /\ KeyAt(x, 1) = K1
    OBVIOUS
  <2>6. KeyWith(m, <<x>>) = K
    BY <2>4, <2>5
  <2>7. QED
    BY <2>2, <2>3, <2>6
<1>3. c \in {c, c + 128} /\ c + 128 \in {c, c + 128} /\ c < 128 /\ ~ c + 128 < 128
  OBVIOUS
<1>4. QED
  BY <1>2, <1>3

\* A key of two bytes, pressed and released.
LEMMA E0Lemma ==
  ASSUME NEW m \in Locks, NEW c \in 0 .. 95, c # 42, c # 55, NEW K,
         \A x \in {c, c + 128} : KeyAt(x, 2) = K
  PROVE  /\ <<224, c>> \in Strokes /\ Made(<<224, c>>) /\ KeyWith(m, <<224, c>>) = K
         /\ <<224, c + 128>> \in Strokes /\ ~ Made(<<224, c + 128>>) /\ KeyWith(m, <<224, c + 128>>) = K
<1>1. m.shift_l \in BOOLEAN /\ m.shift_r \in BOOLEAN /\ m.caps_lock \in BOOLEAN
  BY DEF Locks
<1>2. ASSUME NEW x \in {c, c + 128}
      PROVE  <<224, x>> \in Strokes /\ (Made(<<224, x>>) <=> x < 128) /\ KeyWith(m, <<224, x>>) = K
  <2>1. x \in Byte /\ x \notin {42, 183}
    BY DEF Byte
  <2>2. <<224, x>> \in Strokes
    BY <2>1, ScanE0Lemma
  <2>3. (Made(<<224, x>>) <=> x < 128) /\ KeyWith(m, <<224, x>>) = KeyAt(x, 2)
    BY <2>1, KeyE0Lemma
  <2>4. QED
    BY <2>2, <2>3
<1>3. c \in {c, c + 128} /\ c + 128 \in {c, c + 128} /\ c < 128 /\ ~ c + 128 < 128
  OBVIOUS
<1>4. QED
  BY <1>2, <1>3

\* The bytes of each key of the user are a stroke, and TTY finds that key.
LEMMA FoundLemma ==
  ASSUME NEW m \in Locks, NEW k \in AllKeys
  PROVE  /\ MakeBytes(k) \in Strokes /\ KeyWith(m, MakeBytes(k)) = Found(m, k)
         /\ k \notin {"print", "pause"} => Made(MakeBytes(k))
         /\ k # "pause" => BreakBytes(k) \in Strokes /\ KeyWith(m, BreakBytes(k)) = Found(m, k)
         /\ k \notin {"print", "pause"} => ~ Made(BreakBytes(k))
<1>1. m.shift_l \in BOOLEAN /\ m.shift_r \in BOOLEAN /\ m.caps_lock \in BOOLEAN
  BY DEF Locks
<1>2. 0 \in 0 .. 1 /\ 1 \in 0 .. 1 /\ 0 \in 0 .. 2 /\ 1 \in 0 .. 2
  OBVIOUS
<1>3. CASE k = "a"
  <2>1. 30 \in 0 .. 95 /\ 30 + 128 = 158
    OBVIOUS
  <2>2. \A x \in {30, 30 + 128} : x \in Nat /\ x % 128 = 30
    OBVIOUS
  <2>3. \A x \in {30, 30 + 128} : KeyAt(x, 0) = "a" /\ KeyAt(x, 1) = "A"
    BY <1>2, <2>2, ColumnLemma
  <2>4. Found(m, k) = IF IF "a" = "a" THEN (m.shift_l \/ m.shift_r) # m.caps_lock
                                       ELSE m.shift_l \/ m.shift_r THEN "A" ELSE "a"
    BY <1>1, <1>3, SMTT(30) DEF Found
  <2>5. /\ <<30>> \in Strokes /\ Made(<<30>>) /\ KeyWith(m, <<30>>) = Found(m, k)
        /\ <<30 + 128>> \in Strokes /\ ~ Made(<<30 + 128>>) /\ KeyWith(m, <<30 + 128>>) = Found(m, k)
    BY <2>1, <2>3, <2>4, OneLemma, SMTT(30)
  <2>6. MakeBytes(k) = <<30>> /\ BreakBytes(k) = <<158>>
    BY <1>3, BytesLemma
  <2>7. QED
    BY <1>3, <2>1, <2>4, <2>5, <2>6
<1>4. CASE k = "enter"
  <2>1. 28 \in 0 .. 95 /\ 28 + 128 = 156
    OBVIOUS
  <2>2. \A x \in {28, 28 + 128} : x \in Nat /\ x % 128 = 28
    OBVIOUS
  <2>3. \A x \in {28, 28 + 128} : KeyAt(x, 0) = "nl" /\ KeyAt(x, 1) = "nl"
    BY <1>2, <2>2, ColumnLemma
  <2>4. Found(m, k) = IF IF "nl" = "a" THEN (m.shift_l \/ m.shift_r) # m.caps_lock
                                       ELSE m.shift_l \/ m.shift_r THEN "nl" ELSE "nl"
    BY <1>1, <1>4, SMTT(30) DEF Found
  <2>5. /\ <<28>> \in Strokes /\ Made(<<28>>) /\ KeyWith(m, <<28>>) = Found(m, k)
        /\ <<28 + 128>> \in Strokes /\ ~ Made(<<28 + 128>>) /\ KeyWith(m, <<28 + 128>>) = Found(m, k)
    BY <2>1, <2>3, <2>4, OneLemma, SMTT(30)
  <2>6. MakeBytes(k) = <<28>> /\ BreakBytes(k) = <<156>>
    BY <1>4, BytesLemma
  <2>7. QED
    BY <1>4, <2>1, <2>4, <2>5, <2>6
<1>5. CASE k = "shift_l"
  <2>1. 42 \in 0 .. 95 /\ 42 + 128 = 170
    OBVIOUS
  <2>2. \A x \in {42, 42 + 128} : x \in Nat /\ x % 128 = 42
    OBVIOUS
  <2>3. \A x \in {42, 42 + 128} : KeyAt(x, 0) = "shift_l" /\ KeyAt(x, 1) = "shift_l"
    BY <1>2, <2>2, ColumnLemma
  <2>4. Found(m, k) = IF IF "shift_l" = "a" THEN (m.shift_l \/ m.shift_r) # m.caps_lock
                                       ELSE m.shift_l \/ m.shift_r THEN "shift_l" ELSE "shift_l"
    BY <1>1, <1>5, SMTT(30) DEF Found
  <2>5. /\ <<42>> \in Strokes /\ Made(<<42>>) /\ KeyWith(m, <<42>>) = Found(m, k)
        /\ <<42 + 128>> \in Strokes /\ ~ Made(<<42 + 128>>) /\ KeyWith(m, <<42 + 128>>) = Found(m, k)
    BY <2>1, <2>3, <2>4, OneLemma, SMTT(30)
  <2>6. MakeBytes(k) = <<42>> /\ BreakBytes(k) = <<170>>
    BY <1>5, BytesLemma
  <2>7. QED
    BY <1>5, <2>1, <2>4, <2>5, <2>6
<1>6. CASE k = "shift_r"
  <2>1. 54 \in 0 .. 95 /\ 54 + 128 = 182
    OBVIOUS
  <2>2. \A x \in {54, 54 + 128} : x \in Nat /\ x % 128 = 54
    OBVIOUS
  <2>3. \A x \in {54, 54 + 128} : KeyAt(x, 0) = "shift_r" /\ KeyAt(x, 1) = "shift_r"
    BY <1>2, <2>2, ColumnLemma
  <2>4. Found(m, k) = IF IF "shift_r" = "a" THEN (m.shift_l \/ m.shift_r) # m.caps_lock
                                       ELSE m.shift_l \/ m.shift_r THEN "shift_r" ELSE "shift_r"
    BY <1>1, <1>6, SMTT(30) DEF Found
  <2>5. /\ <<54>> \in Strokes /\ Made(<<54>>) /\ KeyWith(m, <<54>>) = Found(m, k)
        /\ <<54 + 128>> \in Strokes /\ ~ Made(<<54 + 128>>) /\ KeyWith(m, <<54 + 128>>) = Found(m, k)
    BY <2>1, <2>3, <2>4, OneLemma, SMTT(30)
  <2>6. MakeBytes(k) = <<54>> /\ BreakBytes(k) = <<182>>
    BY <1>6, BytesLemma
  <2>7. QED
    BY <1>6, <2>1, <2>4, <2>5, <2>6
<1>7. CASE k = "alt_l"
  <2>1. 56 \in 0 .. 95 /\ 56 + 128 = 184
    OBVIOUS
  <2>2. \A x \in {56, 56 + 128} : x \in Nat /\ x % 128 = 56
    OBVIOUS
  <2>3. \A x \in {56, 56 + 128} : KeyAt(x, 0) = "alt_l" /\ KeyAt(x, 1) = "alt_l"
    BY <1>2, <2>2, ColumnLemma
  <2>4. Found(m, k) = IF IF "alt_l" = "a" THEN (m.shift_l \/ m.shift_r) # m.caps_lock
                                       ELSE m.shift_l \/ m.shift_r THEN "alt_l" ELSE "alt_l"
    BY <1>1, <1>7, SMTT(30) DEF Found
  <2>5. /\ <<56>> \in Strokes /\ Made(<<56>>) /\ KeyWith(m, <<56>>) = Found(m, k)
        /\ <<56 + 128>> \in Strokes /\ ~ Made(<<56 + 128>>) /\ KeyWith(m, <<56 + 128>>) = Found(m, k)
    BY <2>1, <2>3, <2>4, OneLemma, SMTT(30)
  <2>6. MakeBytes(k) = <<56>> /\ BreakBytes(k) = <<184>>
    BY <1>7, BytesLemma
  <2>7. QED
    BY <1>7, <2>1, <2>4, <2>5, <2>6
<1>8. CASE k = "caps"
  <2>1. 58 \in 0 .. 95 /\ 58 + 128 = 186
    OBVIOUS
  <2>2. \A x \in {58, 58 + 128} : x \in Nat /\ x % 128 = 58
    OBVIOUS
  <2>3. \A x \in {58, 58 + 128} : KeyAt(x, 0) = "caps" /\ KeyAt(x, 1) = "caps"
    BY <1>2, <2>2, ColumnLemma
  <2>4. Found(m, k) = IF IF "caps" = "a" THEN (m.shift_l \/ m.shift_r) # m.caps_lock
                                       ELSE m.shift_l \/ m.shift_r THEN "caps" ELSE "caps"
    BY <1>1, <1>8, SMTT(30) DEF Found
  <2>5. /\ <<58>> \in Strokes /\ Made(<<58>>) /\ KeyWith(m, <<58>>) = Found(m, k)
        /\ <<58 + 128>> \in Strokes /\ ~ Made(<<58 + 128>>) /\ KeyWith(m, <<58 + 128>>) = Found(m, k)
    BY <2>1, <2>3, <2>4, OneLemma, SMTT(30)
  <2>6. MakeBytes(k) = <<58>> /\ BreakBytes(k) = <<186>>
    BY <1>8, BytesLemma
  <2>7. QED
    BY <1>8, <2>1, <2>4, <2>5, <2>6
<1>9. CASE k = "num"
  <2>1. 69 \in 0 .. 95 /\ 69 + 128 = 197
    OBVIOUS
  <2>2. \A x \in {69, 69 + 128} : x \in Nat /\ x % 128 = 69
    OBVIOUS
  <2>3. \A x \in {69, 69 + 128} : KeyAt(x, 0) = "num" /\ KeyAt(x, 1) = "num"
    BY <1>2, <2>2, ColumnLemma
  <2>4. Found(m, k) = IF IF "num" = "a" THEN (m.shift_l \/ m.shift_r) # m.caps_lock
                                       ELSE m.shift_l \/ m.shift_r THEN "num" ELSE "num"
    BY <1>1, <1>9, SMTT(30) DEF Found
  <2>5. /\ <<69>> \in Strokes /\ Made(<<69>>) /\ KeyWith(m, <<69>>) = Found(m, k)
        /\ <<69 + 128>> \in Strokes /\ ~ Made(<<69 + 128>>) /\ KeyWith(m, <<69 + 128>>) = Found(m, k)
    BY <2>1, <2>3, <2>4, OneLemma, SMTT(30)
  <2>6. MakeBytes(k) = <<69>> /\ BreakBytes(k) = <<197>>
    BY <1>9, BytesLemma
  <2>7. QED
    BY <1>9, <2>1, <2>4, <2>5, <2>6
<1>10. CASE k = "f1"
  <2>1. 59 \in 0 .. 95 /\ 59 + 128 = 187
    OBVIOUS
  <2>2. \A x \in {59, 59 + 128} : x \in Nat /\ x % 128 = 59
    OBVIOUS
  <2>3. \A x \in {59, 59 + 128} : KeyAt(x, 0) = "f1" /\ KeyAt(x, 1) = "f1"
    BY <1>2, <2>2, ColumnLemma
  <2>4. Found(m, k) = IF IF "f1" = "a" THEN (m.shift_l \/ m.shift_r) # m.caps_lock
                                       ELSE m.shift_l \/ m.shift_r THEN "f1" ELSE "f1"
    BY <1>1, <1>10, SMTT(30) DEF Found
  <2>5. /\ <<59>> \in Strokes /\ Made(<<59>>) /\ KeyWith(m, <<59>>) = Found(m, k)
        /\ <<59 + 128>> \in Strokes /\ ~ Made(<<59 + 128>>) /\ KeyWith(m, <<59 + 128>>) = Found(m, k)
    BY <2>1, <2>3, <2>4, OneLemma, SMTT(30)
  <2>6. MakeBytes(k) = <<59>> /\ BreakBytes(k) = <<187>>
    BY <1>10, BytesLemma
  <2>7. QED
    BY <1>10, <2>1, <2>4, <2>5, <2>6
<1>11. CASE k = "f2"
  <2>1. 60 \in 0 .. 95 /\ 60 + 128 = 188
    OBVIOUS
  <2>2. \A x \in {60, 60 + 128} : x \in Nat /\ x % 128 = 60
    OBVIOUS
  <2>3. \A x \in {60, 60 + 128} : KeyAt(x, 0) = "f2" /\ KeyAt(x, 1) = "f2"
    BY <1>2, <2>2, ColumnLemma
  <2>4. Found(m, k) = IF IF "f2" = "a" THEN (m.shift_l \/ m.shift_r) # m.caps_lock
                                       ELSE m.shift_l \/ m.shift_r THEN "f2" ELSE "f2"
    BY <1>1, <1>11, SMTT(30) DEF Found
  <2>5. /\ <<60>> \in Strokes /\ Made(<<60>>) /\ KeyWith(m, <<60>>) = Found(m, k)
        /\ <<60 + 128>> \in Strokes /\ ~ Made(<<60 + 128>>) /\ KeyWith(m, <<60 + 128>>) = Found(m, k)
    BY <2>1, <2>3, <2>4, OneLemma, SMTT(30)
  <2>6. MakeBytes(k) = <<60>> /\ BreakBytes(k) = <<188>>
    BY <1>11, BytesLemma
  <2>7. QED
    BY <1>11, <2>1, <2>4, <2>5, <2>6
<1>12. CASE k = "pad_up"
  <2>1. 72 \in 0 .. 95 /\ 72 + 128 = 200
    OBVIOUS
  <2>2. \A x \in {72, 72 + 128} : x \in Nat /\ x % 128 = 72
    OBVIOUS
  <2>3. \A x \in {72, 72 + 128} : KeyAt(x, 0) = "pad_up" /\ KeyAt(x, 1) = "8"
    BY <1>2, <2>2, ColumnLemma
  <2>4. Found(m, k) = IF m.shift_l \/ m.shift_r THEN "8" ELSE "pad_up"
    BY <1>12 DEF Found
  <2>5. ASSUME NEW x \in {72, 72 + 128}
        PROVE  <<x>> \in Strokes /\ (Made(<<x>>) <=> x < 128) /\ KeyWith(m, <<x>>) = Found(m, k)
    <3>1. x \in Byte /\ x \notin {224, 225}
      BY DEF Byte
    <3>2. <<x>> \in Strokes
      BY <3>1, ScanLemma
    <3>3. Made(<<x>>) <=> x < 128
      BY <1>1, <3>1, KeyLemma
    <3>4. KeyWith(m, <<x>>) = KeyAt(x, IF IF KeyAt(x, 0) = "a" THEN (m.shift_l \/ m.shift_r) # m.caps_lock
                                          ELSE m.shift_l \/ m.shift_r THEN 1 ELSE 0)
      BY <1>1, <3>1, KeyLemma
    <3>5. KeyAt(x, 0) = "pad_up" /\ KeyAt(x, 1) = "8"
      BY <2>3
    <3>6. KeyWith(m, <<x>>) = Found(m, k)
      BY <2>4, <3>4, <3>5
    <3>7. QED
      BY <3>2, <3>3, <3>6
  <2>6. 72 < 128 /\ ~ 72 + 128 < 128 /\ 72 \in {72, 72 + 128} /\ 72 + 128 \in {72, 72 + 128}
    OBVIOUS
  <2>7. /\ <<72>> \in Strokes /\ Made(<<72>>) /\ KeyWith(m, <<72>>) = Found(m, k)
        /\ <<72 + 128>> \in Strokes /\ ~ Made(<<72 + 128>>) /\ KeyWith(m, <<72 + 128>>) = Found(m, k)
    BY <2>5, <2>6
  <2>8. MakeBytes(k) = <<72>> /\ BreakBytes(k) = <<200>>
    BY <1>12, BytesLemma
  <2>9. QED
    BY <1>12, <2>1, <2>7, <2>8
<1>13. CASE k = "up"
  <2>1. 72 \in 0 .. 95 /\ 72 + 128 = 200
    OBVIOUS
  <2>2. \A x \in {72, 72 + 128} : x \in Nat /\ x % 128 = 72
    OBVIOUS
  <2>3. \A x \in {72, 72 + 128} : KeyAt(x, 2) = "up"
    BY <1>2, <2>2, ColumnLemma
  <2>4. Found(m, k) = "up"
    BY <1>13 DEF Found
  <2>5. /\ <<224, 72>> \in Strokes /\ Made(<<224, 72>>) /\ KeyWith(m, <<224, 72>>) = "up"
        /\ <<224, 72 + 128>> \in Strokes /\ ~ Made(<<224, 72 + 128>>) /\ KeyWith(m, <<224, 72 + 128>>) = "up"
    BY <2>1, <2>3, E0Lemma
  <2>6. MakeBytes(k) = <<224, 72>> /\ BreakBytes(k) = <<224, 200>>
    BY <1>13, BytesLemma
  <2>7. QED
    BY <1>13, <2>1, <2>4, <2>5, <2>6
<1>14. CASE k = "alt_r"
  <2>1. 56 \in 0 .. 95 /\ 56 + 128 = 184
    OBVIOUS
  <2>2. \A x \in {56, 56 + 128} : x \in Nat /\ x % 128 = 56
    OBVIOUS
  <2>3. \A x \in {56, 56 + 128} : KeyAt(x, 2) = "alt_r"
    BY <1>2, <2>2, ColumnLemma
  <2>4. Found(m, k) = "alt_r"
    BY <1>14 DEF Found
  <2>5. /\ <<224, 56>> \in Strokes /\ Made(<<224, 56>>) /\ KeyWith(m, <<224, 56>>) = "alt_r"
        /\ <<224, 56 + 128>> \in Strokes /\ ~ Made(<<224, 56 + 128>>) /\ KeyWith(m, <<224, 56 + 128>>) = "alt_r"
    BY <2>1, <2>3, E0Lemma
  <2>6. MakeBytes(k) = <<224, 56>> /\ BreakBytes(k) = <<224, 184>>
    BY <1>14, BytesLemma
  <2>7. QED
    BY <1>14, <2>1, <2>4, <2>5, <2>6
<1>15. CASE k = "print"
  <2>1. MakeBytes(k) = PrintMake /\ BreakBytes(k) = PrintBreak
    BY <1>15, BytesLemma
  <2>2. QED
    BY <1>15, <2>1 DEF Strokes, KeyWith, Found
<1>16. CASE k = "pause"
  <2>1. MakeBytes(k) = PauseBreak
    BY <1>16, BytesLemma
  <2>2. QED
    BY <1>16, <2>1 DEF Strokes, KeyWith, Found
<1>17. QED
  BY <1>3, <1>4, <1>5, <1>6, <1>7, <1>8, <1>9, <1>10, <1>11, <1>12, <1>13, <1>14, <1>15, <1>16 DEF AllKeys

\* The user's locks and keys.
Held(u) == [shift_l |-> "shift_l" \in u.down, shift_r |-> "shift_r" \in u.down,
            alt_l |-> u.alt, caps_lock |-> u.caps, num_lock |-> u.num]

\* The user's side of the invariant, part by part.
LEMMA HeldLemma ==
  ASSUME Expected
  PROVE  Held(user) \in Locks /\ Yours.got = meant /\ Yours.current = user.console /\ Yours.mods = Held(user)
  BY DEF Expected, Held, Locks, Yours

\* What the user expects next.
LEMMA TypeLemma ==
  ASSUME Expected, NEW k, NEW down \in BOOLEAN, NEW bytes, Type(k, down, bytes)
  PROVE  /\ user'.down = IF down THEN user.down \cup {k} ELSE user.down \ {k}
         /\ user'.alt = IF k \in {"alt_l", "alt_r"} THEN down ELSE user.alt
         /\ user'.caps = IF k = "caps" /\ down THEN ~ user.caps ELSE user.caps
         /\ user'.num = IF k = "num" /\ down THEN ~ user.num ELSE user.num
         /\ user'.console = IF down /\ Meaning(k) = k /\ k \in {"f1", "f2"} THEN k ELSE user.console
         /\ user' = [down |-> user'.down, alt |-> user'.alt, caps |-> user'.caps,
                     num |-> user'.num, console |-> user'.console]
         /\ user'.alt \in BOOLEAN /\ user'.caps \in BOOLEAN /\ user'.num \in BOOLEAN
         /\ user'.console \in Consoles
<1> DEFINE d == IF down THEN user.down \cup {k} ELSE user.down \ {k}
           a == IF k \in {"alt_l", "alt_r"} THEN down ELSE user.alt
           c == IF k = "caps" /\ down THEN ~ user.caps ELSE user.caps
           n == IF k = "num" /\ down THEN ~ user.num ELSE user.num
           s == IF down /\ Meaning(k) = k /\ k \in {"f1", "f2"} THEN k ELSE user.console
<1>1. PICK w : w = user /\ w = [down |-> w.down, alt |-> w.alt, caps |-> w.caps, num |-> w.num,
                                console |-> w.console]
  BY DEF Expected
<1>2. user' = [user EXCEPT !.down = d, !.alt = a, !.caps = c, !.num = n, !.console = s]
  BY DEF Type
<1>3. a \in BOOLEAN /\ c \in BOOLEAN /\ n \in BOOLEAN /\ s \in Consoles
  BY DEF Expected, Consoles
<1> HIDE DEF d, a, c, n, s
<1>4. user' = [down |-> d, alt |-> a, caps |-> c, num |-> n, console |-> s]
  BY <1>1, <1>2
<1>5. user'.down = d /\ user'.alt = a /\ user'.caps = c /\ user'.num = n /\ user'.console = s
  BY <1>4
<1>6. QED
  BY <1>3, <1>4, <1>5 DEF d, a, c, n, s

\* TTY's modifiers after the key.
LEMMA ModsLemma ==
  ASSUME Expected, NEW k \in AllKeys, NEW down \in BOOLEAN, NEW bytes, Type(k, down, bytes), NEW mk,
         k \in {"print", "pause"} \/ mk = down
  PROVE  ModsWith(Held(user), Found(Held(user), k), mk) = Held(user')
<1>1. PICK m \in Locks : m = Held(user)
  BY HeldLemma
<1>2. /\ m.shift_l = ("shift_l" \in user.down) /\ m.shift_r = ("shift_r" \in user.down)
      /\ m.alt_l = user.alt /\ m.caps_lock = user.caps /\ m.num_lock = user.num
      /\ m = [shift_l |-> m.shift_l, shift_r |-> m.shift_r, alt_l |-> m.alt_l,
              caps_lock |-> m.caps_lock, num_lock |-> m.num_lock]
  BY <1>1 DEF Held
<1> DEFINE x == Held(user')
<1>3. x = [shift_l |-> "shift_l" \in user'.down, shift_r |-> "shift_r" \in user'.down,
           alt_l |-> user'.alt, caps_lock |-> user'.caps, num_lock |-> user'.num]
  BY DEF Held
<1>4. /\ ("shift_l" \in user'.down) = IF k = "shift_l" THEN down ELSE m.shift_l
      /\ ("shift_r" \in user'.down) = IF k = "shift_r" THEN down ELSE m.shift_r
      /\ user'.alt = IF k \in {"alt_l", "alt_r"} THEN down ELSE m.alt_l
      /\ user'.caps = IF k = "caps" /\ down THEN ~ m.caps_lock ELSE m.caps_lock
      /\ user'.num = IF k = "num" /\ down THEN ~ m.num_lock ELSE m.num_lock
  <2>1. /\ user'.down = IF down THEN user.down \cup {k} ELSE user.down \ {k}
        /\ user'.alt = IF k \in {"alt_l", "alt_r"} THEN down ELSE user.alt
        /\ user'.caps = IF k = "caps" /\ down THEN ~ user.caps ELSE user.caps
        /\ user'.num = IF k = "num" /\ down THEN ~ user.num ELSE user.num
    BY TypeLemma, ZenonT(30)
  <2>2. QED
    BY <1>2, <2>1
<1>5. x = [shift_l |-> IF k = "shift_l" THEN down ELSE m.shift_l,
           shift_r |-> IF k = "shift_r" THEN down ELSE m.shift_r,
           alt_l |-> IF k \in {"alt_l", "alt_r"} THEN down ELSE m.alt_l,
           caps_lock |-> IF k = "caps" /\ down THEN ~ m.caps_lock ELSE m.caps_lock,
           num_lock |-> IF k = "num" /\ down THEN ~ m.num_lock ELSE m.num_lock]
  BY <1>3, <1>4
<1> HIDE DEF x
<1> DEFINE K == Found(m, k)
<1>6. CASE k \in {"a", "enter", "pad_up", "print", "pause", "up", "f1", "f2"}
  <2>1. K \in {"a", "A", "nl", "8", "pad_up", "none", "up", "f1", "f2"}
    BY <1>6 DEF Found
  <2>2. ModsWith(m, K, mk) = m
    BY <2>1 DEF ModsWith
  <2>3. x = m
    BY <1>2, <1>5, <1>6
  <2>4. QED
    BY <1>1, <2>2, <2>3 DEF x
<1>7. CASE k \in {"shift_l", "shift_r", "alt_l", "alt_r", "caps", "num"}
  <2>1. K = k /\ mk = down
    BY <1>7 DEF Found
  <2>2. ModsWith(m, k, down) = x
    <3>1. CASE k = "shift_l"
      BY <1>2, <1>5, <3>1 DEF ModsWith
    <3>2. CASE k = "shift_r"
      BY <1>2, <1>5, <3>2 DEF ModsWith
    <3>3. CASE k \in {"alt_l", "alt_r"}
      BY <1>2, <1>5, <3>3 DEF ModsWith
    <3>4. CASE k = "caps"
      BY <1>2, <1>5, <3>4 DEF ModsWith
    <3>5. CASE k = "num"
      BY <1>2, <1>5, <3>5 DEF ModsWith
    <3>6. QED
      BY <1>7, <3>1, <3>2, <3>3, <3>4, <3>5
  <2>3. QED
    BY <1>1, <2>1, <2>2 DEF x
<1>8. QED
  BY <1>6, <1>7 DEF AllKeys

\* What TTY does is what the user means.
LEMMA MeansLemma ==
  ASSUME Expected, NEW k \in AllKeys
  PROVE  LET m == Held(user)  K == Found(m, k)
         IN InProcess(K, ModsWith(m, K, TRUE)) = Meaning(k)
<1>1. PICK m \in Locks : m = Held(user)
  BY HeldLemma
<1>2. /\ m.shift_l = ("shift_l" \in user.down) /\ m.shift_r = ("shift_r" \in user.down)
      /\ m.alt_l = user.alt /\ m.caps_lock = user.caps /\ m.num_lock = user.num
      /\ user.alt \in BOOLEAN /\ user.caps \in BOOLEAN /\ user.num \in BOOLEAN
  BY <1>1 DEF Held, Expected
<1> DEFINE K == Found(m, k)
           shift == {"shift_l", "shift_r"} \cap user.down # {}
<1>3. shift = (m.shift_l \/ m.shift_r)
  BY <1>2
<1>4. CASE k \in {"a", "enter", "pad_up", "up", "f1", "f2"}
  <2>1. K \in {"a", "A", "nl", "8", "pad_up", "up", "f1", "f2"}
    BY <1>4 DEF Found
  <2>2. ModsWith(m, K, TRUE) = m
    BY <2>1 DEF ModsWith
  <2>3. InProcess(K, m) = Meaning(k)
    BY <1>2, <1>3, <1>4 DEF InProcess, Found, Meaning
  <2>4. QED
    BY <1>1, <2>2, <2>3
<1>5. CASE k \in {"print", "pause", "shift_l", "shift_r", "alt_l", "alt_r", "caps", "num"}
  <2>1. K \in {"none", "shift_l", "shift_r", "alt_l", "alt_r", "caps", "num"}
    BY <1>5 DEF Found
  <2>2. \A x : InProcess(K, x) = "none"
    BY <2>1 DEF InProcess
  <2>3. Meaning(k) = "none"
    BY <1>5 DEF Meaning
  <2>4. QED
    BY <1>1, <2>2, <2>3
<1>6. QED
  BY <1>4, <1>5 DEF AllKeys

\* The bytes of a press lead from what the user had to what the user has.
LEMMA PressLemma ==
  ASSUME Expected, NEW k \in AllKeys, Press(k)
  PROVE  MakeBytes(k) \in Strokes /\ Yours' = Read(Yours, MakeBytes(k)) /\ Expected'
<1> DEFINE s == MakeBytes(k)
           m == Held(user)
           K == Found(m, k)
           e == Meaning(k)
<1>1. Type(k, TRUE, s) /\ k \in AllKeys
  BY DEF Press
<1>2. meant' = IF e = "none" THEN meant ELSE Append(meant, [to |-> user.console, what |-> e])
  BY DEF Press
<1>3. /\ m \in Locks /\ Yours.got = meant /\ Yours.current = user.console /\ Yours.mods = m
      /\ meant \in Seq(Deeds) /\ user.console \in Consoles
  BY HeldLemma DEF Expected
<1>4. /\ user' = [down |-> user'.down, alt |-> user'.alt, caps |-> user'.caps,
                  num |-> user'.num, console |-> user'.console]
      /\ user'.alt \in BOOLEAN /\ user'.caps \in BOOLEAN /\ user'.num \in BOOLEAN
      /\ user'.console \in Consoles
      /\ user'.console = IF e = k /\ k \in {"f1", "f2"} THEN k ELSE user.console
  BY <1>1, TypeLemma
<1>5. s \in Strokes /\ KeyWith(m, s) = K /\ (k \notin {"print", "pause"} => Made(s))
  BY <1>3, FoundLemma
<1>6. Made(s) \in BOOLEAN
  BY DEF Made
<1>7. InProcess(K, ModsWith(m, K, TRUE)) = e
  BY MeansLemma
<1> HIDE DEF s, m
<1>8. k \in {"print", "pause"} \/ Made(s) = TRUE
  BY <1>5, <1>6
<1>9. ModsWith(m, K, Made(s)) = Held(user')
  BY <1>1, <1>8, ModsLemma DEF m
<1>10. Deed(ModsWith(m, K, Made(s)), K, Made(s)) = e
  <2>1. CASE k \in {"print", "pause"}
    <3>1. K = "none" /\ e = "none"
      BY <2>1 DEF Found, Meaning
    <3>2. QED
      BY <3>1 DEF Deed, InProcess
  <2>2. CASE Made(s) = TRUE
    BY <1>7, <2>2 DEF Deed
  <2>3. QED
    BY <1>8, <2>1, <2>2
<1>11. Read(Yours, s) = Done(Yours, Held(user'), e)
  BY <1>3, <1>5, <1>9, <1>10 DEF Read
<1>12. e \in {"f1", "f2"} <=> e = k /\ k \in {"f1", "f2"}
  BY DEF Meaning
<1>13. Yours' = [mods |-> Held(user'), current |-> user'.console, got |-> meant']
  BY DEF Yours, Held
<1>14. Done(Yours, Held(user'), e) = [mods |-> Held(user'), current |-> user'.console, got |-> meant']
  BY <1>2, <1>3, <1>4, <1>12 DEF Done
<1>15. meant' \in Seq(Deeds)
  <2>1. e \in Effects
    BY <1>7, DeedLemma
  <2>2. PICK d \in Deeds : d = [to |-> user.console, what |-> e]
    BY <1>3, <2>1 DEF Deeds
  <2>3. QED
    BY <1>2, <1>3, <2>2
<1>16. QED
  BY <1>4, <1>5, <1>11, <1>13, <1>14, <1>15 DEF Expected, s

\* And so do those of a release.  Pause has none.
LEMMA ReleaseLemma ==
  ASSUME Expected, NEW k \in AllKeys, Release(k)
  PROVE  /\ k # "pause" => BreakBytes(k) \in Strokes /\ Yours' = Read(Yours, BreakBytes(k))
         /\ k = "pause" => BreakBytes(k) = <<>> /\ Yours' = Yours
         /\ Expected'
<1> DEFINE s == BreakBytes(k)
           m == Held(user)
           K == Found(m, k)
<1>1. Type(k, FALSE, s) /\ FALSE \in BOOLEAN
  BY DEF Release
<1>2. meant' = meant
  BY DEF Release
<1>3. /\ m \in Locks /\ Yours.got = meant /\ Yours.current = user.console /\ Yours.mods = m
      /\ meant \in Seq(Deeds) /\ user.console \in Consoles
      /\ Yours = [mods |-> m, current |-> user.console, got |-> meant]
  BY HeldLemma DEF Expected, Yours, Held
<1>4. /\ user' = [down |-> user'.down, alt |-> user'.alt, caps |-> user'.caps,
                  num |-> user'.num, console |-> user'.console]
      /\ user'.alt \in BOOLEAN /\ user'.caps \in BOOLEAN /\ user'.num \in BOOLEAN
      /\ user'.console \in Consoles
      /\ user'.console = user.console
  BY <1>1, TypeLemma
<1>5. Yours' = [mods |-> Held(user'), current |-> user.console, got |-> meant]
  BY <1>2, <1>4 DEF Yours, Held
<1>6. Expected'
  BY <1>2, <1>3, <1>4 DEF Expected
<1>7. CASE k # "pause"
  <2>1. s \in Strokes /\ KeyWith(m, s) = K /\ (k # "print" => ~ Made(s))
    BY <1>3, <1>7, FoundLemma
  <2>2. Made(s) \in BOOLEAN
    BY DEF Made
  <2> HIDE DEF s, m
  <2>3. k \in {"print", "pause"} \/ Made(s) = FALSE
    BY <2>1, <2>2
  <2>4. ModsWith(m, K, Made(s)) = Held(user')
    BY <1>1, <2>3, ModsLemma DEF m
  <2>5. Deed(ModsWith(m, K, Made(s)), K, Made(s)) = "none"
    <3>1. CASE k \in {"print", "pause"}
      <4>1. K = "none"
        BY <3>1 DEF Found
      <4>2. QED
        BY <4>1 DEF Deed, InProcess
    <3>2. CASE Made(s) = FALSE
      BY <3>2 DEF Deed
    <3>3. QED
      BY <2>3, <3>1, <3>2
  <2>6. Read(Yours, s) = Done(Yours, Held(user'), "none")
    BY <1>3, <2>1, <2>4, <2>5 DEF Read
  <2>7. Done(Yours, Held(user'), "none") = [mods |-> Held(user'), current |-> user.console, got |-> meant]
    BY <1>3 DEF Done
  <2>8. QED
    BY <1>5, <1>6, <1>7, <2>1, <2>6, <2>7 DEF s
<1>8. CASE k = "pause"
  <2>1. s = <<>>
    BY <1>8, BytesLemma
  <2>2. K = "none" /\ \A x : ModsWith(x, "none", FALSE) = x
    BY <1>8 DEF Found, ModsWith
  <2>3. Held(user') = m
    <3>1. ModsWith(m, K, FALSE) = Held(user')
      BY <1>1, <1>8, ModsLemma
    <3>2. QED
      BY <2>2, <3>1
  <2>4. QED
    BY <1>3, <1>5, <1>6, <1>8, <2>1, <2>3
<1>9. QED
  BY <1>7, <1>8

----------------------------------------------------------------------------
\* The bytes on their way

\* Bytes put together, in any order.
LEMMA AssocLemma == \A u, w, x \in Seq(Byte) : (u \o w) \o x = u \o (w \o x)
<1>1. SUFFICES ASSUME NEW u \in Seq(Byte), NEW w \in Seq(Byte), NEW x \in Seq(Byte)
               PROVE  (u \o w) \o x = u \o (w \o x)
  OBVIOUS
<1>2. QED
  BY ONLY ConcatAssociative, u \in Seq(Byte), w \in Seq(Byte), x \in Seq(Byte), SMTT(60)

\* A byte moves from one place to the next and stays at its place among the unread.
LEMMA MoveLemma ==
  ASSUME NEW a \in Seq(Byte), NEW b \in Seq(Byte), NEW c \in Seq(Byte), NEW h \in Byte
  PROVE  /\ <<h>> \in Seq(Byte) /\ Append(a, h) = a \o <<h>>
         /\ b # <<>> => /\ Head(b) \in Byte /\ Tail(b) \in Seq(Byte)
                        /\ Append(a, Head(b)) \in Seq(Byte)
                        /\ Append(a, Head(b)) \o Tail(b) = a \o b
         /\ (a \o b) \o Append(c, h) = ((a \o b) \o c) \o <<h>>
<1>0. \A u, w \in Seq(Byte) :
        /\ u \o w \in Seq(Byte) /\ Len(u \o w) = Len(u) + Len(w)
        /\ \A i \in 1 .. Len(u) + Len(w) : (u \o w)[i] = IF i <= Len(u) THEN u[i] ELSE w[i - Len(u)]
  BY ConcatProperties
<1>1. \A d \in Byte : <<d>> \in Seq(Byte) /\ Len(<<d>>) = 1 /\ <<d>>[1] = d
  OBVIOUS
<1>2. ASSUME NEW u \in Seq(Byte), NEW d \in Byte PROVE Append(u, d) = u \o <<d>>
  <2> DEFINE x == Append(u, d)
             w == <<d>>
             y == u \o w
  <2>1. w \in Seq(Byte) /\ Len(w) = 1 /\ w[1] = d
    BY <1>1
  <2>2. x \in Seq(Byte) /\ Len(x) = Len(u) + 1 /\ x[Len(u) + 1] = d /\ \A i \in 1 .. Len(u) : x[i] = u[i]
    OBVIOUS
  <2> HIDE DEF w, x
  <2>3. y \in Seq(Byte) /\ Len(y) = Len(u) + 1 /\ y[Len(u) + 1] = d /\ \A i \in 1 .. Len(u) : y[i] = u[i]
    <3>1. /\ y \in Seq(Byte) /\ Len(y) = Len(u) + Len(w)
          /\ \A i \in 1 .. Len(u) + Len(w) : y[i] = IF i <= Len(u) THEN u[i] ELSE w[i - Len(u)]
      BY <1>0, <2>1
    <3>2. /\ Len(u) + 1 \in 1 .. Len(u) + Len(w) /\ ~ Len(u) + 1 <= Len(u) /\ (Len(u) + 1) - Len(u) = 1
          /\ \A i \in 1 .. Len(u) : i \in 1 .. Len(u) + Len(w) /\ i <= Len(u)
      BY <2>1
    <3> HIDE DEF y
    <3>3. QED
      BY <2>1, <3>1, <3>2
  <2> HIDE DEF y
  <2>4. \A i \in 1 .. Len(x) : x[i] = y[i]
    <3>1. \A i \in 1 .. Len(x) : i \in 1 .. Len(u) \/ i = Len(u) + 1
      BY <2>2
    <3>2. QED
      BY <2>2, <2>3, <3>1
  <2>5. x = y
    BY <2>2, <2>3, <2>4, SeqEqual
  <2>6. QED
    BY <2>5 DEF x, y, w
<1>3. ASSUME b # <<>>
      PROVE  /\ Head(b) \in Byte /\ Tail(b) \in Seq(Byte)
             /\ Append(a, Head(b)) \in Seq(Byte) /\ Append(a, Head(b)) \o Tail(b) = a \o b
  <2> DEFINE d == Head(b)
             t == Tail(b)
             w == <<d>>
  <2>1. /\ d \in Byte /\ t \in Seq(Byte) /\ Len(t) = Len(b) - 1 /\ Len(b) \in Nat /\ Len(t) \in Nat
        /\ \A i \in 1 .. Len(t) : t[i] = b[i + 1]
    BY <1>3, HeadTailProperties
  <2>2. d = b[1] /\ Append(a, d) \in Seq(Byte)
    BY <1>3, <2>1
  <2> HIDE DEF d, t
  <2>3. w \in Seq(Byte) /\ Len(w) = 1 /\ w[1] = d
    BY <1>1, <2>1
  <2>4. Append(a, d) = a \o w
    BY <1>2, <2>1
  <2> HIDE DEF w
  <2>5. w \o t \in Seq(Byte) /\ Len(w \o t) = Len(b) /\ (w \o t)[1] = d
        /\ \A i \in 1 .. Len(t) : (w \o t)[i + 1] = t[i]
    <3>1. /\ w \o t \in Seq(Byte) /\ Len(w \o t) = 1 + Len(t)
          /\ \A i \in 1 .. 1 + Len(t) : (w \o t)[i] = IF i <= 1 THEN w[i] ELSE t[i - 1]
      <4>1. /\ w \o t \in Seq(Byte) /\ Len(w \o t) = Len(w) + Len(t)
            /\ \A i \in 1 .. Len(w) + Len(t) : (w \o t)[i] = IF i <= Len(w) THEN w[i] ELSE t[i - Len(w)]
        BY <1>0, <2>1, <2>3
      <4>2. QED
        BY <2>3, <4>1
    <3>2. \A i \in 1 .. Len(t) : i + 1 \in 1 .. 1 + Len(t) /\ ~ i + 1 <= 1 /\ (i + 1) - 1 = i
      BY <2>1
    <3>3. QED
      BY <2>1, <2>3, <3>1, <3>2
  <2>6. \A i \in 1 .. Len(b) : (w \o t)[i] = b[i]
    <3>1. \A i \in 1 .. Len(b) : i = 1 \/ (i - 1 \in 1 .. Len(t) /\ (i - 1) + 1 = i)
      BY <2>1
    <3>2. QED
      BY <2>1, <2>2, <2>5, <3>1
  <2>7. w \o t = b
    BY <2>5, <2>6, SeqEqual
  <2>8. (a \o w) \o t = a \o (w \o t)
    <3>1. a \in Seq(Byte) /\ w \in Seq(Byte) /\ t \in Seq(Byte)
      BY <2>1, <2>3
    <3>2. QED
      BY ONLY <3>1, AssocLemma, ZenonT(30)
  <2>9. QED
    BY <2>1, <2>2, <2>4, <2>7, <2>8 DEF d, t
<1>4. (a \o b) \o Append(c, h) = ((a \o b) \o c) \o <<h>>
  <2>1. PICK w \in Seq(Byte) : w = <<h>>
    BY <1>1
  <2>2. PICK u \in Seq(Byte) : u = a \o b
    BY ConcatProperties
  <2>3. Append(c, h) = c \o w
    BY <1>2, <2>1
  <2>4. u \o (c \o w) = (u \o c) \o w
    BY AssocLemma
  <2>5. QED
    BY <2>1, <2>2, <2>3, <2>4
<1>5. QED
  BY <1>1, <1>2, <1>3, <1>4

\* The unread bytes are bytes.
LEMMA UnreadLemma ==
  ASSUME Bytes
  PROVE  Unread \in Seq(Byte) /\ Unread = seen \o (kb_in \o wire) /\ kb_in \o wire \in Seq(Byte)
<1>1. seen \in Seq(Byte) /\ kb_in \in Seq(Byte) /\ wire \in Seq(Byte)
  BY DEF Bytes
<1>2. /\ seen \o kb_in \in Seq(Byte) /\ kb_in \o wire \in Seq(Byte)
      /\ (seen \o kb_in) \o wire \in Seq(Byte)
  BY <1>1, ConcatProperties
<1>3. (seen \o kb_in) \o wire = seen \o (kb_in \o wire)
  BY <1>1, AssocLemma, ZenonT(30)
<1>4. QED
  BY <1>2, <1>3 DEF Unread

\* No bytes.
LEMMA StayLemma ==
  ASSUME NEW x, x.got \in Seq(Deeds)
  PROVE  Goes(x, <<>>, x)
<1> DEFINE f == [p \in {0} |-> x]
<1>1. /\ Len(<<>>) = 0 /\ DOMAIN f = {0} /\ f[0] = x /\ \A p \in DOMAIN f : p = 0
  BY EmptySeq
<1>2. Before(x.got, x.got)
  BY DEF Before
<1> HIDE DEF f
<1>3. Leads(f, x, <<>>, x)
  BY <1>1, <1>2 DEF Leads
<1>4. QED
  BY <1>3 DEF Goes

\* TTY does nothing of an acknowledgement.
LEMMA AckLemma ==
  ASSUME NEW x, x.mods \in Locks, x = [mods |-> x.mods, current |-> x.current, got |-> x.got]
  PROVE  <<ACK>> \in Strokes /\ Read(x, <<ACK>>) = x
<1>1. /\ ACK = 250 /\ ACK \in Byte /\ ACK \notin {224, 225} /\ ACK \in Nat
      /\ ACK % 128 = 122 /\ ~ ACK < 128
  BY DEF ACK, Byte
<1>2. KeyAt(ACK, 0) = "none" /\ KeyAt(ACK, 1) = "none"
  <2>1. \A c \in 0 .. 2 : KeyAt(ACK, c) = "none"
    BY <1>1, ColumnLemma
  <2>2. QED
    BY <2>1
<1>3. x.mods.shift_l \in BOOLEAN /\ x.mods.shift_r \in BOOLEAN /\ x.mods.caps_lock \in BOOLEAN
  BY DEF Locks
<1>4. <<ACK>> \in Strokes
  BY <1>1, ScanLemma
<1>5. Made(<<ACK>>) <=> ACK < 128
  BY <1>1, <1>3, KeyLemma
<1>6. KeyWith(x.mods, <<ACK>>) =
        KeyAt(ACK, IF IF KeyAt(ACK, 0) = "a" THEN (x.mods.shift_l \/ x.mods.shift_r) # x.mods.caps_lock
                      ELSE x.mods.shift_l \/ x.mods.shift_r THEN 1 ELSE 0)
  BY <1>1, <1>3, KeyLemma
<1>7. KeyWith(x.mods, <<ACK>>) = "none" /\ ~ Made(<<ACK>>)
  BY <1>1, <1>2, <1>5, <1>6
<1>8. Read(x, <<ACK>>) = Done(x, x.mods, "none")
  BY <1>7 DEF Read, ModsWith, Deed
<1>9. Done(x, x.mods, "none") = x
  BY DEF Done
<1>10. QED
  BY <1>4, <1>8, <1>9

\* An acknowledgement more.
LEMMA AckMore ==
  ASSUME Expected, NEW x, NEW q \in Seq(Byte), Goes(x, q, Yours)
  PROVE  Goes(x, q \o <<ACK>>, Yours)
<1>1. /\ Yours.mods \in Locks /\ Yours.got \in Seq(Deeds) /\ Yours.current \in Consoles
      /\ Yours = [mods |-> Yours.mods, current |-> Yours.current, got |-> Yours.got]
  <2>1. Held(user) \in Locks /\ Yours.got = meant /\ Yours.current = user.console /\ Yours.mods = Held(user)
    BY HeldLemma
  <2>2. QED
    BY <2>1 DEF Expected, Yours
<1>2. PICK y : y = Yours
  OBVIOUS
<1>3. <<ACK>> \in Strokes /\ Read(y, <<ACK>>) = y
  BY <1>1, <1>2, AckLemma
<1>4. Goes(x, q \o <<ACK>>, Read(y, <<ACK>>))
  BY <1>1, <1>2, <1>3, AppendLemma
<1>5. QED
  BY <1>2, <1>3, <1>4

\* TTY that has read nothing waits for more.
LEMMA EmptyLemma == MoreToRead(<<>>)
<1>1. <<>> \in Seq(Byte) /\ Len(<<>>) = 0
  OBVIOUS
<1>2. QED
  BY <1>1, MoreLemma DEF MoreBytes, Begins6

----------------------------------------------------------------------------
\* The actions

\* Initially there is nothing to read but an acknowledgement.
LEMMA KeysInit == InitKeyboard => KeyInv
<1>1. SUFFICES ASSUME InitKeyboard PROVE KeyInv
  OBVIOUS
<1>2. /\ wire = <<>> /\ kb_in \in {<<>>, <<ACK>>} /\ seen = <<>> /\ at = "idle"
      /\ tty = "f1" /\ current = "f1" /\ got = <<>> /\ meant = <<>> /\ lost = {}
      /\ mods = [shift_l |-> FALSE, shift_r |-> FALSE, alt_l |-> FALSE, caps_lock |-> FALSE,
                 num_lock |-> TRUE]
      /\ user = [down |-> {}, alt |-> FALSE, caps |-> FALSE, num |-> TRUE, console |-> "f1"]
  BY <1>1 DEF InitKeyboard
<1>3. Bytes
  <2>1. <<>> \in Seq(Byte) /\ <<ACK>> \in Seq(Byte)
    BY DEF ACK, Byte
  <2>2. wire \in Seq(Byte) /\ seen \in Seq(Byte) /\ kb_in \in Seq(Byte)
    BY <1>2, <2>1
  <2>3. QED
    BY <1>2, <2>2, EmptyLemma DEF Bytes
<1>4. KeyKept
  BY <1>2 DEF KeyKept, Locks, Consoles
<1>5. Expected
  BY <1>2 DEF Expected, Consoles
<1>6. Mine = Yours
  <2>1. /\ ("shift_l" \in user.down) = FALSE /\ ("shift_r" \in user.down) = FALSE
        /\ user.alt = FALSE /\ user.caps = FALSE /\ user.num = TRUE /\ user.console = current /\ meant = got
    BY <1>2
  <2>2. Yours = [mods |-> mods, current |-> current, got |-> got]
    BY <1>2, <2>1 DEF Yours
  <2>3. QED
    BY <2>2 DEF Mine
<1>7. Goes(Mine, Unread, Yours)
  <2>1. Yours.got \in Seq(Deeds)
    BY <1>2 DEF Yours
  <2>2. Goes(Mine, <<>>, Yours)
    BY <1>6, <2>1, StayLemma
  <2>3. CASE kb_in = <<>>
    <3>1. Unread = <<>>
      BY <1>2, <2>3 DEF Unread
    <3>2. QED
      BY <2>2, <3>1
  <2>4. CASE kb_in = <<ACK>>
    <3>1. <<>> \in Seq(Byte) /\ <<ACK>> \in Seq(Byte)
      BY DEF ACK, Byte
    <3>2. <<>> \o <<ACK>> = <<ACK>> /\ <<ACK>> \o <<>> = <<ACK>>
      BY <3>1, ConcatEmptySeq
    <3>3. Unread = <<>> \o <<ACK>>
      BY <1>2, <2>4, <3>2 DEF Unread
    <3>4. QED
      BY <1>5, <2>2, <3>1, <3>3, AckMore
  <2>5. QED
    BY <1>2, <2>3, <2>4
<1>8. QED
  BY <1>3, <1>4, <1>5, <1>7 DEF KeyInv

\* What holds of the bytes when TTY has read what it has, and more come.
LEMMA TypedLemma ==
  ASSUME KeyInv, NEW k, NEW down, NEW bytes, Type(k, down, bytes), Expected',
         \/ bytes \in Strokes /\ Yours' = Read(Yours, bytes)
         \/ bytes = <<>> /\ Yours' = Yours
  PROVE  KeyInv'
<1>1. /\ wire' = wire \o bytes /\ lost = {} /\ lost' = lost
      /\ kb_in' = kb_in /\ at' = at /\ seen' = seen /\ mods' = mods /\ tty' = tty
      /\ current' = current /\ got' = got
  BY DEF Type, readVars
<1>2. bytes \in Seq(Byte) /\ wire \in Seq(Byte)
  <2>1. bytes \in Strokes => bytes \in Seq(Byte)
    BY StrokeBytes
  <2>2. <<>> \in Seq(Byte) /\ wire \in Seq(Byte)
    BY DEF KeyInv, Bytes
  <2>3. QED
    BY <2>1, <2>2
<1>3. wire' \in Seq(Byte)
  BY <1>1, <1>2, ConcatProperties
<1>4. Bytes'
  BY <1>1, <1>3 DEF KeyInv, Bytes
<1>5. KeyKept'
  BY <1>1 DEF KeyInv, KeyKept
<1>6. Unread' = Unread \o bytes
  <2>1. seen \o kb_in \in Seq(Byte)
    BY ConcatProperties DEF KeyInv, Bytes
  <2>2. ((seen \o kb_in) \o wire) \o bytes = (seen \o kb_in) \o (wire \o bytes)
    BY ONLY <1>2, <2>1, AssocLemma, ZenonT(30)
  <2>3. QED
    BY <1>1, <2>2 DEF Unread
<1>7. Mine' = Mine
  BY <1>1 DEF Mine
<1>8. Unread \in Seq(Byte) /\ Goes(Mine, Unread, Yours)
  BY <1>1, UnreadLemma DEF KeyInv
<1>9. Goes(Mine, Unread \o bytes, Yours')
  <2>1. CASE bytes \in Strokes /\ Yours' = Read(Yours, bytes)
    <3>1. Yours.got \in Seq(Deeds) /\ Yours.current \in Consoles
      BY DEF KeyInv, Expected, Yours
    <3>2. PICK x : x = Mine
      OBVIOUS
    <3>3. PICK y : y = Yours
      OBVIOUS
    <3>4. PICK q \in Seq(Byte) : q = Unread
      BY <1>8
    <3>5. Goes(x, q, y) /\ y.got \in Seq(Deeds) /\ y.current \in Consoles
      BY <1>8, <3>1, <3>2, <3>3, <3>4
    <3>6. Goes(x, q \o bytes, Read(y, bytes))
      BY <2>1, <3>5, AppendLemma
    <3>7. QED
      BY <2>1, <3>2, <3>3, <3>4, <3>6
  <2>2. CASE bytes = <<>> /\ Yours' = Yours
    <3>1. Unread \o <<>> = Unread
      BY <1>8, ConcatEmptySeq
    <3>2. QED
      BY <1>8, <2>2, <3>1
  <2>3. QED
    BY <2>1, <2>2
<1>10. QED
  BY <1>4, <1>5, <1>6, <1>7, <1>9 DEF KeyInv

\* A key is pressed.
LEMMA PressKeepsKeys ==
  ASSUME KeyInv, NEW k \in AllKeys, Press(k)
  PROVE  KeyInv'
<1>1. Type(k, TRUE, MakeBytes(k)) /\ Expected
  BY DEF Press, KeyInv
<1>2. MakeBytes(k) \in Strokes /\ Yours' = Read(Yours, MakeBytes(k)) /\ Expected'
  BY <1>1, PressLemma
<1>3. QED
  BY <1>1, <1>2, TypedLemma

\* A key is released.
LEMMA ReleaseKeepsKeys ==
  ASSUME KeyInv, NEW k \in AllKeys, Release(k)
  PROVE  KeyInv'
<1>1. Type(k, FALSE, BreakBytes(k)) /\ Expected
  BY DEF Release, KeyInv
<1>2. /\ k # "pause" => BreakBytes(k) \in Strokes /\ Yours' = Read(Yours, BreakBytes(k))
      /\ k = "pause" => BreakBytes(k) = <<>> /\ Yours' = Yours
      /\ Expected'
  BY <1>1, ReleaseLemma
<1>3. QED
  BY <1>1, <1>2, TypedLemma

\* A step that keeps the bytes, what TTY has and what the user has.
LEMMA SameKeys ==
  ASSUME KeyInv, Bytes', KeyKept', UNCHANGED userVars,
         lost' = {} => lost = {} /\ Unread' = Unread /\ Mine' = Mine
  PROVE  KeyInv'
<1>1. Expected' /\ Yours' = Yours
  BY DEF KeyInv, Expected, Yours, userVars
<1>2. lost' = {} => Goes(Mine, Unread, Yours)'
  BY <1>1 DEF KeyInv
<1>3. QED
  BY <1>1, <1>2 DEF KeyInv

\* keyboard_handler moves a byte, or drops it.
LEMMA HandlerKeepsKeys ==
  ASSUME KeyInv, KeyboardHandler
  PROVE  KeyInv'
<1>1. /\ wire # <<>> /\ wire' = Tail(wire)
      /\ kb_in' = IF Len(kb_in) < KB_IN_BYTES THEN Append(kb_in, Head(wire)) ELSE kb_in
      /\ lost' = {} => lost = {} /\ Len(kb_in) < KB_IN_BYTES
      /\ seen' = seen /\ at' = at /\ mods' = mods /\ tty' = tty /\ current' = current /\ got' = got
      /\ UNCHANGED userVars
  BY DEF KeyboardHandler, readVars
<1>2. wire \in Seq(Byte) /\ kb_in \in Seq(Byte) /\ seen \in Seq(Byte)
  BY DEF KeyInv, Bytes
<1>3. /\ Head(wire) \in Byte /\ Tail(wire) \in Seq(Byte) /\ Append(kb_in, Head(wire)) \in Seq(Byte)
      /\ Append(kb_in, Head(wire)) \o Tail(wire) = kb_in \o wire
  BY <1>1, <1>2, MoveLemma, SMTT(30)
<1>4. Bytes' /\ KeyKept'
  BY <1>1, <1>2, <1>3 DEF KeyInv, Bytes, KeyKept
<1>5. Mine' = Mine
  BY <1>1 DEF Mine
<1>6. ASSUME lost' = {} PROVE Unread' = Unread
  <2>1. Unread = seen \o (kb_in \o wire)
    BY UnreadLemma DEF KeyInv
  <2>2. (seen \o Append(kb_in, Head(wire))) \o Tail(wire) = seen \o (Append(kb_in, Head(wire)) \o Tail(wire))
    BY ONLY <1>2, <1>3, AssocLemma, ZenonT(30)
  <2>3. Unread' = (seen \o Append(kb_in, Head(wire))) \o Tail(wire)
    BY <1>1, <1>6 DEF Unread
  <2>4. QED
    BY <1>3, <2>1, <2>2, <2>3
<1>7. QED
  BY <1>1, <1>4, <1>5, <1>6, SameKeys

\* keyboard_read begins, ends, or reads a byte of a key.
LEMMA ReadKeepsKeys ==
  ASSUME KeyInv, KeyboardRead \/ KeyboardReadEnds \/ GetByte
  PROVE  KeyInv'
<1>1. CASE KeyboardRead
  <2>1. /\ at # "reading" /\ seen' = <<>> /\ tty' = current /\ wire' = wire /\ kb_in' = kb_in
        /\ mods' = mods /\ current' = current /\ got' = got /\ lost' = lost /\ UNCHANGED userVars
    BY <1>1 DEF KeyboardRead, userVars
  <2>2. seen = <<>>
    BY <2>1 DEF KeyInv, Bytes
  <2>3. Bytes' /\ KeyKept'
    BY <2>1, EmptyLemma DEF KeyInv, Bytes, KeyKept
  <2>4. Unread' = Unread /\ Mine' = Mine
    BY <2>1, <2>2 DEF Unread, Mine
  <2>5. QED
    BY <2>1, <2>3, <2>4, SameKeys
<1>2. CASE KeyboardReadEnds
  <2>1. /\ seen = <<>> /\ seen' = seen /\ tty' = tty /\ wire' = wire /\ kb_in' = kb_in
        /\ mods' = mods /\ current' = current /\ got' = got /\ lost' = lost /\ UNCHANGED userVars
    BY <1>2 DEF KeyboardReadEnds, userVars
  <2>2. Bytes' /\ KeyKept'
    BY <2>1 DEF KeyInv, Bytes, KeyKept
  <2>3. Unread' = Unread /\ Mine' = Mine
    BY <2>1 DEF Unread, Mine
  <2>4. QED
    BY <2>1, <2>2, <2>3, SameKeys
<1>3. CASE GetByte
  <2>1. /\ at = "reading" /\ at' = at /\ kb_in # <<>> /\ MoreToRead(Append(seen, Head(kb_in)))
        /\ seen' = Append(seen, Head(kb_in)) /\ kb_in' = Tail(kb_in) /\ tty' = tty /\ wire' = wire
        /\ mods' = mods /\ current' = current /\ got' = got /\ lost' = lost /\ UNCHANGED userVars
    BY <1>3 DEF GetByte, userVars
  <2>2. wire \in Seq(Byte) /\ kb_in \in Seq(Byte) /\ seen \in Seq(Byte)
    BY DEF KeyInv, Bytes
  <2>3. /\ Tail(kb_in) \in Seq(Byte) /\ Append(seen, Head(kb_in)) \in Seq(Byte)
        /\ Append(seen, Head(kb_in)) \o Tail(kb_in) = seen \o kb_in
    BY <2>1, <2>2, MoveLemma
  <2>4. Bytes' /\ KeyKept'
    BY <2>1, <2>2, <2>3 DEF KeyInv, Bytes, KeyKept
  <2>5. Unread' = Unread /\ Mine' = Mine
    BY <2>1, <2>3 DEF Unread, Mine
  <2>6. QED
    BY <2>1, <2>4, <2>5, SameKeys
<1>4. QED
  BY <1>1, <1>2, <1>3

\* kb_ack has the acknowledgement, and the keyboard sends the next.
LEMMA AckKeepsKeys ==
  ASSUME KeyInv, KbAck
  PROVE  KeyInv'
<1>1. /\ at \in {"ack1", "ack2"} /\ at' \in {"ack2", "reading"}
      /\ seen' = seen /\ tty' = tty /\ kb_in' = kb_in
      /\ mods' = mods /\ current' = current /\ got' = got /\ lost' = lost /\ UNCHANGED userVars
      /\ wire' = IF at = "ack1" THEN Append(wire, ACK) ELSE wire
  BY DEF KbAck, userVars
<1>2. wire \in Seq(Byte) /\ kb_in \in Seq(Byte) /\ seen \in Seq(Byte) /\ ACK \in Byte /\ seen = <<>>
  BY <1>1 DEF KeyInv, Bytes, ACK, Byte
<1>3. Bytes' /\ KeyKept'
  BY <1>1, <1>2 DEF KeyInv, Bytes, KeyKept
<1>4. Mine' = Mine /\ Expected' /\ Yours' = Yours /\ Expected
  BY <1>1 DEF Mine, KeyInv, Expected, Yours, userVars
<1>5. CASE at = "ack1"
  <2>1. Unread' = Unread \o <<ACK>>
    <3>1. (seen \o kb_in) \o Append(wire, ACK) = ((seen \o kb_in) \o wire) \o <<ACK>>
      BY <1>2, MoveLemma
    <3>2. QED
      BY <1>1, <1>5, <3>1 DEF Unread
  <2>2. lost' = {} => Goes(Mine, Unread \o <<ACK>>, Yours)
    <3>1. Unread \in Seq(Byte)
      BY UnreadLemma DEF KeyInv
    <3>2. lost' = {} => Goes(Mine, Unread, Yours)
      BY <1>1 DEF KeyInv
    <3>3. PICK x : x = Mine
      OBVIOUS
    <3>4. PICK q \in Seq(Byte) : q = Unread
      BY <3>1
    <3>5. Goes(x, q, Yours) => Goes(x, q \o <<ACK>>, Yours)
      BY <1>4, AckMore
    <3>6. QED
      BY <3>2, <3>3, <3>4, <3>5
  <2>3. QED
    BY <1>3, <1>4, <2>1, <2>2 DEF KeyInv
<1>6. CASE at # "ack1"
  <2>1. Unread' = Unread
    BY <1>1, <1>6 DEF Unread
  <2>2. QED
    BY <1>1, <1>3, <1>4, <2>1, SameKeys
<1>7. QED
  BY <1>5, <1>6

\* What TTY makes of the bytes of a key, when nothing goes wrong.
LEMMA MadeLemma ==
  ASSUME KeyKept, NEW mk, NEW s, mk \in MakesOf(s),
         s \notin {PauseBreak, PrintMake, PrintBreak} => ~ IsSpecial(key)
  PROVE  LET k == KeyOf(s)  pressed == mk = "make"  m == Modifiers(k, pressed)
             effect == IF pressed THEN InProcess(k, m) ELSE "none"
         IN /\ m = ModsWith(mods, KeyWith(mods, s), Made(s))
            /\ effect = Deed(m, KeyWith(mods, s), Made(s))
<1>1. CASE s \in {PauseBreak, PrintMake, PrintBreak}
  <2>1. KeyWith(mods, s) = "none"
    BY <1>1 DEF KeyWith
  <2>2. KeyOf(s) \in {"PAUSEBREAK", "PRINTSCREEN"}
    BY <1>1 DEF KeyOf, IsSpecial, Special
  <2>3. \A b : Modifiers(KeyOf(s), b) = mods /\ InProcess(KeyOf(s), mods) = "none"
    BY <2>2 DEF Modifiers, InProcess
  <2>4. \A b : ModsWith(mods, "none", b) = mods /\ Deed(mods, "none", b) = "none"
    BY DEF ModsWith, Deed, InProcess
  <2>5. QED
    BY <2>1, <2>3, <2>4
<1>2. CASE s \notin {PauseBreak, PrintMake, PrintBreak}
  <2>1. ~ IsSpecial(key) /\ Special(s) = key
    BY <1>2 DEF Special
  <2>2. KeyOf(s) = KeyWith(mods, s)
    BY <1>2, <2>1 DEF KeyOf, KeyWith, Column, ColumnWith
  <2>3. MakesOf(s) = IF scan_code(s) < 128 THEN {"make"} ELSE {"break"}
    BY <1>2, <2>1 DEF MakesOf
  <2>4. (mk = "make") = Made(s)
    BY <2>3 DEF Made
  <2>5. \A k, b : Modifiers(k, b) = ModsWith(mods, k, b)
    BY DEF Modifiers, ModsWith
  <2>6. QED
    BY <2>2, <2>4, <2>5 DEF Deed
<1>3. QED
  BY <1>1, <1>2

\* The modifiers are Boolean.
LEMMA ModsKept ==
  ASSUME mods \in Locks, NEW k, NEW b \in BOOLEAN
  PROVE  Modifiers(k, b) \in Locks
<1>1. CASE k = "shift_l"
  BY <1>1 DEF Modifiers, Locks
<1>2. CASE k = "shift_r"
  BY <1>2 DEF Modifiers, Locks
<1>3. CASE k \in {"alt_l", "alt_r"}
  BY <1>3 DEF Modifiers, Locks
<1>4. CASE k = "caps"
  BY <1>4 DEF Modifiers, Locks
<1>5. CASE k = "num"
  BY <1>5 DEF Modifiers, Locks
<1>6. CASE k \notin {"shift_l", "shift_r", "alt_l", "alt_r", "caps", "num"}
  BY <1>6 DEF Modifiers
<1>7. QED
  BY <1>1, <1>2, <1>3, <1>4, <1>5, <1>6

\* TTY has the last byte of a key: it is the first stroke of the unread bytes.
LEMMA KeyKeepsKeys ==
  ASSUME KeyInv, NEW mk \in {"make", "break"}, GetKey(mk)
  PROVE  KeyInv'
<1> DEFINE s == Append(seen, Head(kb_in))
           k == KeyOf(s)
           pressed == mk = "make"
           m == Modifiers(k, pressed)
           effect == IF pressed THEN InProcess(k, m) ELSE "none"
           locks == k \in {"caps", "num"} /\ pressed
           rest == Tail(kb_in) \o wire
<1>1. /\ at = "reading" /\ kb_in # <<>> /\ ~ MoreToRead(s) /\ mk \in MakesOf(s)
      /\ kb_in' = Tail(kb_in) /\ seen' = <<>> /\ mods' = m /\ tty' = tty
      /\ got' = IF effect = "none" THEN got ELSE Append(got, [to |-> tty, what |-> effect])
      /\ current' = IF effect \in {"f1", "f2"} THEN effect ELSE current
      /\ wire' = IF locks THEN Append(wire, ACK) ELSE wire
      /\ UNCHANGED userVars
  BY DEF GetKey
<1>2. lost' = {} => /\ lost = {} /\ (effect # "none" => tty = current)
                    /\ (s \notin {PauseBreak, PrintMake, PrintBreak} => ~ IsSpecial(key))
  BY DEF GetKey
<1>3. /\ wire \in Seq(Byte) /\ kb_in \in Seq(Byte) /\ seen \in Seq(Byte) /\ MoreToRead(seen)
      /\ ACK \in Byte
  BY DEF KeyInv, Bytes, ACK, Byte
<1>4. mods \in Locks /\ tty \in Consoles /\ current \in Consoles /\ got \in Seq(Deeds)
  BY DEF KeyInv, KeyKept
<1>5. /\ Head(kb_in) \in Byte /\ Tail(kb_in) \in Seq(Byte) /\ s \in Seq(Byte)
      /\ s \o Tail(kb_in) = seen \o kb_in
  BY <1>1, <1>3, MoveLemma
<1>6. rest \in Seq(Byte) /\ Append(wire, ACK) \in Seq(Byte)
  BY <1>3, <1>5, ConcatProperties
<1>7. pressed \in BOOLEAN /\ effect \in Effects
  BY DeedLemma DEF Effects
<1>8. m \in Locks
  BY <1>4, <1>7, ModsKept
<1>9. Unread = s \o rest
  <2>1. (s \o Tail(kb_in)) \o wire = s \o (Tail(kb_in) \o wire)
    BY ONLY <1>3, <1>5, AssocLemma, ZenonT(30)
  <2>2. QED
    BY <1>5, <2>1 DEF Unread
<1>10. lost' = {} => m = ModsWith(mods, KeyWith(mods, s), Made(s))
                     /\ effect = Deed(m, KeyWith(mods, s), Made(s))
  BY <1>1, <1>2, MadeLemma DEF KeyInv
<1>11. lost' = {} => Goes(Mine, Append(seen, Head(kb_in)) \o rest, Yours)
  BY <1>2, <1>9 DEF KeyInv
<1> HIDE DEF effect, m, k, locks, pressed
<1>12. Bytes'
  <2>1. wire' \in Seq(Byte) /\ kb_in' \in Seq(Byte) /\ seen' = <<>> /\ <<>> \in Seq(Byte)
    BY <1>1, <1>3, <1>5, <1>6
  <2>2. QED
    BY <2>1, EmptyLemma DEF Bytes
<1>13. KeyKept'
  <2>1. [to |-> tty, what |-> effect] \in Deeds
    BY <1>4, <1>7 DEF Deeds
  <2>2. got' \in Seq(Deeds)
    BY <1>1, <1>4, <2>1
  <2>3. current' \in Consoles
    BY <1>1, <1>4 DEF Consoles
  <2>4. QED
    BY <1>1, <1>4, <1>8, <2>2, <2>3 DEF KeyKept
<1>14. Expected' /\ Yours' = Yours /\ Expected
  BY <1>1 DEF KeyInv, Expected, Yours, userVars
<1>15. ASSUME lost' = {} PROVE Goes(Mine', Unread', Yours')
  <2>1. Goes(Read(Mine, s), rest, Yours)
    <3>1. PICK x : x = Mine
      OBVIOUS
    <3>2. PICK y : y = Yours
      OBVIOUS
    <3>3. Goes(x, Append(seen, Head(kb_in)) \o rest, y)
      BY <1>11, <1>15, <3>1, <3>2
    <3>4. Goes(Read(x, Append(seen, Head(kb_in))), rest, y)
      BY <1>1, <1>3, <1>5, <1>6, <3>3, DropLemma
    <3>5. QED
      BY <3>1, <3>2, <3>4
  <2>2. Mine' = Read(Mine, s)
    <3>1. Mine.mods = mods /\ Mine.current = current /\ Mine.got = got
      BY DEF Mine
    <3>2. Read(Mine, s) = Done(Mine, m, effect)
      BY <1>10, <1>15, <3>1 DEF Read
    <3>3. Done(Mine, m, effect) =
            [mods |-> m, current |-> IF effect \in {"f1", "f2"} THEN effect ELSE current,
             got |-> IF effect = "none" THEN got ELSE Append(got, [to |-> current, what |-> effect])]
      BY <3>1 DEF Done
    <3>4. got' = IF effect = "none" THEN got ELSE Append(got, [to |-> current, what |-> effect])
      BY <1>1, <1>2, <1>15
    <3>5. Mine' = [mods |-> mods', current |-> current', got |-> got']
      BY DEF Mine
    <3>6. QED
      BY <1>1, <3>2, <3>3, <3>4, <3>5
  <2>3. <<>> \o Tail(kb_in) = Tail(kb_in)
    BY <1>5, ConcatEmptySeq
  <2>4. CASE ~ locks
    <3>1. Unread' = rest
      BY <1>1, <2>3, <2>4 DEF Unread
    <3>2. QED
      BY <1>14, <2>1, <2>2, <3>1
  <2>5. CASE locks
    <3>1. <<>> \in Seq(Byte)
      OBVIOUS
    <3>2. (<<>> \o Tail(kb_in)) \o Append(wire, ACK) = ((<<>> \o Tail(kb_in)) \o wire) \o <<ACK>>
      BY <1>3, <1>5, <3>1, MoveLemma
    <3>3. Unread' = rest \o <<ACK>>
      BY <1>1, <2>3, <2>5, <3>2 DEF Unread
    <3>4. PICK x : x = Read(Mine, s)
      OBVIOUS
    <3>5. Goes(x, rest \o <<ACK>>, Yours)
      BY <1>6, <1>14, <2>1, <3>4, AckMore
    <3>6. QED
      BY <1>14, <2>2, <3>3, <3>4, <3>5
  <2>6. QED
    BY <2>4, <2>5
<1>16. QED
  BY <1>12, <1>13, <1>14, <1>15 DEF KeyInv

\* The user goes on, the keyboard sends and TTY reads: the bytes lead to what the user has.
LEMMA KeysNext ==
  ASSUME Keys \subseteq AllKeys, KeyInv, [Next]_keyboardVars
  PROVE  KeyInv'
<1>1. ASSUME NEW k \in Keys, Press(k) PROVE KeyInv'
  BY <1>1, PressKeepsKeys
<1>2. ASSUME NEW k \in Keys, Release(k) PROVE KeyInv'
  BY <1>2, ReleaseKeepsKeys
<1>3. CASE KeyboardHandler
  BY <1>3, HandlerKeepsKeys
<1>4. CASE KeyboardRead \/ KeyboardReadEnds \/ GetByte
  BY <1>4, ReadKeepsKeys
<1>5. CASE KbAck
  BY <1>5, AckKeepsKeys
<1>6. ASSUME NEW mk \in {"make", "break"}, GetKey(mk) PROVE KeyInv'
  BY <1>6, KeyKeepsKeys
<1>7. CASE UNCHANGED keyboardVars
  BY <1>7 DEF keyboardVars, readVars, userVars, KeyInv, Bytes, KeyKept, Expected, Unread, Mine, Yours
<1>8. QED
  BY <1>1, <1>2, <1>3, <1>4, <1>5, <1>6, <1>7 DEF Next, Tty

\* The invariant says what KeysFollowTheUser does.
LEMMA KeyInvFollows ==
  ASSUME KeyInv
  PROVE  KeysFollowTheUser
<1>1. CASE lost # {}
  BY <1>1 DEF KeysFollowTheUser, TypedIsReceived, ModifiersFollow
<1>2. CASE lost = {}
  <2>1. PICK f : Leads(f, Mine, Unread, Yours)
    BY <1>2 DEF KeyInv, Goes
  <2>2. f[0] = Mine /\ f[Len(Unread)] = Yours /\ Before(f[0].got, Yours.got)
    BY <2>1 DEF Leads
  <2>3. Mine.got = got /\ Yours.got = meant /\ got \in Seq(Deeds) /\ meant \in Seq(Deeds)
    BY DEF Mine, Yours, KeyInv, KeyKept, Expected
  <2>4. IsPrefix(got, meant)
    BY <2>2, <2>3, PrefixLemma
  <2>5. ASSUME AllRead PROVE Mine = Yours
    <3>1. wire = <<>> /\ kb_in = <<>> /\ seen = <<>>
      BY <2>5 DEF AllRead, KeyInv, Bytes
    <3>2. Unread = <<>>
      BY <3>1 DEF Unread
    <3>3. QED
      BY <2>2, <3>2, EmptySeq
  <2>6. Mine = Yours => mods = Held(user) /\ current = user.console /\ got = meant
    <3>1. Mine.mods = mods /\ Mine.current = current /\ Yours.mods = Held(user) /\ Yours.current = user.console
      BY DEF Mine, Yours, Held
    <3>2. QED
      BY <2>3, <3>1
  <2>7. QED
    BY <1>2, <2>4, <2>5, <2>6 DEF KeysFollowTheUser, TypedIsReceived, ModifiersFollow, Held
<1>3. QED
  BY <1>1, <1>2

\* What the user types arrives: what in_process does is what the user meant, key
\* for key, and the locks and the console are the user's when all is read, however
\* keyboard_handler, keyboard_read and kb_ack interleave, until one of the four ways of
\* going wrong that lost records: keyboard_read and in_process.
THEOREM KeysArrive == Spec => []KeysFollowTheUser
<1>1. Keys \subseteq AllKeys
  BY KeyboardAssumption
<1>2. InitKeyboard => KeyInv
  BY KeysInit
<1>3. KeyInv /\ [Next]_keyboardVars => KeyInv'
  BY <1>1, KeysNext
<1>4. KeyInv => KeysFollowTheUser
  BY KeyInvFollows
<1>5. QED
  BY <1>2, <1>3, <1>4, PTL DEF Spec

=============================================================================

---------------------------- MODULE BoundaryProofs ---------------------------
(***************************************************************************)
(* What crosses the boundary to C: that the memory is there (Pinning), for *)
(* templates of any size, and that what is said is understood              *)
(* (Conversions): token labels of any width, signatures of any length and  *)
(* any salt length.                                                        *)
(*                                                                         *)
(* Pinning.  The last Pinner of a method is in one of five states, and     *)
(* every step of a method moves it to a state or is out of place (Move).   *)
(* Each method of the tables has a run of these states that ends with      *)
(* nothing to unpin (Keeps), so that in every state of the system the      *)
(* steps that are left have one from the state the memory is in (Fits).    *)
(*                                                                         *)
(* Labels.  A token shows the label it was last given, cut or padded       *)
(* (FieldInv), so that trimming gives back a label that fits and ends in   *)
(* no blank; and of the slots that match there is a first.                 *)
(*                                                                         *)
(* Signing.  The prefixes are the DER of the hashes' DigestInfos, and      *)
(* differ; a salt length survives as a uint if a key can take it, and is   *)
(* too long for every key if it does not; two halves are r and s.          *)
(***************************************************************************)
EXTENDS Conversions, Pinning, SequenceTheorems, WellFoundedInduction, TLAPS

-----------------------------------------------------------------------------
(* The state of the last Pinner of a method: there is none; it is empty;   *)
(* it is not; its Unpin is deferred; it is empty again and the addresses   *)
(* that were taken are stale.                                              *)

States == {"none", "clean", "dirty", "deferred", "stale"}

\* The steps that make memory: the domain of Shapes.
Builds == {"bytes", "nonNull", "var", "initArgs", "attrs", "query", "mech"}
Steady == Builds \cup {"call", "check"}
Steps == Steady \cup {"pinner", "defer", "checkCount", "unpin", "anew"}

\* A step at which the method may return, mech, check or checkCount, is out of place
\* while the method still has to unpin; a call is when its addresses are stale.
Move(q, step, r) ==
  \/ step = "pinner" /\ q \in {"none", "deferred"} /\ r = "clean"
  \/ step \in Builds \ {"mech"} /\ q \in {"clean", "dirty"} /\ r = "dirty"
  \/ step \in Builds /\ q = "deferred" /\ r = q
  \/ step = "defer" /\ q \in {"clean", "dirty"} /\ r = "deferred"
  \/ step = "call" /\ q # "stale" /\ r = q
  \/ step \in {"check", "checkCount"} /\ q # "dirty" /\ r = q
  \/ step = "unpin" /\ q = "dirty" /\ r = "stale"
  \/ step = "anew" /\ q = "stale" /\ r = "clean"

\* run is a run of states along the steps s.
Run(run, s) ==
  /\ s \in Seq(Steps) /\ run \in Seq(States) /\ Len(run) = Len(s) + 1
  /\ \A i \in 1..Len(s) : Move(run[i], s[i], run[i + 1])
\* s has a run from q to r.
Leads(s, q, r) == \E run : Run(run, s) /\ run[1] = q /\ run[Len(s) + 1] = r
\* s has a run from q, at the end of which nothing is left to unpin.
Keeps(s, q) == \E r \in States \ {"dirty"} : Leads(s, q, r)

\* The memory is in state q.
Fits(q) ==
  /\ q = "none" <=> pins = << >>
  /\ \A i \in DOMAIN pins : i \in deferred \/ pins[i] = {} \/ (q = "dirty" /\ i = Len(pins))
  /\ q \in {"clean", "stale"} => pins[Len(pins)] = {}
  /\ q = "deferred" => Len(pins) \in deferred
  /\ q # "stale" => Reachable \subseteq Pinned

MemoryInv ==
  /\ made \in Nat /\ args \subseteq 1..made /\ holds \subseteq (1..made) \X (1..made)
  /\ pins \in Seq(SUBSET Nat)
  /\ Pinned \subseteq heap

PinInv ==
  /\ MemoryInv
  /\ phase \in {"idle", "go", "C"}
  /\ phase = "idle" => Pinned = {}
  /\ phase # "idle" => \E q \in States : Keeps(todo, q) /\ Fits(q)
  /\ phase = "C" => Reachable \subseteq Pinned

-----------------------------------------------------------------------------
(* Runs *)

\* Under a deferred Unpin, building, calling and checking change nothing.
LEMMA LeadsSteady ==
  ASSUME NEW s \in Seq(Steady)
  PROVE  Leads(s, "deferred", "deferred")
<1> DEFINE run == [i \in 1..Len(s) + 1 |-> "deferred"]
<1>1. run \in Seq(States) /\ Len(run) = Len(s) + 1
  BY DEF States
<1>2. s \in Seq(Steps) /\ \A i \in 1..Len(s) + 1 : run[i] = "deferred"
  BY DEF Steps
<1>3. ASSUME NEW i \in 1..Len(s) PROVE Move(run[i], s[i], run[i + 1])
  <2>1. s[i] \in Steady
    OBVIOUS
  <2>2. run[i] = "deferred" /\ run[i + 1] = "deferred"
    OBVIOUS
  <2> HIDE DEF run
  <2> QED
    BY <2>1, <2>2 DEF Move, Steady
<1> HIDE DEF run
<1> QED
  BY <1>1, <1>2, <1>3 DEF Leads, Run

\* Two runs, one after the other.
LEMMA LeadsOn ==
  ASSUME NEW s, NEW t, NEW q, NEW r, NEW u, Leads(s, q, r), Leads(t, r, u)
  PROVE  Leads(s \o t, q, u)
<1>1. PICK a : Run(a, s) /\ a[1] = q /\ a[Len(s) + 1] = r
  BY DEF Leads
<1>2. PICK b : Run(b, t) /\ b[1] = r /\ b[Len(t) + 1] = u
  BY DEF Leads
<1> DEFINE n == Len(s)
           c == [i \in 1..n + Len(t) + 1 |-> IF i <= n THEN a[i] ELSE b[i - n]]
<1>3. /\ s \in Seq(Steps) /\ a \in Seq(States) /\ Len(a) = n + 1
      /\ t \in Seq(Steps) /\ b \in Seq(States) /\ Len(b) = Len(t) + 1
      /\ n \in Nat /\ Len(t) \in Nat
  BY <1>1, <1>2 DEF Run
<1>4. /\ s \o t \in Seq(Steps) /\ Len(s \o t) = n + Len(t)
      /\ \A i \in 1..n : (s \o t)[i] = s[i]
      /\ \A j \in 1..Len(t) : (s \o t)[n + j] = t[j]
  BY <1>3
<1>5. /\ \A i \in 1..n : c[i] = a[i]
      /\ \A j \in 1..Len(t) + 1 : c[n + j] = b[j]
  BY <1>3
<1>6. c \in Seq(States) /\ Len(c) = n + Len(t) + 1
  <2>1. ASSUME NEW i \in 1..n + Len(t) + 1 PROVE c[i] \in States
    <3>1. CASE i <= n
      BY <1>3, <3>1
    <3>2. CASE ~(i <= n)
      <4>1. i - n \in 1..Len(b)
        BY <1>3, <3>2
      <4> QED
        BY <1>3, <3>2, <4>1
    <3> QED
      BY <3>1, <3>2
  <2> QED
    BY <1>3, <2>1
<1> HIDE DEF c
<1>7. c[n + 1] = a[n + 1]
  BY <1>1, <1>2, <1>3, <1>5
<1>8. ASSUME NEW i \in 1..n + Len(t) PROVE Move(c[i], (s \o t)[i], c[i + 1])
  <2>1. CASE i <= n
    <3>1. i \in 1..n /\ (i = n \/ i + 1 \in 1..n)
      BY <1>3, <2>1
    <3>2. c[i] = a[i] /\ c[i + 1] = a[i + 1] /\ (s \o t)[i] = s[i]
      BY <1>4, <1>5, <1>7, <3>1
    <3> QED
      BY <1>1, <3>1, <3>2 DEF Run
  <2>2. CASE ~(i <= n)
    <3> DEFINE j == i - n
    <3>1. j \in 1..Len(t) /\ j \in 1..Len(t) + 1 /\ j + 1 \in 1..Len(t) + 1
      BY <1>3, <2>2
    <3>2. i = n + j /\ i + 1 = n + (j + 1)
      BY <1>3, <2>2
    <3> HIDE DEF j
    <3>3. c[n + j] = b[j] /\ c[n + (j + 1)] = b[j + 1] /\ (s \o t)[n + j] = t[j]
      BY <1>4, <1>5, <3>1
    <3>4. Move(b[j], t[j], b[j + 1])
      BY <1>2, <3>1 DEF Run
    <3> QED
      BY <3>2, <3>3, <3>4
  <2> QED
    BY <2>1, <2>2
<1>9. c[1] = q /\ c[n + Len(t) + 1] = u
  <2>1. c[1] = a[1]
    BY <1>3, <1>5, <1>7
  <2>2. c[n + (Len(t) + 1)] = b[Len(t) + 1] /\ n + (Len(t) + 1) = n + Len(t) + 1
    BY <1>3, <1>5
  <2> QED
    BY <1>1, <1>2, <2>1, <2>2
<1>10. Run(c, s \o t)
  BY <1>4, <1>6, <1>8 DEF Run
<1>11. c[Len(s \o t) + 1] = u
  BY <1>4, <1>9
<1> QED
  BY <1>9, <1>10, <1>11 DEF Leads

\* An arena, and steps under its deferred free.
LEMMA LeadsArena ==
  ASSUME NEW s \in Seq(Steady), NEW q \in {"none", "deferred"}
  PROVE  Leads(Arena \o s, q, "deferred")
<1> DEFINE run == <<q, "clean", "deferred">>
<1>1. Run(run, Arena)
  <2>1. Arena \in Seq(Steps) /\ run \in Seq(States) /\ Len(run) = 3 /\ Len(Arena) = 2
    BY DEF Arena, States, Steps
  <2>2. \A i \in 1..2 : Move(run[i], Arena[i], run[i + 1])
    BY DEF Arena, Move
  <2> QED
    BY <2>1, <2>2 DEF Run
<1>2. run[1] = q /\ run[Len(Arena) + 1] = "deferred"
  BY DEF Arena
<1> HIDE DEF run
<1>3. Leads(Arena, q, "deferred")
  BY <1>1, <1>2 DEF Leads
<1> QED
  BY <1>3, LeadsSteady, LeadsOn

\* A method may return unless something is pinned that nothing will unpin.
LEMMA KeepsEnd ==
  ASSUME NEW q \in States
  PROVE  Keeps(<< >>, q) <=> q # "dirty"
<1>1. ASSUME q # "dirty" PROVE Keeps(<< >>, q)
  <2> DEFINE run == <<q>>
  <2>1. Run(run, << >>) /\ run[1] = q /\ run[Len(<< >>) + 1] = q
    BY DEF Run
  <2> HIDE DEF run
  <2> QED
    BY <1>1, <2>1 DEF Keeps, Leads
<1>2. ASSUME Keeps(<< >>, q) PROVE q # "dirty"
  BY <1>2 DEF Keeps, Leads
<1> QED
  BY <1>1, <1>2

\* The first of the steps moves to a state from which the others have a run.
LEMMA KeepsStep ==
  ASSUME NEW s, NEW q, Keeps(s, q), s # << >>
  PROVE  \E r \in States : Move(q, Head(s), r) /\ Keeps(Tail(s), r)
<1>1. PICK u \in States \ {"dirty"} : Leads(s, q, u)
  BY DEF Keeps
<1>2. PICK run : Run(run, s) /\ run[1] = q /\ run[Len(s) + 1] = u
  BY <1>1 DEF Leads
<1>3. s \in Seq(Steps) /\ run \in Seq(States) /\ Len(run) = Len(s) + 1 /\ Len(s) \in Nat \ {0}
  BY <1>2 DEF Run
<1>4. Move(q, Head(s), run[2]) /\ run[2] \in States
  BY <1>2, <1>3 DEF Run
<1>5. /\ Tail(s) \in Seq(Steps) /\ Len(Tail(s)) = Len(s) - 1
      /\ \A i \in 1..Len(s) - 1 : Tail(s)[i] = s[i + 1]
      /\ Tail(run) \in Seq(States) /\ Len(Tail(run)) = Len(s)
      /\ \A i \in 1..Len(s) : Tail(run)[i] = run[i + 1]
  BY <1>3
<1>6. ASSUME NEW i \in 1..Len(Tail(s)) PROVE Move(Tail(run)[i], Tail(s)[i], Tail(run)[i + 1])
  <2>1. i + 1 \in 1..Len(s) /\ i \in 1..Len(s) - 1 /\ i \in 1..Len(s)
    BY <1>3, <1>5
  <2> QED
    BY <1>2, <1>5, <2>1 DEF Run
<1>7. Run(Tail(run), Tail(s)) /\ Tail(run)[1] = run[2] /\ Tail(run)[Len(Tail(s)) + 1] = u
  BY <1>2, <1>3, <1>5, <1>6 DEF Run
<1> QED
  BY <1>1, <1>4, <1>7 DEF Keeps, Leads

-----------------------------------------------------------------------------
(* The methods *)

\* A run that starts without a Pinner.
LEMMA KeepsRun ==
  ASSUME NEW run, NEW s, Run(run, s), run[1] = "none", run[Len(s) + 1] # "dirty"
  PROVE  Keeps(s, "none")
<1>1. run[Len(s) + 1] \in States
  BY DEF Run
<1> QED
  BY <1>1 DEF Keeps, Leads

\* The methods that use no arena.
LEMMA KeepsWhole ==
  /\ Keeps(JustCall, "none")
  /\ Keeps(Query, "none")
  /\ Keeps(Input, "none")
  /\ Keeps(Inputs, "none")
  /\ Keeps(List, "none")
  /\ Keeps(<<"pinner", "initArgs", "defer", "call">>, "none")
  /\ Keeps(<<"pinner", "bytes", "var", "defer", "call">>, "none")
  /\ Keeps(<<"pinner", "var", "call", "unpin", "check",
        "anew", "nonNull", "var", "call", "unpin", "check">>, "none")
  /\ Keeps(<<"pinner", "nonNull", "var", "defer", "call", "check">>, "none")
  /\ Keeps(<<"pinner", "nonNull", "defer", "call", "check">>, "none")
  /\ Keeps(<<"pinner", "var", "call", "unpin">>, "none")
<1>1. Keeps(JustCall, "none")
  <2> DEFINE run == <<"none", "none">>
  <2>1. Run(run, JustCall) /\ run[1] = "none" /\ run[Len(JustCall) + 1] # "dirty"
    BY DEF Run, Move, JustCall, Steps, Steady, Builds, States
  <2> QED
    BY <2>1, KeepsRun
<1>2. Keeps(Query, "none")
  <2> DEFINE run == <<"none", "clean", "dirty", "deferred", "deferred", "deferred">>
  <2>1. Run(run, Query) /\ run[1] = "none" /\ run[Len(Query) + 1] # "dirty"
    BY DEF Run, Move, Query, Steps, Steady, Builds, States
  <2> QED
    BY <2>1, KeepsRun
<1>3. Keeps(Input, "none")
  <2> DEFINE run == <<"none", "clean", "dirty", "deferred", "deferred">>
  <2>1. Run(run, Input) /\ run[1] = "none" /\ run[Len(Input) + 1] # "dirty"
    BY DEF Run, Move, Input, Steps, Steady, Builds, States
  <2> QED
    BY <2>1, KeepsRun
<1>4. Keeps(Inputs, "none")
  <2> DEFINE run == <<"none", "clean", "dirty", "dirty", "deferred", "deferred">>
  <2>1. Run(run, Inputs) /\ run[1] = "none" /\ run[Len(Inputs) + 1] # "dirty"
    BY DEF Run, Move, Inputs, Steps, Steady, Builds, States
  <2> QED
    BY <2>1, KeepsRun
<1>5. Keeps(List, "none")
  <2> DEFINE run == <<"none", "clean", "dirty", "dirty", "stale", "stale", "stale",
                      "clean", "dirty", "dirty", "dirty", "stale", "stale">>
  <2>1. List \in Seq(Steps) /\ Len(List) = 12
    BY DEF List, Steps, Steady, Builds
  <2>2. run \in Seq(States) /\ Len(run) = 13
    BY DEF States
  <2>3. \A i \in 1..12 : Move(run[i], List[i], run[i + 1])
    BY DEF List, Move, Builds
  <2>4. run[1] = "none" /\ run[12 + 1] # "dirty"
    OBVIOUS
  <2>5. Run(run, List)
    BY <2>1, <2>2, <2>3 DEF Run
  <2> HIDE DEF run
  <2> QED
    BY <2>1, <2>4, <2>5, KeepsRun
<1>6. Keeps(<<"pinner", "initArgs", "defer", "call">>, "none")
  <2> DEFINE run == <<"none", "clean", "dirty", "deferred", "deferred">>
         s == <<"pinner", "initArgs", "defer", "call">>
  <2>1. Run(run, s) /\ run[1] = "none" /\ run[Len(s) + 1] # "dirty"
    BY DEF Run, Move, Steps, Steady, Builds, States
  <2> QED
    BY <2>1, KeepsRun
<1>7. Keeps(<<"pinner", "bytes", "var", "defer", "call">>, "none")
  <2> DEFINE run == <<"none", "clean", "dirty", "dirty", "deferred", "deferred">>
         s == <<"pinner", "bytes", "var", "defer", "call">>
  <2>1. Run(run, s) /\ run[1] = "none" /\ run[Len(s) + 1] # "dirty"
    BY DEF Run, Move, Steps, Steady, Builds, States
  <2> QED
    BY <2>1, KeepsRun
<1>8. Keeps(<<"pinner", "var", "call", "unpin", "check",
        "anew", "nonNull", "var", "call", "unpin", "check">>, "none")
  <2> DEFINE run == <<"none", "clean", "dirty", "dirty", "stale", "stale", "clean",
                      "dirty", "dirty", "dirty", "stale", "stale">>
         s == <<"pinner", "var", "call", "unpin", "check",
        "anew", "nonNull", "var", "call", "unpin", "check">>
  <2>1. s \in Seq(Steps) /\ Len(s) = 11
    BY DEF Steps, Steady, Builds
  <2>2. run \in Seq(States) /\ Len(run) = 12
    BY DEF States
  <2>3. \A i \in 1..11 : Move(run[i], s[i], run[i + 1])
    BY DEF Move, Builds
  <2>4. run[1] = "none" /\ run[11 + 1] # "dirty"
    OBVIOUS
  <2>5. Run(run, s)
    BY <2>1, <2>2, <2>3 DEF Run
  <2> HIDE DEF run, s
  <2>6. Keeps(s, "none")
    BY <2>1, <2>4, <2>5, KeepsRun
  <2> QED
    BY <2>6 DEF s
<1>9. Keeps(<<"pinner", "nonNull", "var", "defer", "call", "check">>, "none")
  <2> DEFINE run == <<"none", "clean", "dirty", "dirty",
                      "deferred", "deferred", "deferred">>
         s == <<"pinner", "nonNull", "var", "defer", "call", "check">>
  <2>1. Run(run, s) /\ run[1] = "none" /\ run[Len(s) + 1] # "dirty"
    BY DEF Run, Move, Steps, Steady, Builds, States
  <2> QED
    BY <2>1, KeepsRun
<1>10. Keeps(<<"pinner", "nonNull", "defer", "call", "check">>, "none")
  <2> DEFINE run == <<"none", "clean", "dirty", "deferred", "deferred", "deferred">>
         s == <<"pinner", "nonNull", "defer", "call", "check">>
  <2>1. Run(run, s) /\ run[1] = "none" /\ run[Len(s) + 1] # "dirty"
    BY DEF Run, Move, Steps, Steady, Builds, States
  <2> QED
    BY <2>1, KeepsRun
<1>11. Keeps(<<"pinner", "var", "call", "unpin">>, "none")
  <2> DEFINE run == <<"none", "clean", "dirty", "dirty", "stale">>
         s == <<"pinner", "var", "call", "unpin">>
  <2>1. Run(run, s) /\ run[1] = "none" /\ run[Len(s) + 1] # "dirty"
    BY DEF Run, Move, Steps, Steady, Builds, States
  <2> QED
    BY <2>1, KeepsRun
<1> QED
  BY <1>1, <1>2, <1>3, <1>4, <1>5, <1>6, <1>7, <1>8, <1>9, <1>10, <1>11

\* A method with an arena.
LEMMA KeepsArena ==
  ASSUME NEW s \in Seq(Steady)
  PROVE  Keeps(Arena \o s, "none")
  BY LeadsArena DEF Keeps, States

\* A method with an arena and a second pass.
LEMMA KeepsPasses ==
  ASSUME NEW s \in Seq(Steady)
  PROVE  Keeps(Arena \o s \o DataPass, "none")
<1>1. DataPass \in Seq(Steady)
  BY DEF DataPass, Steady, Builds
<1> QED
  BY <1>1, LeadsArena, LeadsSteady, LeadsOn DEF Keeps, States

\* A method with an arena for each of two passes.
LEMMA KeepsAgain ==
  ASSUME NEW s \in Seq(Steady), NEW t \in Seq(Steady)
  PROVE  Keeps(Arena \o s \o Arena \o t, "none")
<1>1. << >> \in Seq(Steady) /\ Arena \o << >> = Arena
  BY DEF Arena
<1>2. Leads(Arena, "deferred", "deferred")
  BY <1>1, LeadsArena
<1>3. Leads(Arena \o s, "none", "deferred") /\ Leads(t, "deferred", "deferred")
  BY LeadsArena, LeadsSteady
<1> QED
  BY <1>2, <1>3, LeadsOn DEF Keeps, States

\* Every method of the tables has a run.
LEMMA KeepsMethods == \A table \in Tables : \A m \in DOMAIN table : Keeps(table[m], "none")
<1>1. \A m \in DOMAIN LibraryMethods : Keeps(LibraryMethods[m], "none")
  BY KeepsWhole DEF LibraryMethods
<1>2. \A m \in DOMAIN SlotMethods : Keeps(SlotMethods[m], "none")
  BY KeepsWhole DEF SlotMethods
<1>3. \A m \in DOMAIN SessionMethods : Keeps(SessionMethods[m], "none")
  BY KeepsWhole DEF SessionMethods
<1>4. \A m \in DOMAIN ObjectMethods : Keeps(ObjectMethods[m], "none")
  <2>1. /\ <<"attrs", "var", "call", "check">> \in Seq(Steady)
        /\ <<"query", "call", "check">> \in Seq(Steady)
        /\ <<"attrs", "call", "check">> \in Seq(Steady)
        /\ <<"attrs", "call">> \in Seq(Steady)
    BY DEF Steady, Builds
  <2>2. Keeps(NewObject, "none") /\ Keeps(GetAttributes, "none") /\ Keeps(Template, "none")
    BY <2>1, KeepsArena, KeepsAgain DEF NewObject, GetAttributes, Template
  <2> QED
    BY <2>2, KeepsWhole DEF ObjectMethods
<1>5. \A m \in DOMAIN OperationMethods : Keeps(OperationMethods[m], "none")
  <2>1. /\ <<"mech", "call">> \in Seq(Steady)
        /\ <<"nonNull", "var", "call", "check">> \in Seq(Steady)
        /\ <<"var", "call", "check">> \in Seq(Steady)
    BY DEF Steady, Builds
  <2>2. Keeps(InitMethod, "none") /\ Keeps(TwoPass, "none") /\ Keeps(TwoPassNoInput, "none")
    BY <2>1, KeepsArena, KeepsPasses DEF InitMethod, TwoPass, TwoPassNoInput
  <2> QED
    BY <2>2, KeepsWhole DEF OperationMethods
<1>6. \A m \in DOMAIN KeyMethods : Keeps(KeyMethods[m], "none")
  <2>1. /\ <<"mech", "attrs", "var", "call", "check">> \in Seq(Steady)
        /\ <<"mech", "attrs", "attrs", "var", "var", "call", "check">> \in Seq(Steady)
        /\ <<"mech", "var", "call", "check">> \in Seq(Steady)
        /\ <<"mech", "attrs", "bytes", "var", "call", "check">> \in Seq(Steady)
    BY DEF Steady, Builds
  <2>2. /\ Keeps(NewKey, "none") /\ Keeps(NewKeyPair, "none")
        /\ Keeps(Wrapped, "none") /\ Keeps(Unwrapped, "none")
    BY <2>1, KeepsArena, KeepsPasses DEF NewKey, NewKeyPair, Wrapped, Unwrapped
  <2> QED
    BY <2>2 DEF KeyMethods
<1>7. \A m \in DOMAIN RandomMethods : Keeps(RandomMethods[m], "none")
  BY KeepsWhole DEF RandomMethods
<1>8. \A m \in DOMAIN WaitMethods : Keeps(WaitMethods[m], "none")
  BY KeepsWhole DEF WaitMethods
<1> QED
  BY <1>1, <1>2, <1>3, <1>4, <1>5, <1>6, <1>7, <1>8 DEF Tables

-----------------------------------------------------------------------------
(* Steps *)

\* The edges of what a step builds stay in it.
LEMMA ShapesAreGraphs ==
  ASSUME NEW step \in DOMAIN Shapes, NEW shape \in Shapes[step]
  PROVE  step \in Builds /\ shape.n \in Nat /\ shape.edges \subseteq (1..shape.n) \X (1..shape.n)
<1>1. NULL.n \in Nat /\ NULL.edges \subseteq (1..NULL.n) \X (1..NULL.n)
  BY DEF NULL
<1>2. ASSUME NEW k \in Nat
      PROVE  Struct(k).n \in Nat /\ Struct(k).edges \subseteq (1..Struct(k).n) \X (1..Struct(k).n)
  BY DEF Struct
<1>3. ASSUME NEW k \in Nat
      PROVE  Nested(k).n \in Nat /\ Nested(k).edges \subseteq (1..Nested(k).n) \X (1..Nested(k).n)
  BY DEF Nested
<1>4. step \in Builds
  BY DEF Shapes, Builds
<1>5. shape = NULL \/ (\E k \in Nat : shape = Struct(k)) \/ (\E k \in Nat : shape = Nested(k))
  BY MaxValuesAssumption
     DEF Shapes, PinBytes, PinNonNull, InitArgs, MarshalAttributes, MarshalForQuery,
         MarshalMechanism
<1> QED
  BY <1>1, <1>2, <1>3, <1>4, <1>5

\* What a step builds adds only itself to what C can reach.
LEMMA MarshalReaches ==
  ASSUME MemoryInv, NEW step, NEW shape, Marshal(step, shape),
         shape.n \in Nat, shape.edges \subseteq (1..shape.n) \X (1..shape.n)
  PROVE  Reachable' \subseteq Reachable \cup (made + 1)..made'
<1> DEFINE New == (made + 1)..made'
           From(H, X) == X \cup {e[2] : e \in {d \in H : d[1] \in X}}
<1>1. made \in Nat /\ args \subseteq 1..made /\ holds \subseteq (1..made) \X (1..made)
      /\ made' = made + shape.n
  BY DEF MemoryInv, Marshal
<1>2. args' \subseteq args \cup New
  BY <1>1 DEF Marshal
<1>3. ASSUME NEW d \in holds' PROVE d \in holds \/ (d[1] \in New /\ d[2] \in New)
  BY <1>1, <1>3 DEF Marshal
<1>4. ASSUME NEW X \in SUBSET (1..made), NEW Y, Y \subseteq X \cup New
      PROVE  From(holds', Y) \subseteq From(holds, X) \cup New /\ From(holds, X) \subseteq 1..made
  <2>1. ASSUME NEW d \in holds', d[1] \in Y PROVE d[2] \in From(holds, X) \cup New
    <3>1. CASE d \in holds
      <4>1. d[1] \notin New
        BY <1>1, <3>1
      <4> QED
        BY <1>4, <2>1, <3>1, <4>1
    <3>2. CASE d[2] \in New
      BY <3>2
    <3> QED
      BY <1>3, <3>1, <3>2
  <2>2. ASSUME NEW d \in holds PROVE d[2] \in 1..made
    BY <1>1
  <2> QED
    BY <1>4, <2>1, <2>2
<1> HIDE DEF From, New
<1>5. From(holds, args) \subseteq 1..made /\ From(holds', args') \subseteq From(holds, args) \cup New
  BY <1>1, <1>2, <1>4
<1>6. From(holds', From(holds', args')) \subseteq From(holds, From(holds, args)) \cup New
  BY <1>4, <1>5
<1> QED
  BY <1>6 DEF From, New, Reachable, Follow

\* The initial state satisfies the invariant.
LEMMA PinInitInv == PinInit => PinInv
<1> SUFFICES ASSUME PinInit PROVE PinInv
  OBVIOUS
<1>1. pins \in Seq(SUBSET Nat) /\ Pinned = {}
  BY DEF PinInit, Pinned
<1> QED
  BY <1>1 DEF PinInit, PinInv, MemoryInv

\* A method that is at a step moves.
LEMMA NextMove ==
  ASSUME PinInv, NEW step, At(step)
  PROVE  \E q \in States, r \in States :
           Fits(q) /\ Move(q, step, r) /\ Keeps(Tail(todo), r)
<1>1. PICK q \in States : Keeps(todo, q) /\ Fits(q)
  BY DEF At, PinInv
<1> QED
  BY <1>1, KeepsStep DEF At

\* A running method whose steps have a run from the state of the memory.
LEMMA Moved ==
  ASSUME phase' \in {"go", "C"}, MemoryInv', NEW q \in States, Keeps(todo', q), Fits(q)',
         phase' = "C" => q # "stale"
  PROVE  PinInv'
<1>1. phase' = "C" => Reachable' \subseteq Pinned'
  BY DEF Fits
<1> QED
  BY <1>1 DEF PinInv

\* A method starts without a Pinner.
LEMMA BeginStep ==
  ASSUME PinInv, NEW table \in Tables, NEW name \in DOMAIN table, Begin(table[name])
  PROVE  PinInv'
<1>1. pins' = << >> /\ Pinned' = {} /\ args' = {} /\ Reachable' = {}
  BY DEF Begin, Pinned, Reachable, Follow
<1>2. MemoryInv'
  BY <1>1 DEF Begin, MemoryInv
<1>3. Fits("none")'
  BY <1>1 DEF Fits
<1>4. Keeps(todo', "none")
  BY KeepsMethods DEF Begin
<1> QED
  BY <1>2, <1>3, <1>4, Moved DEF Begin, States

\* A Pinner is declared.
LEMMA PinnerStep ==
  ASSUME PinInv, Pinner PROVE PinInv'
<1>1. PICK q \in States, r \in States :
        Fits(q) /\ Move(q, "pinner", r) /\ Keeps(Tail(todo), r)
  BY NextMove DEF Pinner
<1>2. q \in {"none", "deferred"} /\ r = "clean"
  BY <1>1 DEF Move, Builds
<1>3. /\ pins \in Seq(SUBSET Nat) /\ pins' = Append(pins, {}) /\ pins' \in Seq(SUBSET Nat)
      /\ Len(pins') = Len(pins) + 1 /\ pins'[Len(pins) + 1] = {}
      /\ \A i \in 1..Len(pins) : pins'[i] = pins[i]
  BY DEF Pinner, PinInv, MemoryInv
<1>4. Pinned' = Pinned /\ Reachable' = Reachable
  <2>1. ASSUME NEW o, o \in Pinned' PROVE o \in Pinned
    BY <1>3, <2>1 DEF Pinned
  <2>2. ASSUME NEW o, o \in Pinned PROVE o \in Pinned'
    <3>1. PICK i \in 1..Len(pins) : o \in pins[i]
      BY <1>3, <2>2 DEF Pinned
    <3> QED
      BY <1>3, <3>1 DEF Pinned
  <2> QED
    BY <2>1, <2>2 DEF Pinner, Reachable, Follow
<1>5. MemoryInv'
  BY <1>3, <1>4 DEF Pinner, PinInv, MemoryInv
<1>6. \A i \in 1..Len(pins) : i \in deferred \/ pins[i] = {}
  BY <1>1, <1>2, <1>3 DEF Fits
<1>7. Fits(r)'
  <2>1. pins' # << >>
    BY <1>3
  <2>2. \A i \in DOMAIN pins' : i \in deferred' \/ pins'[i] = {}
    BY <1>3, <1>6 DEF Pinner
  <2>3. pins'[Len(pins')] = {}
    BY <1>3
  <2> QED
    BY <1>1, <1>2, <1>4, <2>1, <2>2, <2>3 DEF Fits
<1> QED
  BY <1>1, <1>5, <1>7, Moved DEF Pinner, Done, At

\* Its Unpin is deferred.
LEMMA DeferStep ==
  ASSUME PinInv, Defer PROVE PinInv'
<1>1. PICK q \in States, r \in States :
        Fits(q) /\ Move(q, "defer", r) /\ Keeps(Tail(todo), r)
  BY NextMove DEF Defer
<1>2. q \in {"clean", "dirty"} /\ r = "deferred"
  BY <1>1 DEF Move, Builds
<1>3. Pinned' = Pinned /\ Reachable' = Reachable
  BY DEF Defer, Pinned, Reachable, Follow
<1>4. Fits(r)'
  BY <1>1, <1>2, <1>3 DEF Defer, Fits
<1>5. MemoryInv'
  BY <1>3 DEF Defer, PinInv, MemoryInv
<1> QED
  BY <1>1, <1>4, <1>5, Moved DEF Defer, Done, At

\* Memory is made and pinned.
LEMMA MarshalStep ==
  ASSUME PinInv, NEW step \in DOMAIN Shapes, NEW shape \in Shapes[step], Marshal(step, shape)
  PROVE  PinInv'
<1> DEFINE New == (made + 1)..made'
           last == Len(pins)
<1>1. /\ step \in Builds
      /\ shape.n \in Nat /\ shape.edges \subseteq (1..shape.n) \X (1..shape.n)
  BY ShapesAreGraphs
<1>2. PICK q \in States, r \in States :
        Fits(q) /\ Move(q, step, r) /\ Keeps(Tail(todo), r)
  BY NextMove DEF Marshal
<1>3. q \in {"clean", "dirty", "deferred"} /\ r = IF q = "deferred" THEN q ELSE "dirty"
  BY <1>1, <1>2 DEF Move, Builds
<1>4. /\ pins \in Seq(SUBSET Nat) /\ last \in 1..Len(pins)
      /\ made \in Nat /\ made' \in Nat /\ made <= made' /\ made' = made + shape.n
  BY <1>1, <1>2, <1>3, EmptySeq DEF Fits, PinInv, MemoryInv, Marshal
<1>5. /\ pins' \in Seq(SUBSET Nat) /\ Len(pins') = last
      /\ pins'[last] = pins[last] \cup New
      /\ \A i \in 1..last : i # last => pins'[i] = pins[i]
  <2>1. New \in SUBSET Nat /\ pins' = [pins EXCEPT ![last] = @ \cup New]
    BY <1>4 DEF Marshal
  <2>2. pins[last] \cup New \in SUBSET Nat
    BY <1>4, <2>1
  <2>3. pins' = [pins EXCEPT ![last] = pins[last] \cup New]
    BY <2>1
  <2> HIDE DEF New
  <2> QED
    BY <1>4, <2>2, <2>3, ExceptSeq
<1>6. Pinned' = Pinned \cup New
  <2> HIDE DEF New
  <2>1. DOMAIN pins = 1..last /\ DOMAIN pins' = 1..last
    BY <1>4, <1>5
  <2> HIDE DEF last
  <2>2. ASSUME NEW o, o \in Pinned' PROVE o \in Pinned \cup New
    <3>1. PICK i \in 1..last : o \in pins'[i]
      BY <2>1, <2>2 DEF Pinned
    <3>2. o \in pins[i] \/ o \in New
      BY <1>5, <3>1
    <3> QED
      BY <2>1, <3>2 DEF Pinned
  <2>3. ASSUME NEW o, o \in Pinned PROVE o \in Pinned'
    <3>1. PICK i \in 1..last : o \in pins[i]
      BY <2>1, <2>3 DEF Pinned
    <3>2. o \in pins'[i]
      BY <1>5, <3>1
    <3> QED
      BY <2>1, <3>2 DEF Pinned
  <2>4. New \subseteq Pinned'
    BY <1>4, <1>5, <2>1 DEF Pinned
  <2> QED
    BY <2>2, <2>3, <2>4
<1>7. Reachable' \subseteq Pinned'
  BY <1>1, <1>2, <1>3, <1>6, MarshalReaches DEF Fits, PinInv
<1>8. MemoryInv'
  <2>1. args' \subseteq 1..made'
    <3>1. args \subseteq 1..made /\ args' = args \cup {o \in {made + 1} : shape.n > 0}
      BY DEF Marshal, PinInv, MemoryInv
    <3>2. 1..made \subseteq 1..made' /\ (shape.n > 0 => made + 1 \in 1..made')
      BY <1>1, <1>4
    <3> QED
      BY <3>1, <3>2
  <2>2. ASSUME NEW d \in holds' PROVE d \in (1..made') \X (1..made')
    <3>1. CASE d \in holds
      BY <1>4, <3>1 DEF PinInv, MemoryInv
    <3>2. CASE \E e \in shape.edges : d = <<made + e[1], made + e[2]>>
      <4>1. PICK e \in shape.edges : d = <<made + e[1], made + e[2]>>
        BY <3>2
      <4>2. e[1] \in 1..shape.n /\ e[2] \in 1..shape.n
        BY <1>1
      <4>3. made + e[1] \in 1..made' /\ made + e[2] \in 1..made'
        BY <1>1, <1>4, <4>2
      <4> QED
        BY <4>1, <4>3
    <3> QED
      BY <3>1, <3>2 DEF Marshal
  <2>3. Pinned' \subseteq heap'
    BY <1>6 DEF Marshal, PinInv, MemoryInv
  <2> QED
    BY <1>4, <1>5, <2>1, <2>2, <2>3 DEF MemoryInv
<1>9. Fits(r)'
  <2>1. pins' # << >> /\ Len(pins') = last
    BY <1>4, <1>5
  <2>2. \A i \in DOMAIN pins' : i \in deferred' \/ pins'[i] = {} \/ (r = "dirty" /\ i = Len(pins'))
    <3>1. ASSUME NEW i \in 1..last
          PROVE  i \in deferred \/ pins'[i] = {} \/ (r = "dirty" /\ i = last)
      <4>1. i \in deferred \/ pins[i] = {} \/ (q = "dirty" /\ i = last)
        BY <1>2, <1>4 DEF Fits
      <4>2. i = last => r = "dirty" \/ i \in deferred
        BY <1>2, <1>3 DEF Fits
      <4> QED
        BY <1>5, <4>1, <4>2
    <3>2. deferred' = deferred
      BY DEF Marshal
    <3>3. DOMAIN pins' = 1..Len(pins')
      BY <1>5
    <3> QED
      BY <2>1, <3>1, <3>2, <3>3
  <2>3. r = "deferred" => Len(pins') \in deferred'
    BY <1>2, <1>3, <2>1 DEF Fits, Marshal
  <2> QED
    BY <1>3, <1>7, <2>1, <2>2, <2>3 DEF Fits
<1> QED
  BY <1>2, <1>8, <1>9, Moved DEF Marshal, Done, At

\* Steps that change neither the memory nor the Pinners.
LEMMA ControlStep ==
  ASSUME PinInv, UNCHANGED <<made, heap, holds, args, pins, deferred>>
  PROVE  /\ MemoryInv' /\ Pinned' = Pinned /\ Reachable' = Reachable
         /\ \A q \in States : Fits(q) <=> Fits(q)'
  BY DEF PinInv, MemoryInv, Pinned, Reachable, Follow, Fits

\* A mechanism whose parameters have no memory.
LEMMA MarshalFailsStep ==
  ASSUME PinInv, MarshalFails PROVE PinInv'
<1>1. PICK q \in States, r \in States : Fits(q) /\ Move(q, "mech", r)
  BY NextMove DEF MarshalFails
<1>2. q = "deferred"
  BY <1>1 DEF Move, Builds
<1> QED
  BY <1>1, <1>2, KeepsEnd, ControlStep, Moved DEF MarshalFails, At

\* C is called with addresses that are pinned.
LEMMA CallStep ==
  ASSUME PinInv, Call PROVE PinInv'
<1>1. PICK q \in States, r \in States :
        Fits(q) /\ Move(q, "call", r) /\ Keeps(Tail(todo), r)
  BY NextMove DEF Call
<1>2. q # "stale" /\ r = q
  BY <1>1 DEF Move, Builds
<1> QED
  BY <1>1, <1>2, ControlStep, Moved DEF Call, Done

\* C returns.
LEMMA CReturnsStep ==
  ASSUME PinInv, CReturns PROVE PinInv'
<1>1. PICK q \in States : Keeps(todo, q) /\ Fits(q)
  BY DEF CReturns, PinInv
<1> QED
  BY <1>1, ControlStep, Moved DEF CReturns

\* The error, or the count, is looked at.
LEMMA CheckStep ==
  ASSUME PinInv, Check PROVE PinInv'
<1>1. PICK step \in {"check", "checkCount"} : At(step) /\ todo' \in {<< >>, Tail(todo)}
  BY DEF Check
<1>2. PICK q \in States, r \in States :
        Fits(q) /\ Move(q, step, r) /\ Keeps(Tail(todo), r)
  BY <1>1, NextMove
<1>3. q # "dirty" /\ r = q
  BY <1>1, <1>2 DEF Move, Builds
<1>4. Keeps(todo', q)
  BY <1>1, <1>2, <1>3, KeepsEnd
<1> QED
  BY <1>1, <1>2, <1>4, ControlStep, Moved DEF Check, At

\* The last Pinner is emptied.
LEMMA UnpinStep ==
  ASSUME PinInv, Unpin PROVE PinInv'
<1>1. PICK q \in States, r \in States :
        Fits(q) /\ Move(q, "unpin", r) /\ Keeps(Tail(todo), r)
  BY NextMove DEF Unpin
<1>2. q = "dirty" /\ r = "stale"
  BY <1>1 DEF Move, Builds
<1>3. pins \in Seq(SUBSET Nat) /\ Len(pins) \in 1..Len(pins)
  BY <1>1, <1>2, EmptySeq DEF Fits, PinInv, MemoryInv
<1>4. /\ pins' \in Seq(SUBSET Nat) /\ Len(pins') = Len(pins)
      /\ \A i \in 1..Len(pins) : pins'[i] = IF i = Len(pins) THEN {} ELSE pins[i]
  BY <1>3, ExceptSeq DEF Unpin
<1>5. DOMAIN pins = 1..Len(pins) /\ DOMAIN pins' = 1..Len(pins)
  BY <1>3, <1>4
<1>6. Pinned' \subseteq Pinned
  BY <1>4, <1>5 DEF Pinned
<1>7. MemoryInv'
  BY <1>4, <1>6 DEF Unpin, PinInv, MemoryInv
<1>8. Fits(r)'
  <2>1. \A i \in 1..Len(pins) : i \in deferred \/ pins[i] = {} \/ i = Len(pins)
    BY <1>1, <1>5 DEF Fits
  <2>2. \A i \in DOMAIN pins' : i \in deferred' \/ pins'[i] = {}
    BY <1>4, <1>5, <2>1 DEF Unpin
  <2>3. pins' # << >> /\ pins'[Len(pins')] = {}
    BY <1>3, <1>4
  <2> QED
    BY <1>2, <2>2, <2>3 DEF Fits
<1> QED
  BY <1>1, <1>7, <1>8, Moved DEF Unpin, Done, At

\* The addresses are taken anew.
LEMMA AnewStep ==
  ASSUME PinInv, Anew PROVE PinInv'
<1>1. PICK q \in States, r \in States :
        Fits(q) /\ Move(q, "anew", r) /\ Keeps(Tail(todo), r)
  BY NextMove DEF Anew
<1>2. q = "stale" /\ r = "clean"
  BY <1>1 DEF Move, Builds
<1>3. Pinned' = Pinned /\ Reachable' = {}
  BY DEF Anew, Pinned, Reachable, Follow
<1>4. MemoryInv'
  BY <1>3 DEF Anew, PinInv, MemoryInv
<1>5. Fits(r)'
  BY <1>1, <1>2, <1>3 DEF Anew, Fits
<1> QED
  BY <1>1, <1>4, <1>5, Moved DEF Anew, Done, At

\* The method returns.
LEMMA ReturnStep ==
  ASSUME PinInv, Return PROVE PinInv'
<1>1. PICK q \in States : Keeps(<< >>, q) /\ Fits(q)
  BY DEF Return, PinInv
<1>2. q # "dirty"
  BY <1>1, KeepsEnd
<1>3. /\ pins \in Seq(SUBSET Nat) /\ DOMAIN pins = 1..Len(pins)
      /\ pins' = [i \in DOMAIN pins |-> IF i \in deferred THEN {} ELSE pins[i]]
  BY DEF Return, PinInv, MemoryInv
<1>4. DOMAIN pins' = 1..Len(pins) /\ \A i \in 1..Len(pins) : pins'[i] = {}
  BY <1>1, <1>2, <1>3 DEF Fits
<1>5. pins' \in Seq(SUBSET Nat) /\ Pinned' = {}
  <2>1. pins' = [i \in 1..Len(pins) |-> {}]
    BY <1>3, <1>4
  <2>2. Len(pins) \in Nat /\ {} \in SUBSET Nat
    BY <1>3
  <2> QED
    BY <1>4, <2>1, <2>2 DEF Pinned
<1> QED
  BY <1>5 DEF Return, PinInv, MemoryInv

\* The collector runs.
LEMMA CollectStep ==
  ASSUME PinInv, Collect PROVE PinInv'
<1>1. Pinned' = Pinned /\ Reachable' = Reachable
  BY DEF Collect, Pinned, Reachable, Follow
<1>2. MemoryInv'
  BY <1>1 DEF Collect, PinInv, MemoryInv
<1>3. PICK q \in States : Keeps(todo, q) /\ Fits(q)
  BY DEF Collect, PinInv
<1>4. Fits(q)'
  BY <1>1, <1>3 DEF Collect, Fits
<1> QED
  BY <1>1, <1>2, <1>3, <1>4 DEF Collect, PinInv

\* Every step keeps the invariant.
LEMMA PinNextInv == PinInv /\ [PinNext]_pinVars => PinInv'
<1> SUFFICES ASSUME PinInv, [PinNext]_pinVars PROVE PinInv'
  OBVIOUS
<1>1. CASE UNCHANGED pinVars
  BY <1>1 DEF pinVars, PinInv, MemoryInv, Pinned, Reachable, Follow, Fits
<1> QED
  BY <1>1, BeginStep, PinnerStep, DeferStep, MarshalStep, MarshalFailsStep, CallStep,
     CReturnsStep, CheckStep, UnpinStep, AnewStep, ReturnStep, CollectStep DEF PinNext

\* PinInv holds in every reachable state.
LEMMA PinInvariant == PinSpec => []PinInv
  BY PinInitInv, PinNextInv, PTL DEF PinSpec

-----------------------------------------------------------------------------
(* Labels *)

FieldInv ==
  /\ given \in [Slots -> Labels]
  /\ tokens = [s \in Slots |-> padString(given[s], Width)]

IInv == FieldInv /\ LabelsFound

\* A label is a sequence of characters, and the empty one is one.
LEMMA LabelsAreSeqs ==
  Labels \subseteq Seq(Letters \cup {Blank}) /\ << >> \in Labels
<1>1. ASSUME NEW l \in Labels PROVE l \in Seq(Letters \cup {Blank})
  <2>1. PICK k \in 0..Width + 1 : l \in [1..k -> Letters \cup {Blank}]
    BY DEF Labels, Strings
  <2>2. k \in Nat
    BY WidthAssumption
  <2> QED
    BY <2>1, <2>2
<1>2. << >> \in [1..0 -> Letters \cup {Blank}] /\ 0 \in 0..Width + 1
  BY WidthAssumption
<1> QED
  BY <1>1, <1>2 DEF Labels, Strings

\* Trimming undoes padding for a label that fits and does not end in a blank.
LEMMA TrimUndoesPad ==
  ASSUME NEW l \in Labels, Plain(l)
  PROVE  trimPaddedString(padString(l, Width)) = l
<1> DEFINE b == padString(l, Width)
           Ends(e) == /\ e = 0 \/ b[e] # Blank
                      /\ \A i \in e + 1..Len(b) : b[i] = Blank
<1>1. l \in Seq(Letters \cup {Blank}) /\ Len(l) \in 0..Width /\ Width \in Nat
  BY LabelsAreSeqs, WidthAssumption DEF Plain
<1>2. Len(b) = Width
  BY <1>1 DEF padString
<1>3. \A i \in 1..Len(l) : b[i] = l[i]
  BY <1>1 DEF padString
<1>4. \A i \in Len(l) + 1..Width : b[i] = Blank
  BY <1>1 DEF padString
<1>5. Len(l) # 0 => b[Len(l)] # Blank
  <2>1. Len(l) # 0 => l # << >> /\ Len(l) \in 1..Len(l)
    BY <1>1, EmptySeq
  <2> QED
    BY <1>3, <2>1 DEF Plain
<1>6. b \in Seq(Letters \cup {Blank})
  <2>1. \A i \in 1..Width : b[i] \in Letters \cup {Blank}
    <3>1. ASSUME NEW i \in 1..Width, i <= Len(l) PROVE l[i] \in Letters \cup {Blank}
      BY <1>1, <3>1
    <3> QED
      BY <1>1, <3>1 DEF padString
  <2> QED
    BY <1>1, <2>1 DEF padString
<1> HIDE DEF b
<1>7. Ends(Len(l))
  BY <1>2, <1>4, <1>5
<1>8. ASSUME NEW e \in 0..Len(b), Ends(e) PROVE e = Len(l)
  <2>1. CASE e > Len(l)
    BY <1>1, <1>2, <1>4, <1>8, <2>1
  <2>2. CASE e < Len(l)
    BY <1>1, <1>2, <1>5, <1>8, <2>2
  <2> QED
    BY <1>1, <1>2, <2>1, <2>2
<1>9. (CHOOSE e \in 0..Len(b) : Ends(e)) = Len(l)
  <2>1. Len(l) \in 0..Len(b)
    BY <1>1, <1>2
  <2> HIDE DEF Ends
  <2> QED
    BY <1>7, <1>8, <2>1
<1>10. trimPaddedString(b) = SubSeq(b, 1, Len(l))
  BY <1>9 DEF trimPaddedString
<1>11. SubSeq(b, 1, Len(l)) = l
  <2>1. /\ SubSeq(b, 1, Len(l)) \in Seq(Letters \cup {Blank})
        /\ Len(SubSeq(b, 1, Len(l))) = Len(l)
        /\ \A i \in 1..Len(l) : SubSeq(b, 1, Len(l))[i] = b[i]
    BY <1>1, <1>2, <1>6
  <2> QED
    BY <1>1, <1>3, <2>1, SeqEqual
<1> QED
  BY <1>10, <1>11 DEF b

\* Of some slots there is a first.
LEMMA FirstSlot ==
  ASSUME NEW M \in SUBSET Slots, M # {}
  PROVE  {s \in M : \A t \in M : s <= t} # {}
<1>1. M \subseteq Nat
  BY SlotsAssumption
<1>2. PICK s \in M : \A t \in M : <<t, s>> \notin OpToRel(<, Nat)
  BY <1>1, NatLessThanWellFounded, WFMin
<1>3. \A t \in M : s <= t
  <2>1. OpToRel(<, Nat) = {r \in Nat \X Nat : r[1] < r[2]}
    BY DEF OpToRel
  <2>2. ASSUME NEW t \in M PROVE ~(t < s)
    <3>1. <<t, s>> \in Nat \X Nat
      BY <1>1
    <3> QED
      BY <1>2, <2>1, <3>1
  <2> QED
    BY <1>1, <2>2
<1> QED
  BY <1>3

\* The initial state satisfies the invariant.
LEMMA InitIInv == Init => IInv
<1> SUFFICES ASSUME Init PROVE IInv
  OBVIOUS
<1>1. FieldInv
  BY LabelsAreSeqs DEF Init, FieldInv
<1> QED
  BY <1>1 DEF Init, IInv, LabelsFound

\* OpenSession finds a token with the label.
LEMMA OpenSessionStep ==
  ASSUME IInv, NEW label \in Labels, NEW failing \in SUBSET Slots,
         OpenSession(label, failing)
  PROVE  IInv'
<1> DEFINE matches == {s \in Slots \ failing : trimPaddedString(tokens[s]) = label}
<1>1. /\ result' = [op |-> "OpenSession", label |-> label, failing |-> failing,
                    slot |-> {s \in matches : \A t \in matches : s <= t}]
      /\ UNCHANGED <<tokens, given>>
  BY DEF OpenSession
<1>2. ASSUME NEW s \in Slots, Plain(given[s]) PROVE trimPaddedString(tokens[s]) = given[s]
  BY <1>2, TrimUndoesPad DEF IInv, FieldInv
<1>3. ASSUME NEW s \in matches, Plain(given[s]) PROVE given[s] = label
  BY <1>2, <1>3
<1>4. ASSUME Plain(label), NEW s \in Slots \ failing, given[s] = label
      PROVE  {r \in matches : \A t \in matches : r <= t} # {}
  <2>1. s \in matches
    BY <1>2, <1>4
  <2> QED
    BY <2>1, FirstSlot
<1>5. FieldInv'
  BY <1>1 DEF IInv, FieldInv
<1> HIDE DEF matches
<1>6. LabelsFound'
  BY <1>1, <1>3, <1>4 DEF LabelsFound, Plain
<1> QED
  BY <1>5, <1>6 DEF IInv

\* Every step keeps the invariant.
LEMMA NextIInv == IInv /\ [Next]_vars => IInv'
<1> SUFFICES ASSUME IInv, [Next]_vars PROVE IInv'
  OBVIOUS
<1>1. ASSUME NEW label \in Labels, NEW s \in Slots, InitToken(s, label) PROVE IInv'
  <2>1. FieldInv'
    BY <1>1 DEF InitToken, IInv, FieldInv
  <2>2. result'.op = "none"
    BY <1>1 DEF InitToken, Free
  <2> QED
    BY <2>1, <2>2 DEF IInv, LabelsFound
<1>2. ASSUME UNCHANGED <<tokens, given>>, result'.op # "OpenSession" PROVE IInv'
  BY <1>2 DEF IInv, FieldInv, LabelsFound
<1>3. ASSUME NEW name, Pass(name) PROVE IInv'
  BY <1>2, <1>3 DEF Pass
<1>4. ASSUME NEW scheme, NEW hash, NEW salt, SignRSA(scheme, hash, salt) PROVE IInv'
  BY <1>2, <1>4 DEF SignRSA
<1>5. ASSUME NEW sig, SignECDSA(sig) PROVE IInv'
  BY <1>2, <1>5 DEF SignECDSA
<1>6. CASE Continue
  BY <1>2, <1>6 DEF Continue
<1>7. CASE UNCHANGED vars
  BY <1>7 DEF vars, IInv, FieldInv, LabelsFound
<1> QED
  BY <1>1, <1>3, <1>4, <1>5, <1>6, <1>7, OpenSessionStep DEF Next

\* IInv holds in every reachable state.
LEMMA InductiveInvariant == Spec => []IInv
  BY InitIInv, NextIInv, PTL DEF Spec

-----------------------------------------------------------------------------
(* Signing *)

\* A sequence is two others, one after the other.
LEMMA Concat ==
  ASSUME NEW s \in Seq(Nat), NEW t \in Seq(Nat), NEW u \in Seq(Nat),
         Len(u) = Len(s) + Len(t),
         \A i \in 1..Len(s) : u[i] = s[i],
         \A j \in 1..Len(t) : u[Len(s) + j] = t[j]
  PROVE  u = s \o t
<1>1. s \o t \in Seq(Nat) /\ Len(s \o t) = Len(u)
  OBVIOUS
<1>2. ASSUME NEW i \in 1..Len(u) PROVE (s \o t)[i] = u[i]
  <2>1. CASE i <= Len(s)
    BY <2>1
  <2>2. CASE ~(i <= Len(s))
    <3>1. i - Len(s) \in 1..Len(t) /\ i = Len(s) + (i - Len(s))
      BY <2>2
    <3>2. (s \o t)[i] = t[i - Len(s)]
      BY <2>2, <3>1
    <3> QED
      BY <3>1, <3>2
  <2> QED
    BY <2>1, <2>2
<1> QED
  BY <1>1, <1>2, SeqEqual

\* Or three.
LEMMA ThreeParts ==
  ASSUME NEW s \in Seq(Nat), NEW t \in Seq(Nat), NEW r \in Seq(Nat), NEW u \in Seq(Nat),
         Len(u) = Len(s) + Len(t) + Len(r),
         \A i \in 1..Len(s) : u[i] = s[i],
         \A j \in 1..Len(t) : u[Len(s) + j] = t[j],
         \A j \in 1..Len(r) : u[Len(s) + Len(t) + j] = r[j]
  PROVE  u = s \o t \o r
<1> DEFINE start == SubSeq(u, 1, Len(s) + Len(t))
<1>1. /\ start \in Seq(Nat) /\ Len(start) = Len(s) + Len(t)
      /\ \A i \in 1..Len(s) + Len(t) : start[i] = u[i]
  OBVIOUS
<1> HIDE DEF start
<1>2. start = s \o t
  <2>1. \A i \in 1..Len(s) : start[i] = s[i]
    BY <1>1
  <2>2. ASSUME NEW j \in 1..Len(t) PROVE start[Len(s) + j] = t[j]
    <3>1. Len(s) + j \in 1..Len(s) + Len(t)
      OBVIOUS
    <3> QED
      BY <1>1, <3>1
  <2> QED
    BY <1>1, <2>1, <2>2, Concat
<1>3. u = start \o r
  <2>1. /\ Len(u) = Len(start) + Len(r)
        /\ \A i \in 1..Len(start) : u[i] = start[i]
        /\ \A j \in 1..Len(r) : u[Len(start) + j] = r[j]
    BY <1>1
  <2> QED
    BY <1>1, <2>1, Concat
<1> QED
  BY <1>2, <1>3

\* The conversion from int to uint.
LEMMA ModInRange ==
  ASSUME NEW n \in Int
  PROVE  /\ n \in 0..UintMod - 1 => n % UintMod = n
         /\ n \in -(UintMod \div 2).. -1 => n % UintMod = n + UintMod /\ n % UintMod > MaxSalt
  BY UintModAssumption, MaxSaltAssumption

\* The prefixes are the DER that comes before the digest in a DigestInfo.
LEMMA PrefixesAreRight ==
  \A hash \in Supported : digestInfoPrefix[hash] = DigestInfo(hash)
<1>1. digestInfoPrefix["SHA1"] = DigestInfo("SHA1")
  <2> DEFINE u == digestInfoPrefix["SHA1"]
             oid == Oid["SHA1"]
             head == <<48, 33, 48, 9, 6, 5>>
             tail == <<5, 0, 4, 20>>
  <2>1. /\ u \in Seq(Nat) /\ oid \in Seq(Nat) /\ head \in Seq(Nat) /\ tail \in Seq(Nat)
        /\ Len(u) = 15 /\ Len(oid) = 5 /\ Len(head) = 6 /\ Len(tail) = 4
    BY DEF digestInfoPrefix, Oid
  <2>2. /\ \A i \in 1..6 : u[i] = head[i]
        /\ \A j \in 1..5 : u[6 + j] = oid[j]
        /\ \A j \in 1..4 : u[6 + 5 + j] = tail[j]
    BY DEF digestInfoPrefix, Oid
  <2>3. HashSize["SHA1"] = 20
    BY DEF HashSize
  <2> HIDE DEF u, oid
  <2>4. DigestInfo("SHA1") = head \o oid \o tail
    BY <2>1, <2>3 DEF DigestInfo, oid
  <2> HIDE DEF head, tail
  <2>5. u = head \o oid \o tail
    <3>1. /\ Len(u) = Len(head) + Len(oid) + Len(tail)
          /\ \A i \in 1..Len(head) : u[i] = head[i]
          /\ \A j \in 1..Len(oid) : u[Len(head) + j] = oid[j]
          /\ \A j \in 1..Len(tail) : u[Len(head) + Len(oid) + j] = tail[j]
      BY <2>1, <2>2
    <3> QED
      BY <2>1, <3>1, ThreeParts
  <2> QED
    BY <2>4, <2>5 DEF u
<1>2. digestInfoPrefix["SHA224"] = DigestInfo("SHA224")
  <2> DEFINE u == digestInfoPrefix["SHA224"]
             oid == Oid["SHA224"]
             head == <<48, 45, 48, 13, 6, 9>>
             tail == <<5, 0, 4, 28>>
  <2>1. /\ u \in Seq(Nat) /\ oid \in Seq(Nat) /\ head \in Seq(Nat) /\ tail \in Seq(Nat)
        /\ Len(u) = 19 /\ Len(oid) = 9 /\ Len(head) = 6 /\ Len(tail) = 4
    BY DEF digestInfoPrefix, Oid
  <2>2. /\ \A i \in 1..6 : u[i] = head[i]
        /\ \A j \in 1..9 : u[6 + j] = oid[j]
        /\ \A j \in 1..4 : u[6 + 9 + j] = tail[j]
    BY DEF digestInfoPrefix, Oid
  <2>3. HashSize["SHA224"] = 28
    BY DEF HashSize
  <2> HIDE DEF u, oid
  <2>4. DigestInfo("SHA224") = head \o oid \o tail
    BY <2>1, <2>3 DEF DigestInfo, oid
  <2> HIDE DEF head, tail
  <2>5. u = head \o oid \o tail
    <3>1. /\ Len(u) = Len(head) + Len(oid) + Len(tail)
          /\ \A i \in 1..Len(head) : u[i] = head[i]
          /\ \A j \in 1..Len(oid) : u[Len(head) + j] = oid[j]
          /\ \A j \in 1..Len(tail) : u[Len(head) + Len(oid) + j] = tail[j]
      BY <2>1, <2>2
    <3> QED
      BY <2>1, <3>1, ThreeParts
  <2> QED
    BY <2>4, <2>5 DEF u
<1>3. digestInfoPrefix["SHA256"] = DigestInfo("SHA256")
  <2> DEFINE u == digestInfoPrefix["SHA256"]
             oid == Oid["SHA256"]
             head == <<48, 49, 48, 13, 6, 9>>
             tail == <<5, 0, 4, 32>>
  <2>1. /\ u \in Seq(Nat) /\ oid \in Seq(Nat) /\ head \in Seq(Nat) /\ tail \in Seq(Nat)
        /\ Len(u) = 19 /\ Len(oid) = 9 /\ Len(head) = 6 /\ Len(tail) = 4
    BY DEF digestInfoPrefix, Oid
  <2>2. /\ \A i \in 1..6 : u[i] = head[i]
        /\ \A j \in 1..9 : u[6 + j] = oid[j]
        /\ \A j \in 1..4 : u[6 + 9 + j] = tail[j]
    BY DEF digestInfoPrefix, Oid
  <2>3. HashSize["SHA256"] = 32
    BY DEF HashSize
  <2> HIDE DEF u, oid
  <2>4. DigestInfo("SHA256") = head \o oid \o tail
    BY <2>1, <2>3 DEF DigestInfo, oid
  <2> HIDE DEF head, tail
  <2>5. u = head \o oid \o tail
    <3>1. /\ Len(u) = Len(head) + Len(oid) + Len(tail)
          /\ \A i \in 1..Len(head) : u[i] = head[i]
          /\ \A j \in 1..Len(oid) : u[Len(head) + j] = oid[j]
          /\ \A j \in 1..Len(tail) : u[Len(head) + Len(oid) + j] = tail[j]
      BY <2>1, <2>2
    <3> QED
      BY <2>1, <3>1, ThreeParts
  <2> QED
    BY <2>4, <2>5 DEF u
<1>4. digestInfoPrefix["SHA384"] = DigestInfo("SHA384")
  <2> DEFINE u == digestInfoPrefix["SHA384"]
             oid == Oid["SHA384"]
             head == <<48, 65, 48, 13, 6, 9>>
             tail == <<5, 0, 4, 48>>
  <2>1. /\ u \in Seq(Nat) /\ oid \in Seq(Nat) /\ head \in Seq(Nat) /\ tail \in Seq(Nat)
        /\ Len(u) = 19 /\ Len(oid) = 9 /\ Len(head) = 6 /\ Len(tail) = 4
    BY DEF digestInfoPrefix, Oid
  <2>2. /\ \A i \in 1..6 : u[i] = head[i]
        /\ \A j \in 1..9 : u[6 + j] = oid[j]
        /\ \A j \in 1..4 : u[6 + 9 + j] = tail[j]
    BY DEF digestInfoPrefix, Oid
  <2>3. HashSize["SHA384"] = 48
    BY DEF HashSize
  <2> HIDE DEF u, oid
  <2>4. DigestInfo("SHA384") = head \o oid \o tail
    BY <2>1, <2>3 DEF DigestInfo, oid
  <2> HIDE DEF head, tail
  <2>5. u = head \o oid \o tail
    <3>1. /\ Len(u) = Len(head) + Len(oid) + Len(tail)
          /\ \A i \in 1..Len(head) : u[i] = head[i]
          /\ \A j \in 1..Len(oid) : u[Len(head) + j] = oid[j]
          /\ \A j \in 1..Len(tail) : u[Len(head) + Len(oid) + j] = tail[j]
      BY <2>1, <2>2
    <3> QED
      BY <2>1, <3>1, ThreeParts
  <2> QED
    BY <2>4, <2>5 DEF u
<1>5. digestInfoPrefix["SHA512"] = DigestInfo("SHA512")
  <2> DEFINE u == digestInfoPrefix["SHA512"]
             oid == Oid["SHA512"]
             head == <<48, 81, 48, 13, 6, 9>>
             tail == <<5, 0, 4, 64>>
  <2>1. /\ u \in Seq(Nat) /\ oid \in Seq(Nat) /\ head \in Seq(Nat) /\ tail \in Seq(Nat)
        /\ Len(u) = 19 /\ Len(oid) = 9 /\ Len(head) = 6 /\ Len(tail) = 4
    BY DEF digestInfoPrefix, Oid
  <2>2. /\ \A i \in 1..6 : u[i] = head[i]
        /\ \A j \in 1..9 : u[6 + j] = oid[j]
        /\ \A j \in 1..4 : u[6 + 9 + j] = tail[j]
    BY DEF digestInfoPrefix, Oid
  <2>3. HashSize["SHA512"] = 64
    BY DEF HashSize
  <2> HIDE DEF u, oid
  <2>4. DigestInfo("SHA512") = head \o oid \o tail
    BY <2>1, <2>3 DEF DigestInfo, oid
  <2> HIDE DEF head, tail
  <2>5. u = head \o oid \o tail
    <3>1. /\ Len(u) = Len(head) + Len(oid) + Len(tail)
          /\ \A i \in 1..Len(head) : u[i] = head[i]
          /\ \A j \in 1..Len(oid) : u[Len(head) + j] = oid[j]
          /\ \A j \in 1..Len(tail) : u[Len(head) + Len(oid) + j] = tail[j]
      BY <2>1, <2>2
    <3> QED
      BY <2>1, <3>1, ThreeParts
  <2> QED
    BY <2>4, <2>5 DEF u
<1> QED
  BY <1>1, <1>2, <1>3, <1>4, <1>5 DEF Supported, HashSize

\* No two hashes have the same prefix.
LEMMA PrefixesDiffer ==
  \A h \in Supported, g \in Supported : digestInfoPrefix[h] = digestInfoPrefix[g] => h = g
<1> DEFINE second == [h \in Supported |-> digestInfoPrefix[h][2]]
<1>1. /\ second["SHA1"] = 33 /\ second["SHA224"] = 45 /\ second["SHA256"] = 49
      /\ second["SHA384"] = 65 /\ second["SHA512"] = 81
  BY DEF Supported, HashSize, digestInfoPrefix
<1>2. \A h \in Supported, g \in Supported :
         digestInfoPrefix[h] = digestInfoPrefix[g] => second[h] = second[g]
  OBVIOUS
<1>3. Supported = {"SHA1", "SHA224", "SHA256", "SHA384", "SHA512"}
  BY DEF Supported, HashSize
<1> HIDE DEF second
<1> QED
  BY <1>1, <1>2, <1>3

\* A PKCS #1 v1.5 signature is of the hash that was asked for.
LEMMA PKCS1Right ==
  ASSUME NEW hash \in DOMAIN HashSize
  PROVE  TokenSigns(PKCS1Params(hash))
           = IF hash \in Supported THEN [scheme |-> "PKCS1v15", hash |-> hash, salt |-> 0]
             ELSE Error
<1>1. DOMAIN digestInfoPrefix = Supported
  BY DEF digestInfoPrefix, Supported, HashSize
<1>2. CASE hash \in Supported
  <2> DEFINE fits == {h \in Supported : DigestInfo(h) = digestInfoPrefix[hash]}
  <2>1. fits = {hash}
    BY <1>2, PrefixesAreRight, PrefixesDiffer
  <2>2. PKCS1Params(hash) = [scheme |-> "RSA_PKCS", prefix |-> digestInfoPrefix[hash]]
    BY <1>1, <1>2 DEF PKCS1Params
  <2>3. TokenSigns(PKCS1Params(hash))
          = IF fits = {} THEN Error
            ELSE [scheme |-> "PKCS1v15", hash |-> CHOOSE h \in fits : TRUE, salt |-> 0]
    BY <2>2 DEF TokenSigns
  <2>4. fits # {} /\ (CHOOSE h \in fits : TRUE) = hash
    BY <2>1
  <2> HIDE DEF fits
  <2> QED
    BY <1>2, <2>3, <2>4
<1>3. CASE hash \notin Supported
  BY <1>1, <1>3 DEF PKCS1Params, TokenSigns, Error
<1> QED
  BY <1>2, <1>3

\* A salt that a key can take stays as it is, any other is too long for every key.
LEMMA SaltLenRight ==
  ASSUME NEW hash \in DOMAIN HashSize, NEW salt \in Salts, NEW wanted,
         wanted = IF salt \in {PSSSaltLengthAuto, PSSSaltLengthEqualsHash}
                  THEN HashSize[hash] ELSE salt
  PROVE  /\ wanted \in 0..MaxSalt => SaltLen(hash, salt) = wanted
         /\ wanted \notin 0..MaxSalt => SaltLen(hash, salt) > MaxSalt
<1>1. HashSize[hash] \in 0..64
  BY DEF HashSize
<1>2. UintMod \in Nat /\ UintMod > 1000 /\ MaxSalt \in Nat /\ MaxSalt < UintMod
  BY UintModAssumption, MaxSaltAssumption
<1>3. salt \in -(UintMod \div 2)..UintMod - 1
  BY <1>2, SaltsAssumption
<1>4. wanted \in -(UintMod \div 2)..UintMod - 1
  BY <1>1, <1>2, <1>3
<1>5. SaltLen(hash, salt) = wanted % UintMod
  BY DEF SaltLen
<1>6. CASE wanted >= 0
  <2>1. wanted % UintMod = wanted
    BY <1>2, <1>4, <1>6, ModInRange
  <2> QED
    BY <1>2, <1>4, <1>5, <1>6, <2>1
<1>7. CASE wanted < 0
  <2>1. wanted % UintMod > MaxSalt
    BY <1>2, <1>4, <1>7, ModInRange
  <2> QED
    BY <1>2, <1>4, <1>5, <1>7, <2>1
<1> QED
  BY <1>2, <1>4, <1>6, <1>7

\* A PSS signature has the hash and the salt length that were asked for.
LEMMA PSSRight ==
  ASSUME NEW hash \in DOMAIN HashSize, NEW salt \in Salts, NEW wanted,
         wanted = IF salt \in {PSSSaltLengthAuto, PSSSaltLengthEqualsHash}
                  THEN HashSize[hash] ELSE salt
  PROVE  TokenSigns(PSSParams(hash, salt))
           = IF hash \in Supported /\ wanted \in 0..MaxSalt
             THEN [scheme |-> "PSS", hash |-> hash, salt |-> wanted] ELSE Error
<1>1. DOMAIN pssHashToMechanism = Supported
  BY DEF pssHashToMechanism, Supported, HashSize
<1>2. CASE hash \in Supported
  <2> DEFINE params == PSSParams(hash, salt)
             fits == {h \in Supported : HashOf[params.hash] = h /\ MgfHash[params.mgf] = h}
  <2>1. /\ params = [scheme |-> "RSA_PKCS_PSS", hash |-> pssHashToMechanism[hash].hash,
                     mgf |-> pssHashToMechanism[hash].mgf, saltLen |-> SaltLen(hash, salt)]
    BY <1>1, <1>2 DEF PSSParams
  <2>2. HashOf[pssHashToMechanism[hash].hash] = hash /\ MgfHash[pssHashToMechanism[hash].mgf] = hash
    BY <1>2 DEF pssHashToMechanism, HashOf, MgfHash, Supported, HashSize
  <2>3. fits = {hash}
    BY <1>2, <2>1, <2>2
  <2>4. fits # {} /\ (CHOOSE h \in fits : TRUE) = hash
    BY <2>3
  <2>5. TokenSigns(params)
          = IF fits = {} \/ params.saltLen > MaxSalt THEN Error
            ELSE [scheme |-> "PSS", hash |-> CHOOSE h \in fits : TRUE, salt |-> params.saltLen]
    BY <2>1 DEF TokenSigns
  <2>6. params.saltLen = SaltLen(hash, salt)
    BY <2>1
  <2> HIDE DEF fits, params
  <2>7. (wanted \in 0..MaxSalt => SaltLen(hash, salt) = wanted)
        /\ (wanted \notin 0..MaxSalt => SaltLen(hash, salt) > MaxSalt)
    BY SaltLenRight
  <2>8. wanted \in 0..MaxSalt => ~(wanted > MaxSalt)
    BY MaxSaltAssumption
  <2> QED
    BY <1>2, <2>4, <2>5, <2>6, <2>7, <2>8 DEF params
<1>3. CASE hash \notin Supported
  BY <1>1, <1>3 DEF PSSParams, TokenSigns, Error
<1> QED
  BY <1>2, <1>3

\* Some bytes, up to a number.
LEMMA BytesAreSeqs ==
  ASSUME NEW n \in Nat
  PROVE  Bytes(n) = {s \in Seq(0..Base - 1) : Len(s) <= n}
<1> DEFINE B == 0..Base - 1
<1>1. Bytes(n) = UNION {[1..k -> B] : k \in 0..n}
  BY DEF Bytes
<1> HIDE DEF B
<1>2. ASSUME NEW s \in Bytes(n) PROVE s \in Seq(B) /\ Len(s) <= n
  <2>1. PICK k \in 0..n : s \in [1..k -> B]
    BY <1>1
  <2>2. k \in Nat /\ k <= n
    OBVIOUS
  <2> QED
    BY <2>1, <2>2
<1>3. ASSUME NEW s \in Seq(B), Len(s) <= n PROVE s \in Bytes(n)
  <2>1. Len(s) \in 0..n
    BY <1>3
  <2>2. s \in [1..Len(s) -> B]
    OBVIOUS
  <2> QED
    BY <1>1, <2>1, <2>2
<1>4. Bytes(n) = {s \in Seq(B) : Len(s) <= n}
  BY <1>2, <1>3
<1> QED
  BY <1>4 DEF B

\* A sequence over a set is one over a larger set.
LEMMA SeqOfMore ==
  ASSUME NEW B, NEW C, B \subseteq C, NEW x \in Seq(B)
  PROVE  x \in Seq(C)
<1>1. \A i \in 1..Len(x) : x[i] \in C
  <2>1. \A i \in 1..Len(x) : x[i] \in B
    OBVIOUS
  <2> QED
    BY <2>1
<1>2. Len(x) \in Nat /\ x = [i \in 1..Len(x) |-> x[i]]
  OBVIOUS
<1> QED
  BY <1>1, <1>2

\* An ECDSA signature is cut in its halves, and refused if it has none.
LEMMA ECDSARight ==
  ASSUME NEW sig \in Bytes(MaxSig)
  PROVE  IF \E r, s \in Bytes(MaxSig \div 2) : Halves(sig, r, s)
         THEN \E r, s \in Bytes(MaxSig \div 2) :
                /\ Halves(sig, r, s)
                /\ pkcs11ToRFC5480(sig) = [scheme |-> "ECDSA", r |-> SetBytes(r), s |-> SetBytes(s)]
         ELSE pkcs11ToRFC5480(sig) = Error
<1> DEFINE B == 0..Base - 1
           half == Len(sig) \div 2
           r0 == SubSeq(sig, 1, half)
           s0 == SubSeq(sig, half + 1, Len(sig))
<1>1. MaxSig \in Nat /\ MaxSig \div 2 \in Nat /\ B \subseteq Nat
  BY MaxSigAssumption, BaseAssumption
<1>2. sig \in Seq(B) /\ Len(sig) \in 0..MaxSig
  BY <1>1, BytesAreSeqs
<1>8. Bytes(MaxSig \div 2) = {s \in Seq(B) : Len(s) <= MaxSig \div 2}
  BY <1>1, BytesAreSeqs
<1> HIDE DEF B
<1>3. ASSUME NEW r \in Bytes(MaxSig \div 2), NEW s \in Bytes(MaxSig \div 2), Halves(sig, r, s)
      PROVE  Len(sig) # 0 /\ Len(sig) % 2 = 0
  <2>1. r \in Seq(B) /\ s \in Seq(B)
    BY <1>8
  <2>2. sig = r \o s /\ Len(r) = Len(s) /\ sig # << >>
    BY <1>3 DEF Halves
  <2>3. Len(sig) = Len(r) + Len(r) /\ Len(r) \in Nat
    <3>1. Len(r \o s) = Len(r) + Len(s) /\ Len(r) \in Nat
      BY <2>1
    <3> QED
      BY <2>2, <3>1
  <2>4. Len(sig) # 0
    BY <1>2, <2>2, EmptySeq
  <2>5. (Len(r) + Len(r)) % 2 = 0
    BY <2>3
  <2> QED
    BY <2>3, <2>4, <2>5
<1>4. ASSUME Len(sig) # 0, Len(sig) % 2 = 0
      PROVE  /\ r0 \in Bytes(MaxSig \div 2) /\ s0 \in Bytes(MaxSig \div 2) /\ Halves(sig, r0, s0)
             /\ pkcs11ToRFC5480(sig) = [scheme |-> "ECDSA", r |-> SetBytes(r0), s |-> SetBytes(s0)]
  <2>1. half \in Nat /\ Len(sig) = half + half /\ half <= MaxSig \div 2
    BY <1>1, <1>2, <1>4
  <2> HIDE DEF half
  <2>2. /\ r0 \in Seq(B) /\ Len(r0) = half /\ \A i \in 1..half : r0[i] = sig[i]
        /\ s0 \in Seq(B) /\ Len(s0) = half /\ \A i \in 1..half : s0[i] = sig[half + i]
    <3>1. half \in 0..Len(sig) /\ half + 1 \in 1..Len(sig) + 1 /\ Len(sig) - (half + 1) + 1 = half
      BY <1>2, <2>1
    <3> QED
      BY <1>2, <2>1, <3>1
  <2> HIDE DEF r0, s0
  <2>3. r0 \in Bytes(MaxSig \div 2) /\ s0 \in Bytes(MaxSig \div 2)
    BY <1>8, <2>1, <2>2
  <2>4. sig = r0 \o s0
    <3>1. r0 \in Seq(Nat) /\ s0 \in Seq(Nat) /\ sig \in Seq(Nat)
      BY <1>1, <1>2, <2>2, SeqOfMore
    <3>2. /\ Len(sig) = Len(r0) + Len(s0)
          /\ \A i \in 1..Len(r0) : sig[i] = r0[i]
          /\ \A j \in 1..Len(s0) : sig[Len(r0) + j] = s0[j]
      BY <2>1, <2>2
    <3> QED
      BY <3>1, <3>2, Concat
  <2>5. sig # << >>
    BY <1>4
  <2> QED
    BY <1>4, <2>2, <2>3, <2>4, <2>5 DEF Halves, pkcs11ToRFC5480, half, r0, s0
<1>5. ~(Len(sig) # 0 /\ Len(sig) % 2 = 0) => pkcs11ToRFC5480(sig) = Error
  BY DEF pkcs11ToRFC5480
<1> HIDE DEF r0, s0
<1> QED
  BY <1>3, <1>4, <1>5

\* An RSA signature is the one that was asked for.
LEMMA SignRSARight ==
  ASSUME NEW scheme, NEW hash \in DOMAIN HashSize, NEW salt, SignRSA(scheme, hash, salt),
         (scheme = "PKCS1v15" /\ salt = 0) \/ (scheme = "PSS" /\ salt \in Salts)
  PROVE  SignsWhatWasAsked'
<1> DEFINE asked == [scheme |-> scheme, hash |-> hash, salt |-> salt]
           wanted == IF scheme = "PSS" /\ salt \in {PSSSaltLengthAuto, PSSSaltLengthEqualsHash}
                     THEN HashSize[hash] ELSE salt
<1>1. result' = [op |-> "SignRSA", asked |-> asked,
                 got |-> TokenSigns(IF scheme = "PSS" THEN PSSParams(hash, salt)
                                    ELSE PKCS1Params(hash))]
  BY DEF SignRSA
<1>2. Wanted(asked) = [scheme |-> scheme, hash |-> hash, salt |-> wanted]
  BY DEF Wanted
<1>3. result'.got = IF hash \in Supported /\ wanted \in 0..MaxSalt THEN Wanted(asked) ELSE Error
  <2>1. CASE scheme = "PKCS1v15" /\ salt = 0
    BY <1>1, <1>2, <2>1, PKCS1Right, MaxSaltAssumption, UintModAssumption
  <2>2. CASE scheme = "PSS" /\ salt \in Salts
    BY <1>1, <1>2, <2>2, PSSRight
  <2> QED
    BY <2>1, <2>2
<1> HIDE DEF wanted
<1>4. Wanted(asked).hash = hash /\ Wanted(asked).salt = wanted
  BY <1>2
<1> QED
  BY <1>1, <1>3, <1>4 DEF SignsWhatWasAsked

-----------------------------------------------------------------------------
(* Theorems *)

\* For templates of any size: whatever the collector does while a method runs, C finds
\* every address that it was passed, or that is stored in what it was passed.
\* (Each method of Ctx, arena.go.)
THEOREM AddressesStayValid == PinSpec => []NoDangling
<1>1. PinInv => NoDangling
  BY DEF PinInv, MemoryInv, NoDangling
<1> QED
  BY <1>1, PinInvariant, PTL

\* For templates of any size: a method that has returned, however, leaves nothing pinned.
\* (defer a.free(), defer pinner.Unpin(), and the Unpins before the error is looked at.)
THEOREM PinsAreReleased == PinSpec => []NoPinLeft
<1>1. PinInv => NoPinLeft
  BY DEF PinInv, NoPinLeft
<1> QED
  BY <1>1, PinInvariant, PTL

\* For labels of any width: a token is found by the label it was given, if that
\* fits and does not end in a blank, and by no other such label.
\* (padString, trimPaddedString, openSession.)
THEOREM LabelsAreFound == Spec => []LabelsFound
<1>1. IInv => LabelsFound
  BY DEF IInv
<1> QED
  BY <1>1, InductiveInvariant, PTL

\* For any salt length that an int can be, keys of any size and signatures of any length:
\* the token signs what was asked for, or Sign fails, and it fails only if it must.
\* (rsaSigningParams, digestInfoPrefix, pssHashToMechanism, pkcs11ToRFC5480.)
THEOREM TokenSignsWhatWasAsked == Spec => []SignsWhatWasAsked
<1>1. Init => SignsWhatWasAsked
  BY DEF Init, SignsWhatWasAsked
<1>2. SignsWhatWasAsked /\ [Next]_vars => SignsWhatWasAsked'
  <2> SUFFICES ASSUME SignsWhatWasAsked, [Next]_vars PROVE SignsWhatWasAsked'
    OBVIOUS
  <2>1. ASSUME result'.op \notin {"SignRSA", "SignECDSA"} PROVE SignsWhatWasAsked'
    BY <2>1 DEF SignsWhatWasAsked
  <2>2. ASSUME NEW label, NEW s, InitToken(s, label) PROVE SignsWhatWasAsked'
    BY <2>1, <2>2 DEF InitToken, Free
  <2>3. ASSUME NEW label, NEW failing, OpenSession(label, failing) PROVE SignsWhatWasAsked'
    BY <2>1, <2>3 DEF OpenSession
  <2>4. ASSUME NEW name, Pass(name) PROVE SignsWhatWasAsked'
    BY <2>1, <2>4 DEF Pass
  <2>5. ASSUME NEW hash \in DOMAIN HashSize, SignRSA("PKCS1v15", hash, 0)
        PROVE  SignsWhatWasAsked'
    BY <2>5, SignRSARight
  <2>6. ASSUME NEW hash \in DOMAIN HashSize, NEW salt \in Salts, SignRSA("PSS", hash, salt)
        PROVE  SignsWhatWasAsked'
    BY <2>6, SignRSARight
  <2>7. ASSUME NEW sig \in Bytes(MaxSig), SignECDSA(sig) PROVE SignsWhatWasAsked'
    <3>1. result' = [op |-> "SignECDSA", sig |-> sig, got |-> pkcs11ToRFC5480(sig)]
      BY <2>7 DEF SignECDSA
    <3> QED
      BY <3>1, ECDSARight DEF SignsWhatWasAsked
  <2>8. CASE Continue
    BY <2>1, <2>8 DEF Continue
  <2>9. CASE UNCHANGED vars
    BY <2>9 DEF vars, SignsWhatWasAsked
  <2> QED
    BY <2>2, <2>3, <2>4, <2>5, <2>6, <2>7, <2>8, <2>9 DEF Next
<1> QED
  BY <1>1, <1>2, PTL DEF Spec
=============================================================================

----------------------------- MODULE SettingsProofs -----------------------------
(***************************************************************************)
(* The settings handler, for any names, texts, addresses and files: the    *)
(* hash points into the list, what counts as saved is in the file, and the *)
(* reason the second holds, that every text comes back from the            *)
(* conversions it goes through on its way to the file.                     *)
(***************************************************************************)
EXTENDS SettingsHandler, ListFacts

-----------------------------------------------------------------------------
(* The loop of DeEscapify *)

Base == [out |-> <<>>, mode |-> "plain"]
States == [out : Seq(Characters), mode : {"plain", "escape", "skip"}]

Run(t) == FoldLeft(DeEscapeStep, Base, t)

LEMMA EscapeFacts ==
    /\ DOMAIN EscapeLetter = {"\\", "\"", "'", "\n", "\r", "\t"}
    /\ EscapeLetter["\\"] = "\\" /\ EscapeLetter["\""] = "\"" /\ EscapeLetter["'"] = "'"
    /\ EscapeLetter["\n"] = "n" /\ EscapeLetter["\r"] = "r" /\ EscapeLetter["\t"] = "t"
    /\ \A d \in DOMAIN EscapeLetter : d \in Characters /\ EscapeLetter[d] \in Characters
    /\ \A d, e \in DOMAIN EscapeLetter : EscapeLetter[d] = EscapeLetter[e] => d = e
<1>1. DOMAIN EscapeLetter = {"\\", "\"", "'", "\n", "\r", "\t"}
  BY DEF EscapeLetter
<1>2. /\ EscapeLetter["\\"] = "\\" /\ EscapeLetter["\""] = "\"" /\ EscapeLetter["'"] = "'"
      /\ EscapeLetter["\n"] = "n" /\ EscapeLetter["\r"] = "r" /\ EscapeLetter["\t"] = "t"
  BY DEF EscapeLetter
<1>3. \A d \in DOMAIN EscapeLetter : d \in Characters /\ EscapeLetter[d] \in Characters
  BY DEF Characters
<1>4. \A d, e \in DOMAIN EscapeLetter : EscapeLetter[d] = EscapeLetter[e] => d = e
  BY <1>1, <1>2
<1>5. QED BY <1>1, <1>2, <1>3, <1>4

LEMMA StepForms ==
    ASSUME NEW v \in States, NEW c \in Characters
    PROVE  /\ DeEscapeStep(v, c) \in States
           /\ v.mode = "plain" /\ c = Backslash
                => DeEscapeStep(v, c) = [out |-> v.out, mode |-> "escape"]
           /\ v.mode = "plain" /\ c # Backslash
                => DeEscapeStep(v, c) = [out |-> Append(v.out, c), mode |-> "plain"]
           /\ \A d \in DOMAIN EscapeLetter : v.mode = "escape" /\ c = EscapeLetter[d]
                => DeEscapeStep(v, c) = [out |-> Append(v.out, d), mode |-> "plain"]
<1>1. v.out \in Seq(Characters) /\ v.mode \in {"plain", "escape", "skip"}
      /\ v = [out |-> v.out, mode |-> v.mode]
  BY DEF States
<1>2. CASE v.mode = "plain" /\ c = Backslash
  <2>1. DeEscapeStep(v, c) = [v EXCEPT !.mode = "escape"]
    BY Zenon, <1>2 DEF DeEscapeStep
  <2>2. [v EXCEPT !.mode = "escape"] = [out |-> v.out, mode |-> "escape"]
    BY DEF States
  <2>3. QED BY <1>1, <1>2, <2>1, <2>2 DEF States
<1>3. CASE v.mode = "plain" /\ c # Backslash
  <2>1. DeEscapeStep(v, c) = [v EXCEPT !.out = Append(@, c)]
    BY <1>3 DEF DeEscapeStep
  <2>2. [v EXCEPT !.out = Append(@, c)] = [out |-> Append(v.out, c), mode |-> "plain"]
    BY <1>3 DEF States
  <2>3. Append(v.out, c) \in Seq(Characters)
    BY <1>1
  <2>4. QED BY <1>1, <1>3, <2>1, <2>2, <2>3 DEF States
<1>4. CASE v.mode = "skip"
  <2>1. DeEscapeStep(v, c) = [v EXCEPT !.mode = "plain"]
    BY <1>4 DEF DeEscapeStep
  <2>2. [v EXCEPT !.mode = "plain"] \in States
    BY <1>1 DEF States
  <2>3. QED BY <1>4, <2>1, <2>2
<1>5. CASE v.mode = "escape"
  <2> DEFINE known == {d \in DOMAIN EscapeLetter : EscapeLetter[d] = c}
  <2>1. DeEscapeStep(v, c) =
           IF known # {}
           THEN [out |-> Append(v.out, CHOOSE d \in known : TRUE), mode |-> "plain"]
           ELSE [out |-> Append(v.out, c), mode |-> "skip"]
    BY <1>5 DEF DeEscapeStep
  <2>2. CASE known = {}
    <3>1. DeEscapeStep(v, c) = [out |-> Append(v.out, c), mode |-> "skip"]
      BY <2>1, <2>2
    <3>2. \A d \in DOMAIN EscapeLetter : c # EscapeLetter[d]
      BY <2>2
    <3>3. Append(v.out, c) \in Seq(Characters)
      BY <1>1
    <3>4. QED BY <1>5, <3>1, <3>2, <3>3 DEF States
  <2>3. CASE known # {}
    <3> DEFINE e == CHOOSE d \in known : TRUE
    <3>1. e \in known
      BY <2>3
    <3>2. DeEscapeStep(v, c) = [out |-> Append(v.out, e), mode |-> "plain"]
      BY <2>1, <2>3
    <3> HIDE DEF e
    <3>3. e \in DOMAIN EscapeLetter /\ EscapeLetter[e] = c /\ e \in Characters
      BY <3>1, EscapeFacts
    <3>4. \A d \in DOMAIN EscapeLetter : c = EscapeLetter[d] => d = e
      BY <3>3, EscapeFacts
    <3>5. Append(v.out, e) \in Seq(Characters)
      BY <1>1, <3>3
    <3>6. DeEscapeStep(v, c) \in States
      BY <3>2, <3>5 DEF States
    <3>7. ASSUME NEW d \in DOMAIN EscapeLetter, c = EscapeLetter[d]
          PROVE  DeEscapeStep(v, c) = [out |-> Append(v.out, d), mode |-> "plain"]
      <4>1. d = e
        BY <3>4, <3>7
      <4>2. QED BY Zenon, <3>2, <4>1
    <3>8. v.mode # "plain"
      BY <1>5
    <3>9. QED BY Zenon, <3>6, <3>7, <3>8
  <2>4. QED BY <2>2, <2>3
<1>6. QED BY <1>1, <1>2, <1>3, <1>4, <1>5

\* The states of the loop over t, by the set of characters that it is behind.
Stages(f, t) ==
    /\ f[{}] = Base
    /\ \A s \in SUBSET (1..Len(t)) : s # {} => f[s] = DeEscapeStep(f[s \ {Max(s)}], t[Max(s)])

LEMMA RunStages ==
    ASSUME NEW t \in Seq(Characters)
    PROVE  \E f : Stages(f, t) /\ Run(t) = f[1..Len(t)] /\ Run(t) \in States
<1> DEFINE m == Len(t)
           Eq(f) == f = [s \in SUBSET (DOMAIN t) |->
                           IF s = {} THEN Base ELSE DeEscapeStep(f[s \ {Max(s)}], t[Max(s)])]
           chosen == CHOOSE f : Eq(f)
<1>1. Base \in States
  BY DEF Base, States
<1>2. m \in Nat /\ DOMAIN t = 1..m
  OBVIOUS
<1>3. ASSUME NEW k \in 1..m, NEW v \in States PROVE DeEscapeStep(v, t[k]) \in States
  BY StepForms
<1> HIDE DEF m
<1>4. \E f : Eq(f)
  <2> DEFINE step == [k \in 1..m |-> [v \in States |-> DeEscapeStep(v, t[k])]]
  <2>1. step \in [1..m -> [States -> States]]
    BY <1>3
  <2>2. \A k \in 1..m, v \in States : step[k][v] = DeEscapeStep(v, t[k])
    OBVIOUS
  <2> HIDE DEF step
  <2>3. PICK f \in [SUBSET (1..m) -> States] : Folding(f, Base, step, m)
    BY <1>1, <1>2, <2>1, FoldSolution
  <2>4. ASSUME NEW s \in SUBSET (1..m), s # {}
        PROVE  f[s] = DeEscapeStep(f[s \ {Max(s)}], t[Max(s)])
    <3>1. Max(s) \in 1..m
      BY <1>2, <2>4, MaxFacts
    <3>2. f[s \ {Max(s)}] \in States
      OBVIOUS
    <3>3. QED BY <2>2, <2>3, <2>4, <3>1, <3>2 DEF Folding
  <2>5. Eq(f)
    BY <1>2, <2>3, <2>4 DEF Folding
  <2>6. QED BY <2>5
<1>5. Eq(chosen)
  <2> HIDE DEF Eq
  <2>1. QED BY <1>4
<1>6. Run(t) = chosen[DOMAIN t]
  BY Zenon DEF Run, FoldLeft, MapThenFoldSet
<1> HIDE DEF chosen
<1>7. Stages(chosen, t)
  BY <1>2, <1>5 DEF Stages, m
<1>8. chosen[1..m] \in States
  <2>1. chosen[{}] \in States
    BY <1>1, <1>7 DEF Stages
  <2>2. ASSUME NEW s \in SUBSET (1..m), s # {}, chosen[s \ {Max(s)}] \in States
        PROVE  chosen[s] \in States
    <3>1. Max(s) \in 1..m
      BY <1>2, <2>2, MaxFacts
    <3>2. chosen[s] = DeEscapeStep(chosen[s \ {Max(s)}], t[Max(s)])
      BY <1>7, <2>2 DEF Stages, m
    <3>3. QED BY <1>3, <2>2, <3>1, <3>2
  <2>3. QED BY <1>2, <2>1, <2>2, FoldStays
<1>9. QED BY <1>2, <1>6, <1>7, <1>8 DEF m

\* The loop goes over the characters from the first to the last.
LEMMA RunAppend ==
    /\ Run(<<>>) = Base
    /\ \A t \in Seq(Characters) : Run(t) \in States
    /\ \A t \in Seq(Characters), c \in Characters :
         Run(Append(t, c)) = DeEscapeStep(Run(t), c)
<1>1. Run(<<>>) = Base
  <2>1. <<>> \in Seq(Characters) /\ 1..Len(<<>>) = {}
    OBVIOUS
  <2>2. QED BY <2>1, RunStages DEF Stages
<1>2. \A t \in Seq(Characters) : Run(t) \in States
  BY RunStages
<1>3. ASSUME NEW t \in Seq(Characters), NEW c \in Characters
      PROVE  Run(Append(t, c)) = DeEscapeStep(Run(t), c)
  <2> DEFINE u == Append(t, c)
             m == Len(t)
  <2>1. /\ u \in Seq(Characters) /\ Len(u) = m + 1 /\ u[m + 1] = c /\ m \in Nat
        /\ \A k \in 1..m : u[k] = t[k]
    OBVIOUS
  <2> HIDE DEF u, m
  <2>2. PICK f : Stages(f, t) /\ Run(t) = f[1..m]
    BY RunStages DEF m
  <2>3. PICK g : Stages(g, u) /\ Run(u) = g[1..(m + 1)]
    BY <2>1, RunStages
  <2> DEFINE T == {k \in Nat : k <= m => g[1..k] = f[1..k]}
  <2>4. 0 \in T
    <3>1. 1..0 = {}
      OBVIOUS
    <3>2. QED BY <2>2, <2>3, <3>1 DEF Stages
  <2>5. ASSUME NEW k \in Nat, k \in T PROVE k + 1 \in T
    <3>1. SUFFICES ASSUME k + 1 <= m PROVE g[1..(k + 1)] = f[1..(k + 1)]
      OBVIOUS
    <3>2. Max(1..(k + 1)) = k + 1
      BY MaxFacts, k + 1 \in Nat, k + 1 # 0
    <3>3. (1..(k + 1)) \ {k + 1} = 1..k /\ 1..(k + 1) # {}
      OBVIOUS
    <3>4. 1..(k + 1) \in SUBSET (1..m) /\ 1..(k + 1) \in SUBSET (1..(m + 1)) /\ k + 1 \in 1..m
      BY <2>1, <3>1
    <3>5. g[1..(k + 1)] = DeEscapeStep(g[1..k], u[k + 1])
      BY <2>1, <2>3, <3>2, <3>3, <3>4 DEF Stages
    <3>6. f[1..(k + 1)] = DeEscapeStep(f[1..k], t[k + 1])
      BY <2>2, <3>2, <3>3, <3>4 DEF Stages, m
    <3>7. g[1..k] = f[1..k] /\ u[k + 1] = t[k + 1]
      BY <2>1, <2>5, <3>1, <3>4
    <3>8. QED BY <3>5, <3>6, <3>7
  <2>6. m \in T
    <3> HIDE DEF T
    <3>1. QED BY <2>1, <2>4, <2>5, NatIn
  <2>7. Max(1..(m + 1)) = m + 1
    BY <2>1, MaxFacts, m + 1 \in Nat, m + 1 # 0
  <2>8. (1..(m + 1)) \ {m + 1} = 1..m /\ 1..(m + 1) # {}
    BY <2>1
  <2>9. g[1..(m + 1)] = DeEscapeStep(g[1..m], u[m + 1])
    BY <2>1, <2>3, <2>7, <2>8 DEF Stages
  <2>10. QED BY <2>1, <2>2, <2>3, <2>6, <2>9 DEF u
<1>4. QED BY <1>1, <1>2, <1>3

LEMMA EscapedCharFacts ==
    ASSUME NEW c \in Characters
    PROVE  /\ EscapedChar(c) \in Seq(Characters)
           /\ EscapedChar(c) # <<>>
           /\ EscapedChar(c)[1] \notin Quotes
           /\ \A t \in Seq(Characters) : Run(t).mode = "plain" =>
                 /\ t \o EscapedChar(c) \in Seq(Characters)
                 /\ Run(t \o EscapedChar(c)) = [out |-> Append(Run(t).out, c), mode |-> "plain"]
<1>1. CASE c \in DOMAIN EscapeLetter
  <2> DEFINE e == EscapeLetter[c]
  <2>1. e \in Characters /\ Backslash \in Characters /\ Backslash \notin Quotes
    BY <1>1, EscapeFacts DEF Backslash, Quotes
  <2>2. EscapedChar(c) = <<Backslash, e>>
    BY <1>1 DEF EscapedChar
  <2> HIDE DEF e
  <2>3. ASSUME NEW t \in Seq(Characters), Run(t).mode = "plain"
        PROVE  /\ t \o <<Backslash, e>> \in Seq(Characters)
               /\ Run(t \o <<Backslash, e>>) = [out |-> Append(Run(t).out, c), mode |-> "plain"]
    <3> DEFINE t1 == Append(t, Backslash)
    <3>1. t \o <<Backslash, e>> = Append(t1, e)
      BY <2>1, Pasting
    <3>2. t1 \in Seq(Characters) /\ Append(t1, e) \in Seq(Characters)
      BY <2>1
    <3>3. Run(t) \in States
      BY RunAppend
    <3>4. Run(t1) = DeEscapeStep(Run(t), Backslash)
      BY <2>1, RunAppend
    <3>5. Run(t1) = [out |-> Run(t).out, mode |-> "escape"]
      BY <2>1, <2>3, <3>3, <3>4, StepForms
    <3> HIDE DEF t1, Run
    <3>6. Run(t1) \in States /\ Run(t1).out = Run(t).out /\ Run(t1).mode = "escape"
      BY <3>2, <3>5, RunAppend
    <3>7. Run(Append(t1, e)) = DeEscapeStep(Run(t1), e)
      BY <2>1, <3>2, RunAppend
    <3>8. DeEscapeStep(Run(t1), e) = [out |-> Append(Run(t1).out, c), mode |-> "plain"]
      <4> HIDE DEF States
      <4>1. e = EscapeLetter[c]
        BY DEF e
      <4>2. QED BY <1>1, <2>1, <3>6, <4>1, StepForms
    <3>9. Run(Append(t1, e)) = [out |-> Append(Run(t).out, c), mode |-> "plain"]
      BY Zenon, <3>6, <3>7, <3>8
    <3>10. QED BY Zenon, <3>1, <3>2, <3>9
  <2>4. /\ <<Backslash, e>> \in Seq(Characters)
        /\ <<Backslash, e>> # <<>>
        /\ <<Backslash, e>>[1] \notin Quotes
    BY <2>1
  <2>5. QED BY Zenon, <2>2, <2>3, <2>4
<1>2. CASE c \notin DOMAIN EscapeLetter
  <2>1. c # Backslash /\ c \notin Quotes
    BY <1>2, EscapeFacts DEF Backslash, Quotes
  <2>2. EscapedChar(c) = <<c>>
    BY <1>2 DEF EscapedChar
  <2>3. ASSUME NEW t \in Seq(Characters), Run(t).mode = "plain"
        PROVE  /\ t \o <<c>> \in Seq(Characters)
               /\ Run(t \o <<c>>) = [out |-> Append(Run(t).out, c), mode |-> "plain"]
    <3>1. t \o <<c>> = Append(t, c)
      BY Pasting
    <3>2. Append(t, c) \in Seq(Characters)
      OBVIOUS
    <3>3. Run(t) \in States
      BY RunAppend
    <3>4. Run(Append(t, c)) = DeEscapeStep(Run(t), c)
      BY RunAppend
    <3> HIDE DEF Run
    <3>5. Run(Append(t, c)) = [out |-> Append(Run(t).out, c), mode |-> "plain"]
      BY <2>1, <2>3, <3>3, <3>4, StepForms
    <3>6. QED BY Zenon, <3>1, <3>2, <3>5
  <2>4. /\ <<c>> \in Seq(Characters)
        /\ <<c>> # <<>>
        /\ <<c>>[1] \notin Quotes
    BY <2>1
  <2>5. QED BY Zenon, <2>2, <2>3, <2>4
<1>3. QED BY <1>1, <1>2

\* Unescaping what was escaped; and what was escaped starts with no quote.
LEMMA Unescaped ==
    ASSUME NEW s \in Seq(Characters)
    PROVE  /\ Escapify(s) \in Seq(Characters)
           /\ s = <<>> => Escapify(s) = <<>>
           /\ s # <<>> => Escapify(s) # <<>> /\ Escapify(s)[1] \notin Quotes
           /\ Run(Escapify(s)).out = s
<1> DEFINE n == Len(s)
           pieces == [k \in 1..Len(s) |-> EscapedChar(s[k])]
           First(k) == [i \in 1..k |-> s[i]]
<1>1. n \in Nat /\ (s # <<>> => n # 0) /\ First(n) = s /\ \A k \in 1..n : s[k] \in Characters
  OBVIOUS
<1>2. pieces \in Seq(Seq(Characters)) /\ Len(pieces) = n /\ \A k \in 1..n : pieces[k] = EscapedChar(s[k])
  BY <1>1, EscapedCharFacts
<1>3. Escapify(s) = FlattenSeq(pieces)
  BY DEF Escapify
<1>4. CASE s = <<>>
  <2>1. pieces = <<>>
    BY <1>4
  <2>2. FlattenSeq(pieces) = <<>>
    BY <2>1 DEF FlattenSeq
  <2>3. Run(<<>>).out = <<>>
    BY RunAppend DEF Base
  <2>4. QED BY <1>3, <1>4, <2>2, <2>3
<1>5. CASE s # <<>>
  <2>1. pieces # <<>>
    BY <1>1, <1>2, <1>5
  <2> HIDE DEF pieces, n
  <2>2. PICK f \in [1..n -> Seq(Characters)] :
          /\ FlattenSeq(pieces) = f[n]
          /\ f[1] = pieces[1]
          /\ \A i \in 2..n : f[i] = f[i - 1] \o pieces[i]
    BY ZenonT(60), <1>2, <2>1, FlattenFacts
  <2> DEFINE Good(k) == /\ Run(f[k]) = [out |-> First(k), mode |-> "plain"]
                        /\ f[k] # <<>> /\ f[k][1] \notin Quotes
             T == {k \in Nat : k + 1 <= n => Good(k + 1)}
  <2>3. 1 \in 1..n /\ s[1] \in Characters /\ f[1] = EscapedChar(s[1])
    <3>1. 1 \in 1..n
      BY <1>1, <1>5
    <3>2. s[1] \in Characters /\ pieces[1] = EscapedChar(s[1])
      BY Zenon, <1>1, <1>2, <3>1
    <3>3. QED BY <2>2, <3>1, <3>2
  <2>4. Good(1)
    <3>1. Run(<<>>) = Base /\ Base.mode = "plain" /\ Base.out = <<>> /\ <<>> \in Seq(Characters)
      BY RunAppend DEF Base
    <3>2. <<>> \o EscapedChar(s[1]) = EscapedChar(s[1])
      BY <2>3, EscapedCharFacts, ConcatEmptySeq
    <3> HIDE DEF Run
    <3>3. Run(EscapedChar(s[1])) = [out |-> Append(<<>>, s[1]), mode |-> "plain"]
      BY <2>3, <3>1, <3>2, EscapedCharFacts
    <3>4. Append(<<>>, s[1]) = First(1)
      OBVIOUS
    <3>5. QED BY <2>3, <3>3, <3>4, EscapedCharFacts
  <2>5. ASSUME NEW k \in Nat, k \in T PROVE k + 1 \in T
    <3>1. SUFFICES ASSUME k + 1 + 1 <= n PROVE Good(k + 1 + 1)
      OBVIOUS
    <3> DEFINE j == k + 1
               c == s[j + 1]
    <3>2. /\ j \in 1..n /\ j + 1 \in 2..n /\ j + 1 \in 1..n /\ (j + 1) - 1 = j /\ j \in Nat
          /\ c \in Characters
      BY <1>1, <3>1
    <3>3. Good(j)
      BY <2>5, <3>2
    <3>4. f[j + 1] = f[j] \o EscapedChar(c) /\ f[j] \in Seq(Characters)
      BY <1>2, <2>2, <3>2
    <3> HIDE DEF j, c, Run
    <3>5. Run(f[j]).mode = "plain" /\ Run(f[j]).out = First(j)
      BY <3>3
    <3>6. Run(f[j] \o EscapedChar(c)) = [out |-> Append(First(j), c), mode |-> "plain"]
      BY <3>2, <3>4, <3>5, EscapedCharFacts
    <3>7. Append(First(j), c) = First(j + 1)
      BY <1>1, <3>2 DEF c
    <3>8. f[j + 1] # <<>> /\ f[j + 1][1] = f[j][1]
      <4>1. f[j] # <<>>
        BY <3>3
      <4>2. EscapedChar(c) \in Seq(Characters)
        BY <3>2, EscapedCharFacts
      <4> DEFINE a == f[j]
                 b == EscapedChar(c)
      <4> HIDE DEF a, b
      <4>3. a \in Seq(Characters) /\ b \in Seq(Characters) /\ a # <<>>
        BY <3>4, <4>1, <4>2 DEF a, b
      <4>4. a \o b # <<>> /\ (a \o b)[1] = a[1]
        BY <4>3
      <4>5. QED BY <3>4, <4>4 DEF a, b
    <3>9. Good(j + 1)
      BY <3>3, <3>4, <3>6, <3>7, <3>8
    <3>10. QED BY <3>9 DEF j
  <2> HIDE DEF Good
  <2>6. 0 \in T
    BY <2>4
  <2>7. n - 1 \in T
    <3> HIDE DEF T
    <3>1. n - 1 \in Nat
      BY <1>1, <1>5
    <3>2. QED BY <2>5, <2>6, <3>1, NatIn
  <2>8. Good(n)
    BY <1>1, <1>5, <2>7
  <2>9. QED BY <1>1, <1>3, <1>5, <2>2, <2>3, <2>8 DEF Good
<1>6. QED BY <1>4, <1>5

\* What Set() wrote and Read() reads back is the same text, whatever it holds.
THEOREM RoundTrip ==
    ASSUME NEW s \in Seq(Characters)
    PROVE  Encode(s) \in Seq(Characters) /\ Decode(Encode(s)) = s
<1> DEFINE e == Escapify(s)
<1>1. e \in Seq(Characters) /\ (e # <<>> => e[1] \notin Quotes) /\ DeEscapify(e) = s
  <2>1. Run(e).out = s
    BY Unescaped
  <2>2. DeEscapify(e) = Run(e).out
    BY Zenon DEF DeEscapify, Run, Base
  <2>3. s = <<>> => e = <<>>
    BY Unescaped
  <2>4. QED BY <2>1, <2>2, <2>3, Unescaped
<1> HIDE DEF e
<1>2. CASE Has(e, " ")
  <2> DEFINE q == "\""
             t == <<q>> \o e \o <<q>>
  <2>1. q \in Characters /\ q \in Quotes
    BY EscapeFacts DEF Quotes
  <2> HIDE DEF q
  <2>2. /\ t \in Seq(Characters) /\ Len(t) = Len(e) + 2 /\ t # <<>>
        /\ Head(t) = q /\ t[Len(t)] = q
        /\ SubSeq(t, 2, Len(t) - 1) \in Seq(Characters)
        /\ Len(SubSeq(t, 2, Len(t) - 1)) = Len(e)
        /\ \A k \in 1..Len(e) : SubSeq(t, 2, Len(t) - 1)[k] = e[k]
    BY <1>1, <2>1
  <2>3. SubSeq(t, 2, Len(t) - 1) = e
    <3> HIDE DEF t
    <3>1. QED BY <1>1, <2>2, SeqEqual
  <2>4. Encode(s) = t
    BY <1>2 DEF Encode, Quotify, e, q
  <2> HIDE DEF t
  <2>5. DeQuotify(t) = e
    BY <2>1, <2>2, <2>3 DEF DeQuotify, Last
  <2>6. QED BY <1>1, <2>2, <2>4, <2>5 DEF Decode
<1>3. CASE ~Has(e, " ")
  <2>1. Encode(s) = e
    BY <1>3 DEF Encode, Quotify, e
  <2>2. DeQuotify(e) = e
    <3>1. e # <<>> => Head(e) = e[1]
      BY <1>1
    <3>2. QED BY <1>1, <3>1 DEF DeQuotify
  <2>3. QED BY <1>1, <2>1, <2>2 DEF Decode
<1>4. QED BY <1>2, <1>3

\* And reading any text gives a text.
LEMMA DecodeType ==
    ASSUME NEW t \in Seq(Characters)
    PROVE  Decode(t) \in Seq(Characters)
<1>1. DeQuotify(t) \in Seq(Characters)
  <2>1. t # <<>> => Tail(t) \in Seq(Characters) /\ SubSeq(t, 2, Len(t) - 1) \in Seq(Characters)
    OBVIOUS
  <2>2. QED BY <2>1 DEF DeQuotify
<1>2. ASSUME NEW u \in Seq(Characters) PROVE DeEscapify(u) \in Seq(Characters)
  <2>1. DeEscapify(u) = Run(u).out
    BY Zenon DEF DeEscapify, Run, Base
  <2>2. Run(u) \in States
    BY RunAppend
  <2> HIDE DEF Run
  <2>3. QED BY <2>1, <2>2 DEF States
<1>3. QED BY <1>1, <1>2 DEF Decode

-----------------------------------------------------------------------------
(* Names in a list of entries, or in one of lines *)

\* The last place with this name.
Latest(s, n, k) ==
    /\ k \in 1..Len(s) /\ s[k].name = n
    /\ \A j \in 1..Len(s) : s[j].name = n => j <= k

LEMMA NamedFacts ==
    ASSUME NEW R, NEW s \in Seq(R)
    PROVE  /\ \A n : n \in Named(s) <=> n \in Names /\ \E k \in 1..Len(s) : s[k].name = n
           /\ \A n \in Named(s) : \E k : Latest(s, n, k)
           /\ \A n, k : Latest(s, n, k) => LastOf(s, n) = s[k]
           /\ \A n, k : Latest(s, n, k) /\ n \in Names => n \in Named(s)
<1>1. \A n : n \in Named(s) <=> n \in Names /\ \E k \in 1..Len(s) : s[k].name = n
  BY DEF Named
<1>2. ASSUME NEW n, NEW i \in 1..Len(s), s[i].name = n
      PROVE  LET k == Max({j \in 1..Len(s) : s[j].name = n})
             IN  Latest(s, n, k) /\ LastOf(s, n) = s[k]
  <2> DEFINE same == {j \in 1..Len(s) : s[j].name = n}
             m == Len(s)
  <2>1. m \in Nat /\ same \in SUBSET (1..m) /\ same # {}
    BY <1>2
  <2>2. Max(same) \in same /\ \A j \in same : Max(same) >= j
    <3> HIDE DEF same, m
    <3>1. QED BY <2>1, MaxFacts
  <2>3. Max(same) \in 1..m /\ s[Max(same)].name = n
    BY <2>2
  <2>4. \A j \in 1..m : s[j].name = n => j <= Max(same)
    <3>1. \A j \in 1..m : s[j].name = n => j \in same
      OBVIOUS
    <3> HIDE DEF same
    <3>2. QED BY <2>1, <2>2, <2>3, <3>1
  <2>5. LastOf(s, n) = s[Max(same)]
    BY DEF LastOf
  <2>6. Latest(s, n, Max(same))
    <3> HIDE DEF same
    <3>1. QED BY <2>3, <2>4 DEF Latest, m
  <2>7. QED BY <2>5, <2>6
<1>3. \A n \in Named(s) : \E k : Latest(s, n, k)
  BY <1>1, <1>2
<1>4. ASSUME NEW n, NEW k, Latest(s, n, k) PROVE LastOf(s, n) = s[k]
  <2> DEFINE l == Max({j \in 1..Len(s) : s[j].name = n})
  <2>1. k \in 1..Len(s) /\ s[k].name = n
    BY <1>4 DEF Latest
  <2>2. Latest(s, n, l) /\ LastOf(s, n) = s[l]
    BY <1>2, <2>1
  <2> HIDE DEF l
  <2>3. k <= l /\ l <= k /\ l \in 1..Len(s) /\ Len(s) \in Nat
    BY <1>4, <2>1, <2>2 DEF Latest
  <2>4. k = l
    BY <2>1, <2>3
  <2>5. QED BY <2>2, <2>4
<1>5. \A n, k : Latest(s, n, k) /\ n \in Names => n \in Named(s)
  BY <1>1 DEF Latest
<1>6. QED BY <1>1, <1>3, <1>4, <1>5

-----------------------------------------------------------------------------
(* The list and the hash *)

Entry == [at : Addresses, name : Names \cup {Comment}, value : Seq(Characters)]

ListOK(l) == l \in Seq(Entry) /\ Len(l) <= Cardinality(Addresses)
HashOK(h) == DOMAIN h \subseteq Names /\ \A n \in DOMAIN h : h[n] \in Addresses
FileOK(f) == f # Absent => f \in Seq(TextLine) /\ Len(f) <= Cardinality(Addresses)

Distinct(l) == \A k, m \in 1..Len(l) : l[k].at = l[m].at => k = m

\* HashIndexesList, by places.
Points(l, h, n) == \E k : Latest(l, n, k) /\ l[k].at = h[n]
Indexed(l, h) == Distinct(l) /\ \A n \in DOMAIN h : Points(l, h, n)

LEMMA IndexedMeans ==
    ASSUME NEW l \in Seq(Entry), NEW h, DOMAIN h \subseteq Names
    PROVE  Indexed(l, h) <=>
             /\ \A n \in DOMAIN h : n \in Named(l) /\ LastOf(l, n).at = h[n]
             /\ \A k, m \in 1..Len(l) : l[k].at = l[m].at => k = m
<1>1. ASSUME NEW n \in DOMAIN h
      PROVE  Points(l, h, n) <=> n \in Named(l) /\ LastOf(l, n).at = h[n]
  <2>1. ASSUME Points(l, h, n) PROVE n \in Named(l) /\ LastOf(l, n).at = h[n]
    <3>1. PICK k : Latest(l, n, k) /\ l[k].at = h[n]
      BY <2>1 DEF Points
    <3>2. QED BY <1>1, <3>1, NamedFacts
  <2>2. ASSUME n \in Named(l), LastOf(l, n).at = h[n] PROVE Points(l, h, n)
    <3>1. PICK k : Latest(l, n, k)
      BY <2>2, NamedFacts
    <3>2. LastOf(l, n) = l[k]
      BY <3>1, NamedFacts
    <3>3. QED BY <2>2, <3>1, <3>2 DEF Points
  <2>3. QED BY <2>1, <2>2
<1>2. QED BY <1>1 DEF Indexed, Distinct

\* Find() returns the place of an entry with its address in the hash.
Place(l, h, n) == CHOOSE k \in 1..Len(l) : l[k].at = h[n]

LEMMA PlaceFacts ==
    ASSUME NEW l \in Seq(Entry), NEW h, Indexed(l, h), NEW n \in DOMAIN h
    PROVE  /\ Latest(l, n, Place(l, h, n))
           /\ l[Place(l, h, n)].at = h[n]
           /\ Place(l, h, n) \in 1..Len(l)
<1>1. PICK k : Latest(l, n, k) /\ l[k].at = h[n]
  BY DEF Indexed, Points
<1>2. k \in 1..Len(l)
  BY <1>1 DEF Latest
<1>3. Place(l, h, n) \in 1..Len(l) /\ l[Place(l, h, n)].at = h[n]
  BY <1>1, <1>2 DEF Place
<1>4. Place(l, h, n) = k
  BY <1>1, <1>2, <1>3 DEF Indexed, Distinct
<1>5. QED BY <1>1, <1>2, <1>4

LEMMA LatestSame ==
    ASSUME NEW R, NEW s \in Seq(R), NEW Q, NEW t \in Seq(Q), Len(s) = Len(t),
           \A k \in 1..Len(s) : s[k].name = t[k].name
    PROVE  \A n, k : Latest(s, n, k) <=> Latest(t, n, k)
BY DEF Latest

-----------------------------------------------------------------------------
(* The list and the file *)

SettingOf(l, h, n) == IF n \in DOMAIN h THEN l[Place(l, h, n)].value ELSE Absent

StoredIn(f, n) ==
    LET lines == IF f = Absent THEN <<>> ELSE f IN
    IF n \in Named(lines) THEN Decode(LastOf(lines, n).text) ELSE Absent

Agrees(l, h, f) ==
    \A n \in Names : n \in DOMAIN h \/ n \notin Named(l) => SettingOf(l, h, n) = StoredIn(f, n)

\* A line for each entry, with its name and its value: in one direction that is
\* what Write() leaves, in the other what Read() makes.
Mirrors(l, f) ==
    /\ Len(l) = Len(f)
    /\ \A k \in 1..Len(l) : l[k].name = f[k].name
    /\ \A k \in 1..Len(l) : l[k].name \in Names => Decode(f[k].text) = l[k].value

LEMMA MirrorsAgree ==
    ASSUME SettingsAssumption, NEW l \in Seq(Entry), NEW f \in Seq(TextLine), Mirrors(l, f),
           NEW h, Indexed(l, h), DOMAIN h \subseteq Names
    PROVE  Agrees(l, h, f)
<1>1. f # Absent
  BY DEF SettingsAssumption
<1>2. SUFFICES ASSUME NEW n \in Names, n \in DOMAIN h \/ n \notin Named(l)
               PROVE  SettingOf(l, h, n) = StoredIn(f, n)
  BY DEF Agrees
<1>3. CASE n \in DOMAIN h
  <2> DEFINE k == Place(l, h, n)
  <2>1. Latest(l, n, k) /\ k \in 1..Len(l)
    BY <1>3, PlaceFacts
  <2>2. Latest(f, n, k)
    BY <2>1, LatestSame DEF Mirrors
  <2>3. n \in Named(f) /\ LastOf(f, n) = f[k]
    BY <2>2, NamedFacts
  <2>4. l[k].name = n
    BY <2>1 DEF Latest
  <2>5. Decode(f[k].text) = l[k].value
    BY <2>1, <2>4 DEF Mirrors
  <2>6. SettingOf(l, h, n) = l[k].value
    BY <1>3 DEF SettingOf
  <2>7. StoredIn(f, n) = Decode(f[k].text)
    BY <1>1, <2>3 DEF StoredIn
  <2>8. QED BY <2>5, <2>6, <2>7
<1>4. CASE n \notin DOMAIN h
  <2>1. n \notin Named(f)
    <3>1. ~ \E k \in 1..Len(l) : l[k].name = n
      BY <1>2, <1>4, NamedFacts
    <3>2. ~ \E k \in 1..Len(f) : f[k].name = n
      BY <3>1 DEF Mirrors
    <3>3. QED BY <3>2, NamedFacts
  <2>2. QED BY <1>1, <1>4, <2>1 DEF SettingOf, StoredIn
<1>5. QED BY <1>3, <1>4

LEMMA LinesFacts ==
    ASSUME SettingsAssumption, NEW l \in Seq(Entry)
    PROVE  /\ Lines(l) \in Seq(TextLine) /\ Len(Lines(l)) = Len(l)
           /\ Mirrors(l, Lines(l))
<1>1. ASSUME NEW k \in 1..Len(l)
      PROVE  /\ Line(l[k]) \in TextLine /\ Line(l[k]).name = l[k].name
             /\ l[k].name \in Names => Decode(Line(l[k]).text) = l[k].value
  <2> DEFINE e == l[k]
  <2>1. e \in Entry
    OBVIOUS
  <2> HIDE DEF e
  <2>2. CASE e.name \in Names
    <3>1. Line(e) = [name |-> e.name, text |-> Encode(e.value)]
      BY <2>2 DEF Line, IsPair
    <3>2. Encode(e.value) \in Seq(Characters) /\ Decode(Encode(e.value)) = e.value
      BY <2>1, RoundTrip DEF Entry
    <3>3. Line(e) \in TextLine /\ Line(e).name = e.name /\ Decode(Line(e).text) = e.value
      BY <2>2, <3>1, <3>2 DEF TextLine
    <3>4. QED BY <3>3 DEF e
  <2>3. CASE e.name \notin Names
    <3>1. Line(e) = [name |-> Comment, text |-> <<>>]
      BY <2>3 DEF Line, IsPair
    <3>2. e.name = Comment
      BY <2>1, <2>3 DEF Entry
    <3>3. <<>> \in Seq(Characters)
      OBVIOUS
    <3>4. Line(e) \in TextLine /\ Line(e).name = e.name
      BY <3>1, <3>2, <3>3 DEF TextLine
    <3>5. QED BY <2>3, <3>4 DEF e
  <2>4. QED BY <2>2, <2>3
<1>2. Lines(l) = [k \in 1..Len(l) |-> Line(l[k])]
  BY DEF Lines
<1>3. Lines(l) \in Seq(TextLine) /\ Len(Lines(l)) = Len(l)
  BY <1>1, <1>2
<1>4. \A k \in 1..Len(l) : Lines(l)[k] = Line(l[k])
  BY <1>2
<1>5. Mirrors(l, Lines(l))
  BY <1>1, <1>3, <1>4 DEF Mirrors
<1>6. QED BY <1>3, <1>5

LEMMA LoadedFacts ==
    ASSUME SettingsAssumption, NEW f \in Seq(TextLine), Len(f) <= Cardinality(Addresses)
    PROVE  /\ Loaded(f) \in Seq(Entry) /\ Len(Loaded(f)) = Len(f)
           /\ Mirrors(Loaded(f), f) /\ Distinct(Loaded(f))
<1> DEFINE some == SetToSeq(Addresses)
           c == Cardinality(Addresses)
           l == Loaded(f)
<1>1. c \in Nat /\ ExistsBijection(1..c, Addresses)
  BY FS_CardinalityType DEF SettingsAssumption
<1>2. some \in [1..c -> Addresses] /\ IsInjective(some)
  <2>1. \E g \in [1..c -> Addresses] : IsInjective(g)
    BY <1>1 DEF ExistsBijection, Bijection, Injection
  <2>2. QED BY <2>1 DEF SetToSeq
<1> HIDE DEF some, c
<1>3. /\ l = [k \in 1..Len(f) |-> Pair(some[k], f[k].name, Decode(f[k].text))]
      /\ Len(f) \in Nat /\ Len(f) <= c
  BY DEF Loaded, some, c
<1> HIDE DEF l
<1>4. ASSUME NEW k \in 1..Len(f)
      PROVE  Pair(some[k], f[k].name, Decode(f[k].text)) \in Entry
  <2>1. k \in 1..c /\ f[k] \in TextLine
    BY <1>1, <1>3
  <2>2. some[k] \in Addresses
    BY <1>2, <2>1
  <2>3. f[k].name \in Names \cup {Comment} /\ f[k].text \in Seq(Characters)
    BY <2>1 DEF TextLine
  <2>4. Decode(f[k].text) \in Seq(Characters)
    BY <2>3, DecodeType
  <2>5. QED BY <2>2, <2>3, <2>4 DEF Entry, Pair
<1>5. l \in Seq(Entry) /\ Len(l) = Len(f)
  BY <1>3, <1>4
<1>6. \A k \in 1..Len(l) : /\ l[k].at = some[k] /\ l[k].name = f[k].name
                          /\ l[k].value = Decode(f[k].text)
  BY <1>3, <1>5 DEF Pair
<1>7. Mirrors(l, f)
  BY <1>5, <1>6 DEF Mirrors
<1>8. Distinct(l)
  <2>1. ASSUME NEW k \in 1..Len(l), NEW m \in 1..Len(l), l[k].at = l[m].at PROVE k = m
    <3>1. some[k] = some[m]
      BY <1>6, <2>1
    <3>2. k \in DOMAIN some /\ m \in DOMAIN some
      BY <1>1, <1>2, <1>3, <1>5
    <3>3. QED BY <1>2, <3>1, <3>2 DEF IsInjective
  <2>2. QED BY <2>1 DEF Distinct
<1>9. QED BY <1>5, <1>7, <1>8 DEF l

\* What Read() makes of the lines.
LEMMA IndexFacts ==
    ASSUME NEW l \in Seq(Entry), Distinct(l)
    PROVE  Indexed(l, Index(l)) /\ HashOK(Index(l))
<1>1. DOMAIN Index(l) = Named(l) /\ \A n \in Named(l) : Index(l)[n] = LastOf(l, n).at
  BY DEF Index
<1>2. ASSUME NEW n \in Named(l)
      PROVE  n \in Names /\ Points(l, Index(l), n) /\ LastOf(l, n).at \in Addresses
  <2>1. PICK k : Latest(l, n, k)
    BY NamedFacts
  <2>2. LastOf(l, n) = l[k] /\ n \in Names
    BY <2>1, NamedFacts
  <2>3. k \in 1..Len(l)
    BY <2>1 DEF Latest
  <2>4. l[k].at \in Addresses
    <3>1. l[k] \in Entry
      BY <2>3
    <3> HIDE DEF Distinct
    <3>2. QED BY <3>1 DEF Entry
  <2>5. QED BY <1>1, <2>1, <2>2, <2>4 DEF Points
<1>3. QED BY <1>1, <1>2 DEF Indexed, HashOK

-----------------------------------------------------------------------------
(* What a change does to the list and the hash *)

LEMMA Addressed ==
    ASSUME SettingsAssumption, ListOK(list), HasRoom
    PROVE  FreeAddress \in Addresses /\ \A k \in 1..Len(list) : list[k].at # FreeAddress
<1> DEFINE n == Len(list)
           c == Cardinality(Addresses)
           at == [k \in 1..n |-> list[k].at]
<1>1. n \in Nat /\ c \in Nat /\ n < c
  BY FS_CardinalityType DEF SettingsAssumption, ListOK, HasRoom
<1>2. ASSUME NEW k \in 1..n PROVE list[k].at \in Addresses
  <2>1. list[k] \in Entry
    BY DEF ListOK
  <2>2. QED BY <2>1 DEF Entry
<1>3. at \in [1..n -> Addresses] /\ \A k \in 1..n : at[k] = list[k].at
  BY <1>2
<1> HIDE DEF n, at, c
<1>4. ~(at \in Surjection(1..n, Addresses))
  <2>1. SUFFICES ASSUME at \in Surjection(1..n, Addresses) PROVE FALSE
    OBVIOUS
  <2>2. ExistsSurjection(1..n, Addresses)
    BY <2>1 DEF ExistsSurjection
  <2>3. c <= n
    BY <1>1, <2>2, FS_SurjCardinalityBound DEF c
  <2>4. QED BY <1>1, <2>3
<1>5. \E a \in Addresses : \A k \in 1..n : at[k] # a
  BY <1>3, <1>4 DEF Surjection
<1>6. \E a \in Addresses : \A k \in 1..n : list[k].at # a
  BY <1>3, <1>5
<1>7. QED BY <1>6 DEF FreeAddress, n

LEMMA Appending ==
    ASSUME NEW l \in Seq(Entry), NEW h, Indexed(l, h), HashOK(h),
           NEW e \in Entry, \A k \in 1..Len(l) : l[k].at # e.at
    PROVE  /\ Append(l, e) \in Seq(Entry) /\ Len(Append(l, e)) = Len(l) + 1
           /\ e.name \notin Names => Indexed(Append(l, e), h)
           /\ e.name \in Names /\ e.name \notin DOMAIN h
                => /\ Indexed(Append(l, e), Put(h, e.name, e.at))
                   /\ HashOK(Put(h, e.name, e.at))
<1> DEFINE m == Append(l, e)
           i == Len(l) + 1
<1>1. /\ m \in Seq(Entry) /\ Len(m) = i /\ m[i] = e
      /\ \A k \in 1..Len(l) : m[k] = l[k]
      /\ Len(l) \in Nat /\ i = Len(l) + 1
  OBVIOUS
<1> HIDE DEF m, i
<1>2. Distinct(m)
  <2>1. ASSUME NEW j \in 1..Len(m), NEW k \in 1..Len(m), m[j].at = m[k].at PROVE j = k
    <3>1. CASE j = i \/ k = i
      BY <1>1, <2>1, <3>1
    <3>2. CASE j # i /\ k # i
      <4>1. j \in 1..Len(l) /\ k \in 1..Len(l)
        BY <1>1, <3>2
      <4>2. l[j].at = l[k].at
        BY <1>1, <2>1, <4>1
      <4>3. QED BY <4>1, <4>2 DEF Indexed, Distinct
    <3>3. QED BY <3>1, <3>2
  <2>2. QED BY <2>1 DEF Distinct
<1>3. ASSUME NEW n \in DOMAIN h, n # e.name
      PROVE  \E k : Latest(m, n, k) /\ m[k].at = h[n]
  <2>1. PICK k : Latest(l, n, k) /\ l[k].at = h[n]
    BY DEF Indexed, Points
  <2>2. k \in 1..Len(l) /\ k \in 1..Len(m) /\ m[k] = l[k]
    BY <1>1, <2>1 DEF Latest
  <2>3. ASSUME NEW j \in 1..Len(m), m[j].name = n PROVE j <= k
    <3>1. j # i
      BY <1>1, <1>3, <2>3
    <3>2. j \in 1..Len(l) /\ l[j].name = n
      BY <1>1, <2>3, <3>1
    <3>3. QED BY <2>1, <3>2 DEF Latest
  <2>4. QED BY <2>1, <2>2, <2>3 DEF Latest
<1>4. ASSUME e.name \notin Names PROVE Indexed(m, h)
  <2>1. \A n \in DOMAIN h : n # e.name
    BY <1>4 DEF HashOK
  <2>2. QED BY <1>2, <1>3, <2>1 DEF Indexed, Points
<1>5. ASSUME e.name \in Names, e.name \notin DOMAIN h
      PROVE  Indexed(m, Put(h, e.name, e.at)) /\ HashOK(Put(h, e.name, e.at))
  <2> DEFINE g == Put(h, e.name, e.at)
  <2>1. /\ DOMAIN g = DOMAIN h \cup {e.name} /\ g[e.name] = e.at
        /\ \A n \in DOMAIN h : g[n] = h[n]
    BY <1>5 DEF Put
  <2> HIDE DEF g
  <2>2. Latest(m, e.name, i)
    BY <1>1 DEF Latest
  <2>3. \A n \in DOMAIN g : Points(m, g, n)
    BY <1>1, <1>3, <2>1, <2>2 DEF Points
  <2>4. e.at \in Addresses
    BY DEF Entry
  <2>5. HashOK(g)
    BY <1>5, <2>1, <2>4 DEF HashOK
  <2>6. QED BY <1>2, <2>3, <2>5 DEF Indexed, g
<1>6. QED BY <1>1, <1>4, <1>5 DEF m, i

Revalued(l, p, v) == [l EXCEPT ![p].value = v]

LEMMA Replacing ==
    ASSUME NEW l \in Seq(Entry), NEW h, Indexed(l, h),
           NEW p \in 1..Len(l), NEW v \in Seq(Characters)
    PROVE  /\ Revalued(l, p, v) \in Seq(Entry)
           /\ Len(Revalued(l, p, v)) = Len(l)
           /\ Indexed(Revalued(l, p, v), h)
<1> DEFINE e == [l[p] EXCEPT !.value = v]
           m == [l EXCEPT ![p].value = v]
<1>1. l[p] \in Entry
  OBVIOUS
<1>2. e \in Entry /\ e.at = l[p].at /\ e.name = l[p].name
  BY <1>1 DEF Entry
<1>3. m = [l EXCEPT ![p] = e]
  OBVIOUS
<1> HIDE DEF e, m
<1>4. /\ m \in Seq(Entry) /\ Len(m) = Len(l)
      /\ \A k \in 1..Len(l) : m[k] = IF k = p THEN e ELSE l[k]
  BY <1>2, <1>3
<1>5. \A k \in 1..Len(l) : m[k].at = l[k].at /\ m[k].name = l[k].name
  BY <1>2, <1>4
<1>6. Distinct(m)
  BY <1>4, <1>5 DEF Indexed, Distinct
<1>7. ASSUME NEW n \in DOMAIN h PROVE Points(m, h, n)
  <2>1. PICK k : Latest(l, n, k) /\ l[k].at = h[n]
    BY DEF Indexed, Points
  <2>2. Latest(m, n, k) /\ k \in 1..Len(l)
    BY <1>4, <1>5, <2>1 DEF Latest
  <2>3. QED BY <1>5, <2>1, <2>2 DEF Points
<1>8. QED BY <1>4, <1>6, <1>7 DEF Indexed, m, Revalued

LEMMA Removing ==
    ASSUME NEW l \in Seq(Entry), NEW h, Indexed(l, h), HashOK(h), NEW n \in DOMAIN h
    PROVE  LET m == RemoveAt(l, Place(l, h, n))
           IN  /\ m \in Seq(Entry) /\ Len(m) = Len(l) - 1
               /\ Indexed(m, Without(h, n)) /\ HashOK(Without(h, n))
<1> DEFINE p == Place(l, h, n)
           m == RemoveAt(l, p)
           g == Without(h, n)
           Old(j) == IF j < p THEN j ELSE j + 1
<1>1. p \in 1..Len(l) /\ l[p].name = n /\ Len(l) \in Nat
  BY PlaceFacts DEF Latest
<1> HIDE DEF p
<1>2. /\ m \in Seq(Entry) /\ Len(m) = Len(l) - 1
      /\ \A k \in 1..(p - 1) : m[k] = l[k]
      /\ \A k \in p..(Len(l) - 1) : m[k] = l[k + 1]
  BY <1>1, RemoveAtFacts
<1> HIDE DEF m
<1>3. ASSUME NEW j \in 1..Len(m) PROVE Old(j) \in 1..Len(l) /\ m[j] = l[Old(j)]
  BY <1>1, <1>2
<1>4. Distinct(m)
  <2>1. ASSUME NEW j \in 1..Len(m), NEW k \in 1..Len(m), m[j].at = m[k].at PROVE j = k
    <3>1. Old(j) = Old(k)
      <4> HIDE DEF Old
      <4>1. QED BY <1>3, <2>1 DEF Indexed, Distinct
    <3>2. QED BY <1>1, <1>2, <3>1
  <2>2. QED BY <2>1 DEF Distinct
<1>5. DOMAIN g = DOMAIN h \ {n} /\ \A o \in DOMAIN g : g[o] = h[o]
  BY DEF Without
<1> HIDE DEF g
<1>6. ASSUME NEW o \in DOMAIN g PROVE Points(m, g, o)
  <2>1. PICK k : Latest(l, o, k) /\ l[k].at = h[o]
    BY <1>5 DEF Indexed, Points
  <2>2. k \in 1..Len(l) /\ l[k].name = o /\ k # p
    BY <1>1, <1>5, <2>1 DEF Latest
  <2> DEFINE q == IF k < p THEN k ELSE k - 1
  <2>3. q \in 1..Len(m) /\ Old(q) = k
    BY <1>1, <1>2, <2>2
  <2>4. m[q] = l[k]
    BY <1>3, <2>3
  <2>5. ASSUME NEW j \in 1..Len(m), m[j].name = o PROVE j <= q
    <3>1. Old(j) \in 1..Len(l) /\ l[Old(j)].name = o
      BY <1>3, <2>5
    <3>2. Old(j) <= k
      BY <2>1, <3>1 DEF Latest
    <3>3. QED BY <1>1, <1>2, <2>2, <3>2
  <2> HIDE DEF q
  <2>6. Latest(m, o, q)
    BY <2>2, <2>3, <2>4, <2>5 DEF Latest
  <2>7. QED BY <1>5, <2>1, <2>4, <2>6 DEF Points
<1>7. HashOK(g)
  BY <1>5 DEF HashOK
<1>8. QED BY <1>2, <1>4, <1>6, <1>7 DEF Indexed, m, g, p

-----------------------------------------------------------------------------
(* The inductive invariant: the types, the hash and the file, each as an    *)
(* operator of the values it is about.                                      *)

Memory(l, h) == ListOK(l) /\ HashOK(h) /\ Indexed(l, h)

Flags ==
    /\ alive \in BOOLEAN /\ changed \in BOOLEAN /\ writeenabled \in BOOLEAN
    /\ parted \in BOOLEAN
Clocks == sincechange \in 0..WriteDelay /\ sincewrite \in 0..MaxHold

Saved == alive /\ ~changed /\ ~parted => Agrees(list, hash, file)

IInv == Flags /\ Clocks /\ Memory(list, hash) /\ FileOK(file) /\ Saved

LEMMA IInvImplies == IInv => TypeOK /\ HashIndexesList /\ SavedIsStored
<1> SUFFICES ASSUME IInv PROVE TypeOK /\ HashIndexesList /\ SavedIsStored
  OBVIOUS
<1>1. ListOK(list) /\ HashOK(hash) /\ Indexed(list, hash)
  BY DEF IInv, Memory
<1>2. TypeOK
  BY <1>1 DEF IInv, Flags, Clocks, FileOK, TypeOK, ListOK, HashOK, Entry
<1>3. HashIndexesList
  <2>1. list \in Seq(Entry) /\ DOMAIN hash \subseteq Names
    BY <1>1 DEF ListOK, HashOK
  <2>2. QED BY Zenon, <1>1, <2>1, IndexedMeans DEF HashIndexesList
<1>4. SavedIsStored
  <2>1. \A n : Get(n) = SettingOf(list, hash, n)
    BY Zenon DEF Get, Find, SettingOf, Place
  <2>2. \A n : Stored(n) = StoredIn(file, n)
    BY Zenon DEF Stored, StoredIn
  <2>3. QED BY Zenon, <2>1, <2>2 DEF IInv, Saved, Agrees, SavedIsStored
<1>5. QED BY <1>2, <1>3, <1>4

LEMMA Limits ==
    ASSUME SettingsAssumption
    PROVE  0 \in 0..WriteDelay /\ 0 \in 0..MaxHold /\ WriteDelay \in Nat /\ MaxHold \in Nat
<1>1. WriteDelay \in Nat /\ MaxHold \in Nat
  BY Zenon DEF SettingsAssumption
<1>2. QED BY <1>1

LEMMA IInvInit == SettingsAssumption /\ Init => IInv
<1> SUFFICES ASSUME SettingsAssumption, Init PROVE IInv
  OBVIOUS
<1>1. Flags /\ Clocks /\ FileOK(file) /\ Saved
  <2>1. Flags /\ FileOK(file) /\ Saved
    BY Zenon DEF Init, Flags, FileOK, Saved
  <2>2. Clocks
    BY Limits DEF Init, Clocks
  <2>3. QED BY <2>1, <2>2
<1>2. list = <<>> /\ DOMAIN hash = {}
  BY DEF Init
<1>3. Cardinality(Addresses) \in Nat
  BY FS_CardinalityType DEF SettingsAssumption
<1>4. ListOK(list)
  BY <1>2, <1>3 DEF ListOK
<1>5. HashOK(hash) /\ Indexed(list, hash)
  BY <1>2 DEF HashOK, Indexed, Distinct
<1>6. QED BY <1>1, <1>4, <1>5 DEF IInv, Memory

\* What every way to end a call leaves.
Kept ==
    /\ changed' \in BOOLEAN /\ parted' \in BOOLEAN
    /\ sincewrite' \in 0..MaxHold
    /\ FileOK(file') /\ Saved'

\* Whatever gets through of some lines is no more than those lines.
LEMMA CutFacts ==
    ASSUME NEW f \in Seq(TextLine), NEW k \in 0..Len(f), NEW s \in CutAt(f, k)
    PROVE  s \in Seq(TextLine) /\ Len(s) <= Len(f)
<1>1. CASE k = 0
  BY <1>1 DEF CutAt
<1>2. CASE k # 0
  <2> DEFINE e == f[k]
             head == SubSeq(f, 1, k - 1)
  <2>1. e \in TextLine /\ k \in 1..Len(f) /\ Len(f) \in Nat
    BY <1>2
  <2>2. head \in Seq(TextLine) /\ Len(head) = k - 1
    BY <2>1
  <2>3. PICK part \in Part(e) : s = Append(head, part)
    BY <1>2 DEF CutAt
  <2> HIDE DEF e, head
  <2>4. part \in TextLine
    <3>1. CASE part = [name |-> Comment, text |-> <<>>]
      <4>1. <<>> \in Seq(Characters)
        OBVIOUS
      <4>2. QED BY <3>1, <4>1 DEF TextLine
    <3>2. ASSUME NEW m \in 0..Len(e.text), part = [e EXCEPT !.text = SubSeq(e.text, 1, m)]
          PROVE  part \in TextLine
      <4>1. e.text \in Seq(Characters)
        BY <2>1 DEF TextLine
      <4>2. SubSeq(e.text, 1, m) \in Seq(Characters)
        BY <4>1
      <4>3. QED BY <2>1, <3>2, <4>2 DEF TextLine
    <3>3. QED BY <3>1, <3>2 DEF Part
  <2>5. Append(head, part) \in Seq(TextLine) /\ Len(Append(head, part)) = k
    BY <2>1, <2>2, <2>4
  <2>6. QED BY <2>1, <2>3, <2>5
<1>3. QED BY <1>1, <1>2

\* A file of what gets through of the entries.
LEMMA CutFileOK ==
    ASSUME SettingsAssumption, NEW l \in Seq(Entry), Len(l) <= Cardinality(Addresses),
           NEW k \in 0..Len(l), NEW s \in CutAt(Lines(l), k)
    PROVE  FileOK(s)
<1>1. Lines(l) \in Seq(TextLine) /\ Len(Lines(l)) = Len(l)
  BY LinesFacts
<1>2. s \in Seq(TextLine) /\ Len(s) <= Len(l)
  BY <1>1, CutFacts
<1>3. Len(s) \in Nat /\ Len(l) \in Nat /\ Cardinality(Addresses) \in Nat
  BY <1>2, FS_CardinalityType DEF SettingsAssumption
<1>4. Len(s) <= Cardinality(Addresses)
  BY <1>2, <1>3
<1>5. QED BY <1>2, <1>4 DEF FileOK

\* With these values now, a file that was written in full agrees with the memory.
LEMMA WriteFileKeeps ==
    ASSUME SettingsAssumption, IInv, Memory(list', hash'), NEW l, l = list', WriteFile(l)
    PROVE  Kept
<1>1. l \in Seq(Entry) /\ Len(l) <= Cardinality(Addresses) /\ Indexed(l, hash') /\ DOMAIN hash' \subseteq Names
  BY DEF Memory, ListOK, HashOK
<1>2. ASSUME NEW k \in 0..Len(l), file' \in CutAt(Lines(l), k), parted' = (file' # Lines(l)),
             changed' = FALSE, sincewrite' = 0
      PROVE  Kept
  <2>1. FileOK(file')
    BY <1>1, <1>2, CutFileOK
  <2>2. Lines(l) \in Seq(TextLine) /\ Len(Lines(l)) = Len(l) /\ Mirrors(l, Lines(l))
    BY <1>1, LinesFacts
  <2>3. Agrees(l, hash', Lines(l))
    BY <1>1, <2>2, MirrorsAgree
  <2>4. ~parted' => file' = Lines(l)
    BY <1>2
  <2>5. Saved'
    BY <2>3, <2>4 DEF Saved
  <2>6. parted' \in BOOLEAN
    BY <1>2
  <2>7. QED BY Zenon, <1>2, <2>1, <2>5, <2>6, Limits DEF Kept
<1>3. CASE changed' = TRUE /\ UNCHANGED <<file, sincewrite, parted>>
  BY <1>3 DEF Kept, IInv, Flags, Clocks, FileOK, Saved
<1>4. QED BY <1>2, <1>3 DEF WriteFile

\* CheckWrite() with nothing changed since the step before.
LEMMA WhenDueKeeps ==
    ASSUME SettingsAssumption, IInv, NEW q, WriteWhenDue(list, changed, q),
           UNCHANGED <<alive, memory>>
    PROVE  Kept
<1>1. Memory(list', hash') /\ list = list'
  BY DEF IInv, memory
<1>2. CASE writeenabled /\ changed /\ Due(q)
  <2>1. WriteFile(list)
    BY <1>2 DEF WriteWhenDue
  <2>2. QED BY <1>1, <2>1, WriteFileKeeps
<1>3. CASE ~(writeenabled /\ changed /\ Due(q))
  <2>1. changed' = changed /\ UNCHANGED <<file, sincewrite, parted>>
    BY <1>3 DEF WriteWhenDue
  <2>2. QED BY <2>1 DEF Kept, IInv, Flags, Clocks, FileOK, Saved, memory
<1>4. QED BY <1>2, <1>3

LEMMA WriteNowKeeps ==
    ASSUME SettingsAssumption, IInv, UNCHANGED memory, alive' => alive, WriteNow
    PROVE  Kept
<1>1. CASE changed /\ writeenabled
  <2>1. WriteFile(list) /\ Memory(list', hash') /\ list = list'
    BY <1>1 DEF WriteNow, memory, IInv
  <2>2. QED BY <2>1, WriteFileKeeps
<1>2. CASE ~(changed /\ writeenabled)
  <2>1. changed' = FALSE /\ parted' = (parted \/ changed) /\ UNCHANGED <<file, sincewrite>>
    BY <1>2 DEF WriteNow
  <2>2. changed \in BOOLEAN /\ parted \in BOOLEAN
    BY DEF IInv, Flags
  <2>3. parted' \in BOOLEAN /\ (~parted' => ~parted /\ ~changed)
    BY <2>1, <2>2
  <2>4. Saved'
    BY <2>1, <2>3 DEF IInv, Saved, memory
  <2>5. QED BY <2>1, <2>2, <2>3, <2>4 DEF Kept, IInv, Clocks
<1>3. QED BY <1>1, <1>2

LEMMA ReadKeeps ==
    ASSUME SettingsAssumption, IInv, Read, UNCHANGED file
    PROVE  Kept /\ Memory(list', hash')
<1>1. changed' = FALSE /\ sincewrite' = 0
  BY DEF Read
<1>2. OnDisk \in Seq(TextLine) /\ Len(OnDisk) <= Cardinality(Addresses)
  <2>1. CASE file = Absent
    <3>1. OnDisk = <<>> /\ <<>> \in Seq(TextLine) /\ Len(<<>>) = 0
      BY <2>1 DEF OnDisk
    <3>2. Cardinality(Addresses) \in Nat
      BY FS_CardinalityType DEF SettingsAssumption
    <3>3. QED BY <3>1, <3>2
  <2>2. CASE file # Absent
    BY <2>2 DEF OnDisk, IInv, FileOK
  <2>3. QED BY <2>1, <2>2
<1>0. PICK k \in 0..Len(OnDisk) : \E lines \in CutAt(OnDisk, k) :
        list' = Cleared \o Loaded(lines) /\ hash' = Index(list') /\ parted' = (lines # OnDisk)
  BY DEF Read
<1>3. PICK lines \in CutAt(OnDisk, k) :
        list' = Cleared \o Loaded(lines) /\ hash' = Index(list') /\ parted' = (lines # OnDisk)
  BY <1>0
<1>4. lines \in Seq(TextLine) /\ Len(lines) <= Cardinality(Addresses)
  <2>1. lines \in Seq(TextLine) /\ Len(lines) <= Len(OnDisk)
    BY <1>2, <1>3, CutFacts
  <2>2. Len(lines) \in Nat /\ Len(OnDisk) \in Nat /\ Cardinality(Addresses) \in Nat
    BY <1>2, <2>1, FS_CardinalityType DEF SettingsAssumption
  <2>3. QED BY <1>2, <2>1, <2>2
<1> DEFINE l == Loaded(lines)
<1>5. l \in Seq(Entry) /\ Len(l) = Len(lines) /\ Mirrors(l, lines) /\ Distinct(l)
  BY <1>4, LoadedFacts
<1> HIDE DEF l
<1>6. list' = l
  <2>1. <<>> \o l = l
    BY <1>5, ConcatEmptySeq
  <2>2. QED BY <1>3, <2>1 DEF Cleared, l
<1>7. Indexed(l, Index(l)) /\ HashOK(Index(l))
  BY <1>5, IndexFacts
<1>8. hash' = Index(l)
  BY <1>3, <1>6
<1>9. Memory(list', hash')
  BY <1>4, <1>5, <1>6, <1>7, <1>8 DEF Memory, ListOK
<1>10. Agrees(l, Index(l), lines)
  BY <1>4, <1>5, <1>7, MirrorsAgree DEF HashOK
<1>11. ASSUME lines = OnDisk PROVE Agrees(l, Index(l), file)
  <2>1. \A n : StoredIn(OnDisk, n) = StoredIn(file, n)
    <3>1. OnDisk # Absent
      BY <1>2 DEF SettingsAssumption
    <3>2. QED BY Zenon, <3>1 DEF StoredIn, OnDisk
  <2>2. QED BY Zenon, <1>10, <1>11, <2>1 DEF Agrees
<1>12. ~parted' => lines = OnDisk
  BY <1>3
<1>13. Saved'
  BY <1>6, <1>8, <1>11, <1>12 DEF Saved
<1>14. FileOK(file') /\ parted' \in BOOLEAN
  BY <1>3 DEF IInv
<1>15. QED BY Zenon, <1>1, <1>9, <1>13, <1>14, Limits DEF Kept

-----------------------------------------------------------------------------
(* Every action keeps the invariant *)

\* The flag and the clock that Kept does not speak of.
Rest ==
    /\ alive' \in BOOLEAN /\ writeenabled' \in BOOLEAN
    /\ sincechange' \in 0..WriteDelay

LEMMA KeptIsEnough == Kept /\ Rest /\ Memory(list', hash') => IInv'
BY DEF Kept, Rest, IInv, Flags, Clocks

LEMMA RestFacts ==
    ASSUME SettingsAssumption, IInv,
           alive' \in BOOLEAN, writeenabled' = writeenabled \/ writeenabled' \in BOOLEAN,
           sincechange' = sincechange \/ sincechange' = 0
    PROVE  Rest
BY Limits DEF Rest, IInv, Flags, Clocks

LEMMA ConstructKeeps == SettingsAssumption /\ IInv /\ Construct => IInv'
<1> SUFFICES ASSUME SettingsAssumption, IInv, Construct PROVE IInv'
  OBVIOUS
<1>1. Kept /\ Memory(list', hash')
  BY ReadKeeps DEF Construct
<1>2. Rest
  BY RestFacts DEF Construct
<1>3. QED BY <1>1, <1>2, KeptIsEnough

LEMMA ReloadKeeps == SettingsAssumption /\ IInv /\ Reload => IInv'
<1> SUFFICES ASSUME SettingsAssumption, IInv, Reload PROVE IInv'
  OBVIOUS
<1>1. Kept /\ Memory(list', hash')
  BY ReadKeeps DEF Reload
<1>2. alive' \in BOOLEAN
  BY DEF Reload, IInv, Flags
<1>3. Rest
  BY <1>2, RestFacts DEF Reload
<1>4. QED BY <1>1, <1>3, KeptIsEnough

LEMMA DestroyKeeps == SettingsAssumption /\ IInv /\ Destroy => IInv'
<1> SUFFICES ASSUME SettingsAssumption, IInv, Destroy PROVE IInv'
  OBVIOUS
<1>1. UNCHANGED memory /\ alive' = FALSE /\ WriteNow /\ UNCHANGED <<writeenabled, sincechange>>
  BY DEF Destroy
<1>2. Kept
  BY <1>1, WriteNowKeeps
<1>3. Rest
  BY <1>1, RestFacts
<1>4. Memory(list', hash')
  BY <1>1 DEF IInv, memory
<1>5. QED BY <1>2, <1>3, <1>4, KeptIsEnough

LEMMA WriteKeeps == SettingsAssumption /\ IInv /\ Write => IInv'
<1> SUFFICES ASSUME SettingsAssumption, IInv, Write PROVE IInv'
  OBVIOUS
<1>1. UNCHANGED memory /\ alive' = alive /\ WriteNow /\ UNCHANGED <<writeenabled, sincechange>>
  BY DEF Write
<1>2. Kept
  BY <1>1, WriteNowKeeps
<1>3. Rest
  BY <1>1, RestFacts DEF IInv, Flags
<1>4. Memory(list', hash')
  BY <1>1 DEF IInv, memory
<1>5. QED BY <1>2, <1>3, <1>4, KeptIsEnough

\* A call that ends in CheckWrite() with nothing changed.
LEMMA QuietKeeps ==
    ASSUME SettingsAssumption, IInv, WriteWhenDue(list, changed, sincechange),
           UNCHANGED <<alive, memory, writeenabled, sincechange>>
    PROVE  IInv'
<1>1. Memory(list', hash') /\ list = list'
  BY DEF IInv, memory
<1>2. Kept
  BY <1>1, WhenDueKeeps
<1>3. Rest
  BY RestFacts DEF IInv, Flags
<1>4. QED BY <1>1, <1>2, <1>3, KeptIsEnough

\* One that changes the entries first.
LEMMA ChangedKeeps ==
    ASSUME SettingsAssumption, IInv, Memory(list', hash'), Changed(list'),
           UNCHANGED <<alive, writeenabled>>
    PROVE  IInv'
<1>1. sincechange' = 0 /\ WriteWhenDue(list', TRUE, 0)
  BY DEF Changed
<1>2. Kept
  <2>1. CASE writeenabled /\ Due(0)
    <3>1. WriteFile(list')
      BY <1>1, <2>1 DEF WriteWhenDue
    <3>2. PICK l : l = list' /\ WriteFile(l)
      BY <3>1
    <3>3. QED BY <3>2, WriteFileKeeps
  <2>2. CASE ~(writeenabled /\ Due(0))
    BY <1>1, <2>2 DEF WriteWhenDue, Kept, IInv, Flags, Clocks, FileOK, Saved
  <2>3. QED BY <2>1, <2>2
<1>3. Rest
  BY <1>1, RestFacts DEF IInv, Flags
<1>4. QED BY <1>2, <1>3, KeptIsEnough

LEMMA CrashKeeps == SettingsAssumption /\ IInv /\ Crash => IInv'
<1> SUFFICES ASSUME SettingsAssumption, IInv, Crash PROVE IInv'
  OBVIOUS
<1>1. /\ alive' = FALSE /\ changed' = FALSE
      /\ UNCHANGED <<memory, writeenabled, sincechange, sincewrite, parted>>
  BY DEF Crash
<1>2. FileOK(file')
  <2>1. CASE UNCHANGED file
    BY <2>1 DEF IInv
  <2>2. ASSUME NEW k \in 0..Len(list), file' \in CutAt(Lines(list), k) PROVE FileOK(file')
    <3>1. list \in Seq(Entry) /\ Len(list) <= Cardinality(Addresses)
      BY DEF IInv, Memory, ListOK
    <3>2. QED BY <2>2, <3>1, CutFileOK
  <2>3. QED BY <2>1, <2>2 DEF Crash
<1>3. Kept
  BY Zenon, <1>1, <1>2 DEF Kept, IInv, Flags, Clocks, Saved
<1>4. Rest
  BY <1>1, RestFacts
<1>5. Memory(list', hash')
  BY <1>1 DEF IInv, memory
<1>6. QED BY <1>3, <1>4, <1>5, KeptIsEnough

LEMMA SwitchKeeps ==
    ASSUME SettingsAssumption, IInv, NEW enabled \in BOOLEAN, EnableWrite(enabled)
    PROVE  IInv'
BY DEF EnableWrite, memory, IInv, Flags, Clocks, Saved

LEMMA ClearChangedKeeps == SettingsAssumption /\ IInv /\ ClearChanged => IInv'
<1> SUFFICES ASSUME SettingsAssumption, IInv, ClearChanged PROVE IInv'
  OBVIOUS
<1>1. parted' \in BOOLEAN /\ (~parted' => ~parted /\ ~changed)
  BY DEF ClearChanged, IInv, Flags
<1>2. QED BY <1>1 DEF ClearChanged, memory, IInv, Flags, Clocks, Saved

LEMMA EditKeeps == SettingsAssumption /\ IInv /\ Edit => IInv'
<1> SUFFICES ASSUME SettingsAssumption, IInv, Edit PROVE IInv'
  OBVIOUS
<1>1. FileOK(file')
  BY DEF Edit, SettingsAssumption, FileOK
<1>2. QED BY <1>1 DEF Edit, memory, IInv, Flags, Clocks, Saved

LEMMA TickKeeps == SettingsAssumption /\ IInv /\ Tick => IInv'
<1> SUFFICES ASSUME SettingsAssumption, IInv, Tick PROVE IInv'
  OBVIOUS
<1>1. sincechange' \in 0..WriteDelay
  BY Limits DEF Tick, IInv, Clocks
<1>2. sincewrite' \in 0..MaxHold
  BY Limits DEF Tick, IInv, Clocks
<1>3. QED BY <1>1, <1>2 DEF Tick, memory, IInv, Flags, Clocks, Saved

LEMMA AddLineKeeps == SettingsAssumption /\ IInv /\ AddLine => IInv'
<1> SUFFICES ASSUME SettingsAssumption, IInv, AddLine PROVE IInv'
  OBVIOUS
<1> DEFINE e == Pair(FreeAddress, Comment, <<>>)
<1>1. ListOK(list) /\ HashOK(hash) /\ Indexed(list, hash) /\ list \in Seq(Entry)
  BY DEF IInv, Memory, ListOK
<1>2. FreeAddress \in Addresses /\ \A k \in 1..Len(list) : list[k].at # FreeAddress
  BY <1>1, Addressed DEF AddLine
<1>3. e \in Entry /\ e.at = FreeAddress /\ e.name = Comment
  <2>1. <<>> \in Seq(Characters)
    OBVIOUS
  <2>2. QED BY <1>2, <2>1 DEF Pair, Entry
<1>4. Comment \notin Names
  BY Zenon DEF SettingsAssumption
<1>5. list' = Append(list, e) /\ hash' = hash
  BY DEF AddLine
<1> HIDE DEF e
<1>6. /\ Append(list, e) \in Seq(Entry) /\ Len(Append(list, e)) = Len(list) + 1
      /\ Indexed(Append(list, e), hash)
  BY <1>1, <1>2, <1>3, <1>4, Appending
<1>7. Len(list) + 1 <= Cardinality(Addresses)
  BY <1>1, FS_CardinalityType DEF AddLine, HasRoom, SettingsAssumption
<1>8. Memory(list', hash')
  BY <1>1, <1>5, <1>6, <1>7 DEF Memory, ListOK
<1>9. QED
  <2>1. /\ changed' = TRUE /\ sincechange' = 0
        /\ UNCHANGED <<alive, writeenabled, sincewrite, file, parted>>
    BY DEF AddLine
  <2>2. Kept
    BY Zenon, <2>1 DEF Kept, IInv, Flags, Clocks, Saved
  <2>3. Rest
    BY <2>1, RestFacts DEF IInv, Flags
  <2>4. QED BY <1>8, <2>2, <2>3, KeptIsEnough

LEMMA SetKeeps ==
    ASSUME SettingsAssumption, IInv, NEW name \in Names, NEW value \in Values, Set(name, value)
    PROVE  IInv'
<1>1. ListOK(list) /\ HashOK(hash) /\ Indexed(list, hash) /\ list \in Seq(Entry)
  BY DEF IInv, Memory, ListOK
<1>2. value \in Seq(Characters)
  BY DEF SettingsAssumption
<1>3. UNCHANGED <<alive, writeenabled>>
  BY DEF Set
<1>4. CASE /\ name \notin DOMAIN hash /\ HasRoom
           /\ list' = Append(list, Pair(FreeAddress, name, value))
           /\ hash' = Put(hash, name, FreeAddress)
           /\ Changed(list')
  <2> DEFINE e == Pair(FreeAddress, name, value)
  <2>1. FreeAddress \in Addresses /\ \A k \in 1..Len(list) : list[k].at # FreeAddress
    BY <1>1, <1>4, Addressed
  <2>2. e \in Entry /\ e.at = FreeAddress /\ e.name = name
    BY <1>2, <2>1 DEF Pair, Entry
  <2>3. list' = Append(list, e) /\ hash' = Put(hash, e.name, e.at)
    BY <1>4, <2>2
  <2> HIDE DEF e
  <2>4. /\ Append(list, e) \in Seq(Entry) /\ Len(Append(list, e)) = Len(list) + 1
        /\ Indexed(Append(list, e), Put(hash, e.name, e.at))
        /\ HashOK(Put(hash, e.name, e.at))
    BY <1>1, <1>4, <2>1, <2>2, Appending
  <2>5. Len(list) + 1 <= Cardinality(Addresses)
    BY <1>1, <1>4, FS_CardinalityType DEF HasRoom, SettingsAssumption
  <2>6. Memory(list', hash')
    BY <2>3, <2>4, <2>5 DEF Memory, ListOK
  <2>7. QED BY <1>3, <1>4, <2>6, ChangedKeeps
<1>5. CASE /\ name \in DOMAIN hash
           /\ list' = [list EXCEPT ![Find(name)].value = value]
           /\ UNCHANGED hash
           /\ Replaced(list')
  <2> DEFINE p == Place(list, hash, name)
  <2>1. Find(name) = p /\ p \in 1..Len(list)
    BY ZenonT(60), <1>1, <1>5, PlaceFacts DEF Find, Place
  <2> HIDE DEF p
  <2>2. list' = Revalued(list, p, value)
    BY Zenon, <1>5, <2>1 DEF Revalued
  <2>3. list' \in Seq(Entry) /\ Len(list') = Len(list) /\ Indexed(list', hash)
    BY <1>1, <1>2, <2>1, <2>2, Replacing
  <2>4. Memory(list', hash')
    BY <1>1, <1>5, <2>3 DEF Memory, ListOK
  <2>5. Changed(list')
    BY <1>5 DEF Replaced
  <2>6. QED BY <1>3, <2>4, <2>5, ChangedKeeps
<1>6. CASE WriteWhenDue(list, changed, sincechange) /\ UNCHANGED <<memory, sincechange>>
  BY <1>3, <1>6, QuietKeeps
<1>7. QED BY <1>4, <1>5, <1>6 DEF Set

LEMMA DeleteKeeps ==
    ASSUME SettingsAssumption, IInv, NEW name \in Names, Delete(name)
    PROVE  IInv'
<1>1. ListOK(list) /\ HashOK(hash) /\ Indexed(list, hash) /\ list \in Seq(Entry)
  BY DEF IInv, Memory, ListOK
<1>2. UNCHANGED <<alive, writeenabled>>
  BY DEF Delete
<1>3. CASE name \in DOMAIN hash
  <2> DEFINE p == Place(list, hash, name)
             m == RemoveAt(list, p)
  <2>1. Find(name) = p
    BY DEF Find, Place
  <2>2. list' = m /\ hash' = Without(hash, name) /\ Changed(list')
    BY <1>3, <2>1 DEF Delete, Unindex
  <2>3. /\ m \in Seq(Entry) /\ Len(m) = Len(list) - 1
        /\ Indexed(m, Without(hash, name)) /\ HashOK(Without(hash, name))
    BY <1>1, <1>3, Removing
  <2> HIDE DEF m
  <2>4. Len(m) <= Cardinality(Addresses)
    BY <1>1, <2>3, FS_CardinalityType DEF ListOK, SettingsAssumption
  <2>5. Memory(list', hash')
    BY <2>2, <2>3, <2>4 DEF Memory, ListOK
  <2>6. QED BY <1>2, <2>2, <2>5, ChangedKeeps
<1>4. CASE name \notin DOMAIN hash
  <2>1. WriteWhenDue(list, changed, sincechange) /\ UNCHANGED <<memory, sincechange>>
    BY <1>4 DEF Delete
  <2>2. QED BY <1>2, <2>1, QuietKeeps
<1>5. QED BY <1>3, <1>4

LEMMA StepKeeps == SettingsAssumption /\ IInv /\ [Next]_vars => IInv'
<1> SUFFICES ASSUME SettingsAssumption, IInv, [Next]_vars PROVE IInv'
  OBVIOUS
<1>1. CASE UNCHANGED vars
  BY <1>1 DEF vars, memory, IInv, Flags, Clocks, Saved
<1>2. CASE Construct \/ Destroy \/ Crash \/ Reload \/ Write
  BY <1>2, ConstructKeeps, DestroyKeeps, CrashKeeps, ReloadKeeps, WriteKeeps
<1>3. CASE CheckWrite
  BY <1>3, QuietKeeps DEF CheckWrite
<1>4. CASE \E enabled \in BOOLEAN : EnableWrite(enabled)
  BY <1>4, SwitchKeeps
<1>5. CASE ClearChanged \/ AddLine \/ Edit \/ Tick
  BY <1>5, ClearChangedKeeps, AddLineKeeps, EditKeeps, TickKeeps
<1>6. CASE \E name \in Names : Delete(name) \/ \E value \in Values : Set(name, value)
  BY <1>6, DeleteKeeps, SetKeeps
<1>7. QED BY <1>1, <1>2, <1>3, <1>4, <1>5, <1>6 DEF Next

LEMMA Always == Spec => []IInv
<1>1. Init => IInv
  BY IInvInit, SettingsAssumption
<1>2. IInv /\ [Next]_vars => IInv'
  BY StepKeeps, SettingsAssumption
<1>3. QED BY <1>1, <1>2, PTL DEF Spec

-----------------------------------------------------------------------------
(* The theorems *)

\* The entries, the hash, the file and the two clocks stay of their types, and
\* no more is loaded or added than there is memory for.
THEOREM TypeCorrect == Spec => []TypeOK
<1>1. IInv => TypeOK
  BY IInvImplies
<1>2. QED BY <1>1, Always, PTL

\* Whatever is set, deleted, loaded or reloaded, Get() and Set() find through the
\* hash an entry of the list: the last one with the name.
THEOREM NoStalePointer == Spec => []HashIndexesList
<1>1. IInv => HashIndexesList
  BY IInvImplies
<1>2. QED BY <1>1, Always, PTL

\* Whatever the values hold, whether the file could be opened and wherever the
\* process died, a handler that has nothing to write has the file's values, unless
\* a change was given up, another program wrote the file, or reading or writing it
\* stopped short: the code looks at none of these.
THEOREM SavedMeansStored == Spec => []SavedIsStored
<1>1. IInv => SavedIsStored
  BY IInvImplies
<1>2. QED BY <1>1, Always, PTL
=============================================================================

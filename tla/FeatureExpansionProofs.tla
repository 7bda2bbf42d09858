----------------------- MODULE FeatureExpansionProofs -----------------------
(***************************************************************************)
(* What garden-feat prints is the closure of what it was asked for, each   *)
(* feature once, in an order in which includes come first; the loops it    *)
(* complains of are loops, the names it makes are canonical, and the keys  *)
(* of model.py say the same: for every repository of features, every       *)
(* request and every order of the lists.                                   *)
(***************************************************************************)
EXTENDS FeatureExpansion, SequenceTheorems, FiniteSetTheorems, TLAPS

(* Sequences as stacks and queues.                                           *)

LEMMA AppendOne ==
    ASSUME NEW S, NEW s \in Seq(S), NEW x \in S
    PROVE  /\ Append(s, x) \in Seq(S)
           /\ Len(Append(s, x)) = Len(s) + 1
           /\ Elements(Append(s, x)) = Elements(s) \cup {x}
           /\ \A i \in DOMAIN s : Append(s, x)[i] = s[i]
           /\ Append(s, x)[Len(s) + 1] = x
BY DEF Elements

LEMMA PopOne ==
    ASSUME NEW S, NEW s \in Seq(S), s # <<>>
    PROVE  LET t == SubSeq(s, 1, Len(s) - 1) IN
           /\ t \in Seq(S)
           /\ Len(t) = Len(s) - 1
           /\ \A i \in DOMAIN t : i \in DOMAIN s /\ i < Len(s) /\ t[i] = s[i]
           /\ Elements(t) \subseteq Elements(s)
           /\ Elements(s) = Elements(t) \cup {s[Len(s)]}
           /\ s[Len(s)] \in S
<1> DEFINE t == SubSeq(s, 1, Len(s) - 1)
<1>1. Len(s) \in Nat /\ Len(s) > 0 /\ DOMAIN s = 1 .. Len(s)
  OBVIOUS
<1>a. \A i \in 1 .. Len(s) - 1 : s[i] \in S
  BY <1>1
<1>b. /\ t \in Seq(S)
      /\ Len(t) = IF 1 <= Len(s) - 1 THEN Len(s) - 1 - 1 + 1 ELSE 0
      /\ \A i \in 1 .. Len(s) - 1 - 1 + 1 : t[i] = s[1 + i - 1]
  BY <1>1, <1>a, SubSeqProperties
<1>2. /\ t \in Seq(S) /\ Len(t) = Len(s) - 1
      /\ \A i \in 1 .. Len(s) - 1 : t[i] = s[i]
  BY <1>1, <1>b
<1>c. DOMAIN t = 1 .. Len(s) - 1
  BY <1>2
<1>3. \A i \in DOMAIN t : i \in DOMAIN s /\ i < Len(s) /\ t[i] = s[i]
  BY <1>1, <1>2, <1>c
<1>4. DOMAIN s = DOMAIN t \cup {Len(s)}
  BY <1>1, <1>c
<1>5. Elements(s) = Elements(t) \cup {s[Len(s)]}
  <2>1. ASSUME NEW x \in Elements(s)
        PROVE  x \in Elements(t) \cup {s[Len(s)]}
    <3>1. PICK i \in DOMAIN s : x = s[i]
      BY <2>1 DEF Elements
    <3>2. CASE i = Len(s)
      BY <3>1, <3>2
    <3>3. CASE i \in DOMAIN t
      BY <3>1, <3>3, <1>3 DEF Elements
    <3> QED
      BY <1>4, <3>2, <3>3
  <2>2. ASSUME NEW x \in Elements(t)
        PROVE  x \in Elements(s)
    BY <2>2, <1>3 DEF Elements
  <2>3. s[Len(s)] \in Elements(s)
    BY <1>4 DEF Elements
  <2> QED
    BY <2>1, <2>2, <2>3
<1> QED
  BY <1>1, <1>2, <1>3, <1>5

LEMMA TakeOne ==
    ASSUME NEW S, NEW s \in Seq(S), s # <<>>
    PROVE  /\ Tail(s) \in Seq(S) /\ Head(s) \in S
           /\ Elements(s) = {Head(s)} \cup Elements(Tail(s))
<1>1. /\ Len(s) \in Nat /\ Len(s) > 0 /\ DOMAIN s = 1 .. Len(s)
      /\ Head(s) = s[1] /\ s[1] \in S
  OBVIOUS
<1>2. /\ Tail(s) \in Seq(S) /\ Len(Tail(s)) = Len(s) - 1
      /\ \A i \in 1 .. Len(Tail(s)) : Tail(s)[i] = s[i + 1]
  BY HeadTailProperties
<1>3. DOMAIN Tail(s) = 1 .. Len(s) - 1
  BY <1>2
<1>4. \A i \in DOMAIN Tail(s) : i + 1 \in DOMAIN s /\ Tail(s)[i] = s[i + 1]
  BY <1>1, <1>2, <1>3
<1>5. \A i \in DOMAIN s : i = 1 \/ (i - 1 \in DOMAIN Tail(s) /\ s[i] = Tail(s)[i - 1])
  BY <1>1, <1>2, <1>3
<1>6. Elements(s) \subseteq {Head(s)} \cup Elements(Tail(s))
  BY <1>1, <1>5 DEF Elements
<1>7. {Head(s)} \cup Elements(Tail(s)) \subseteq Elements(s)
  BY <1>1, <1>4 DEF Elements
<1> QED
  BY <1>1, <1>2, <1>6, <1>7

LEMMA One ==
    ASSUME NEW S, NEW x \in S
    PROVE  /\ <<x>> \in Seq(S) /\ Len(<<x>>) = 1 /\ <<x>>[1] = x
           /\ Elements(<<x>>) = {x}
BY DEF Elements

LEMMA NoElements == Elements(<<>>) = {}
BY DEF Elements

LEMMA ElementsOfSeq ==
    ASSUME NEW S, NEW s \in Seq(S)
    PROVE  /\ Elements(s) \subseteq S
           /\ \A i \in 1 .. Len(s) : s[i] \in Elements(s)
BY DEF Elements

(* The closure.                                                              *)

LEMMA ReachableContains ==
    ASSUME NEW inc, NEW ign, NEW S, S \subseteq Feature
    PROVE  S \subseteq Reachable(inc, ign, S) /\ Reachable(inc, ign, S) \subseteq Feature
BY DEF Reachable

LEMMA ReachableIsClosed ==
    ASSUME NEW inc \in [Feature -> Seq(Feature)], NEW ign, NEW S,
           NEW f \in Reachable(inc, ign, S), f \notin ign
    PROVE  Elements(inc[f]) \subseteq Reachable(inc, ign, S)
<1>1. f \in Feature /\ Elements(inc[f]) \subseteq Feature
  BY ElementsOfSeq DEF Reachable
<1>2. ASSUME NEW g \in Elements(inc[f]), NEW C \in ClosedSets(inc, ign), S \subseteq C
      PROVE  g \in C
  <2>1. f \in C
    BY <1>2 DEF Reachable
  <2> QED
    BY <2>1, <1>2 DEF ClosedSets
<1> QED
  BY <1>1, <1>2 DEF Reachable

LEMMA ReachableIsLeast ==
    ASSUME NEW inc, NEW ign, NEW S, NEW C \in ClosedSets(inc, ign), S \subseteq C
    PROVE  Reachable(inc, ign, S) \subseteq C
BY DEF Reachable

(* The invariant.  Hot features are those the search has entered and not     *)
(* left: each reaches everything above it on the stack.                      *)

InputInv ==
    /\ include \in [Feature -> Seq(Feature)]
    /\ ignored \subseteq Feature
    /\ requested \in Seq(Feature)
    /\ phase \in {"start", "expand", "validate", "reduce", "done", "failed"}

SearchTypes ==
    /\ queue \in Seq(Feature \cup {Nil})
    /\ stack \in Seq(Feature) /\ expanded \in Seq(Feature)
    /\ seen \subseteq Feature
    /\ vertex \in Feature \cup {Nil} /\ edge \in Nat
    /\ complete \in BOOLEAN

StackInv ==
    /\ Elements(stack) \subseteq seen
    /\ \A i, j \in DOMAIN stack : i # j => stack[i] # stack[j]
    /\ hot \subseteq Elements(stack) /\ hot \cap ignored = {}
    /\ \A i, j \in DOMAIN stack :
          i < j /\ stack[i] \in hot => stack[j] \in Included(include, ignored, stack[i])

VertexInv ==
    vertex # Nil =>
        /\ vertex \in hot
        /\ edge <= Len(include[vertex])
        /\ \A i \in DOMAIN include[vertex] : i > edge => include[vertex][i] \in seen
        /\ complete => stack # <<>> /\ stack[Len(stack)] = vertex
        /\ \A h \in hot : h # vertex => vertex \in Included(include, ignored, h)

ExpandInv ==
    phase = "expand" =>
        /\ queue \in Seq(Feature)
        /\ Elements(expanded) \cap ignored = {} /\ Elements(expanded) \cap Elements(stack) = {}
        /\ Elements(expanded) \subseteq seen
        /\ seen \subseteq Elements(stack) \cup Elements(expanded) \cup ignored
        /\ \A f \in Elements(expanded) : Elements(include[f]) \subseteq seen
        /\ seen \subseteq Reachable(include, ignored, Wanted)
        /\ Elements(queue) \subseteq Wanted /\ Wanted \subseteq seen \cup Elements(queue)

StartInv == phase = "start" => seen = {} /\ stack = <<>> /\ expanded = <<>> /\ vertex = Nil

Inv ==
    /\ InputInv /\ SearchTypes /\ StackInv /\ VertexInv /\ ExpandInv /\ StartInv
    /\ NothingTwice /\ ExpansionIsClosure /\ LoopsAreReal

LEMMA InitInv == ASSUME Init PROVE Inv
<1> USE InputAssumption
<1>1. InputInv
  BY DEF Init, InputInv
<1>2. SearchTypes
  BY DEF Init, SearchTypes
<1>3. StackInv /\ StartInv /\ ExpandInv
  BY NoElements DEF Init, StackInv, StartInv, ExpandInv
<1>4. VertexInv
  BY DEF Init, VertexInv
<1>5. NothingTwice /\ ExpansionIsClosure /\ LoopsAreReal
  BY DEF Init, NothingTwice, ExpansionIsClosure, LoopsAreReal
<1> QED
  BY <1>1, <1>2, <1>3, <1>4, <1>5 DEF Inv

(* The start of a search.                                                    *)

LEMMA StackOfOne ==
    ASSUME NEW f \in Feature, stack' = <<f>>, f \in seen', hot' = {}
    PROVE  StackInv' /\ stack' \in Seq(Feature)
<1>1. stack' \in Seq(Feature) /\ Len(stack') = 1 /\ Elements(stack') = {f}
  BY One
<1>2. \A i, j \in DOMAIN stack' : i = j
  BY <1>1
<1>3. /\ Elements(stack') \subseteq seen'
      /\ \A i, j \in DOMAIN stack' : i # j => stack'[i] # stack'[j]
  BY <1>1, <1>2
<1>4. \A i \in DOMAIN stack' : stack'[i] \notin hot'
  OBVIOUS
<1> QED
  BY <1>1, <1>3, <1>4 DEF StackInv

LEMMA KnownFeatures == Known \subseteq Feature
BY FeatureAssumption

LEMMA StepStart == ASSUME Inv, Start PROVE Inv'
<1> USE DEF Inv
<1>1. /\ UNCHANGED <<include, ignored, requested, seen, hot, stack, vertex, edge, complete, expanded>>
      /\ seen = {} /\ stack = <<>> /\ expanded = <<>> /\ vertex = Nil
  BY DEF Start, StartInv, input, search, results
<1>2. CASE phase' = "expand"
  <2>1. queue' \in Seq(Feature) /\ Elements(queue') = Wanted
    <3>1. CASE queue' = requested
      BY <3>1 DEF InputInv, Wanted
    <3>2. CASE queue' \in SortFeatures(requested)
      <4>1. /\ queue' \in [DOMAIN requested -> Elements(requested)]
            /\ \A i \in DOMAIN requested : \E j \in DOMAIN requested : queue'[j] = requested[i]
        <5>1. PICK p \in [DOMAIN requested -> DOMAIN requested] :
                 \A i \in DOMAIN requested :
                    queue'[i] = requested[p[i]] /\ \E j \in DOMAIN requested : p[j] = i
          BY <3>2 DEF SortFeatures
        <5> QED
          BY <3>2, <5>1 DEF SortFeatures
      <4>2. requested \in Seq(Feature) /\ Elements(requested) \subseteq Feature
        BY ElementsOfSeq DEF InputInv
      <4>3. queue' \in Seq(Feature)
        BY <4>1, <4>2
      <4>4. Elements(queue') = Elements(requested)
        BY <4>1 DEF Elements
      <4> QED
        BY <4>3, <4>4 DEF Wanted
    <3> QED
      BY <1>2, <3>1, <3>2 DEF Start, Fail
  <2>2. Elements(stack) = {} /\ Elements(expanded) = {}
    BY <1>1, NoElements
  <2>3. ExpandInv'
    BY <1>1, <1>2, <2>1, <2>2 DEF ExpandInv, Wanted
  <2>4. InputInv' /\ SearchTypes'
    BY <1>1, <1>2, <2>1 DEF InputInv, SearchTypes
  <2> QED
    BY <1>1, <1>2, <2>3, <2>4
       DEF StackInv, VertexInv, StartInv, NothingTwice, ExpansionIsClosure, LoopsAreReal
<1>3. CASE phase' = "failed" /\ queue' = queue /\ outcome'.kind = "unknown"
  BY <1>1, <1>3 DEF InputInv, SearchTypes, StackInv, VertexInv, ExpandInv, StartInv,
                    NothingTwice, ExpansionIsClosure, LoopsAreReal
<1> QED
  BY <1>2, <1>3 DEF Start, Fail

\* Where no search is under way, the invariants of the search say little.
LEMMA NotSearching ==
    ASSUME Inv, stack = <<>>
    PROVE  hot = {} /\ vertex = Nil
<1>1. hot = {}
  BY NoElements DEF Inv, StackInv
<1> QED
  BY <1>1 DEF Inv, VertexInv

LEMMA StepTakeFeature == ASSUME Inv, TakeFeature PROVE Inv'
<1> USE DEF Inv
<1> DEFINE f == Head(queue)
<1>1. /\ phase = "expand" /\ stack = <<>> /\ queue \in Seq(Feature) /\ queue # <<>>
      /\ queue' = Tail(queue) /\ UNCHANGED <<include, ignored, requested, expanded>>
      /\ BeginSearch(f, seen)
  BY DEF TakeFeature, Searching, ExpandInv, input, results
<1>2. /\ f \in Feature /\ queue' \in Seq(Feature)
      /\ Elements(queue) = {f} \cup Elements(queue')
  BY <1>1, TakeOne
<1>3. hot = {} /\ vertex = Nil
  BY <1>1, NotSearching
<1>4. Elements(stack) = {}
  BY <1>1, NoElements
<1>5. CASE f \notin Known
  <2>1. phase' = "failed" /\ outcome'.kind = "unknown"
        /\ UNCHANGED <<seen, hot, stack, vertex, edge, complete>>
    BY <1>1, <1>5 DEF BeginSearch, Fail, search
  <2> QED
    BY <1>1, <1>2, <2>1 DEF InputInv, SearchTypes, StackInv, VertexInv, ExpandInv, StartInv,
                    NothingTwice, ExpansionIsClosure, LoopsAreReal
<1>6. CASE f \in Known /\ f \in seen
  <2>1. UNCHANGED <<phase, outcome, seen, hot, stack, vertex, edge, complete>>
    BY <1>1, <1>6 DEF BeginSearch, search
  <2>2. ExpandInv'
    BY <1>1, <1>2, <1>6, <2>1 DEF ExpandInv, Wanted
  <2> QED
    BY <1>1, <1>2, <2>1, <2>2 DEF InputInv, SearchTypes, StackInv, VertexInv, StartInv,
                    NothingTwice, ExpansionIsClosure, LoopsAreReal
<1>7. CASE f \in Known /\ f \notin seen
  <2>1. /\ UNCHANGED <<phase, outcome, vertex, edge, complete>>
        /\ seen' = seen \cup {f} /\ hot' = {} /\ stack' = <<f>>
    BY <1>1, <1>7 DEF BeginSearch, search
  <2>2. StackInv' /\ stack' \in Seq(Feature)
    BY <1>2, <2>1, StackOfOne
  <2>3. Elements(stack') = {f}
    BY <1>2, <2>1, One
  <2>4. f \in Reachable(include, ignored, Wanted)
    <3>1. Wanted \subseteq Feature /\ f \in Wanted
      BY <1>1, <1>2, ElementsOfSeq DEF ExpandInv, InputInv, Wanted
    <3> QED
      BY <3>1, ReachableContains
  <2>5. Elements(expanded) \cap Elements(stack') = {}
    BY <1>1, <1>7, <2>3 DEF ExpandInv
  <2>6. ExpandInv'
    BY <1>1, <1>2, <1>4, <2>1, <2>3, <2>4, <2>5 DEF ExpandInv, Wanted
  <2>7. VertexInv' /\ StartInv' /\ NothingTwice' /\ ExpansionIsClosure' /\ LoopsAreReal'
    BY <1>1, <1>3, <2>1 DEF VertexInv, StartInv, NothingTwice, ExpansionIsClosure, LoopsAreReal
  <2>8. InputInv' /\ SearchTypes'
    BY <1>1, <1>2, <2>1, <2>2 DEF InputInv, SearchTypes
  <2> QED
    BY <2>2, <2>6, <2>7, <2>8
<1> QED
  BY <1>5, <1>6, <1>7

LEMMA StepTakeForReduction == ASSUME Inv, TakeForReduction PROVE Inv'
<1> USE DEF Inv
<1> DEFINE f == Head(queue)
<1>1. /\ phase = "reduce" /\ stack = <<>> /\ queue \in Seq(Feature \cup {Nil}) /\ queue # <<>>
      /\ queue' = Tail(queue) /\ UNCHANGED <<include, ignored, requested, expanded>>
  BY DEF TakeForReduction, Searching, SearchTypes, input
<1>2. queue' \in Seq(Feature \cup {Nil})
  BY <1>1, TakeOne
<1>3. hot = {} /\ vertex = Nil
  BY <1>1, NotSearching
<1>4. CASE UNCHANGED <<search, phase, outcome>>
  BY <1>1, <1>2, <1>4 DEF search, InputInv, SearchTypes, StackInv, VertexInv, ExpandInv, StartInv,
                    NothingTwice, ExpansionIsClosure, LoopsAreReal, Wanted
<1>5. CASE BeginSearch(f, {})
  <2>1. CASE f \notin Known
    <3>1. phase' = "failed" /\ outcome'.kind = "unknown"
          /\ UNCHANGED <<seen, hot, stack, vertex, edge, complete>>
      BY <1>5, <2>1 DEF BeginSearch, Fail, search
    <3> QED
      BY <1>1, <1>2, <3>1 DEF InputInv, SearchTypes, StackInv, VertexInv, ExpandInv, StartInv,
                      NothingTwice, ExpansionIsClosure, LoopsAreReal
  <2>2. CASE f \in Known
    <3>1. /\ UNCHANGED <<phase, outcome, vertex, edge, complete>>
          /\ seen' = {f} /\ hot' = {} /\ stack' = <<f>> /\ f \in Feature
      BY <1>5, <2>2, KnownFeatures DEF BeginSearch
    <3>2. StackInv' /\ stack' \in Seq(Feature)
      BY <3>1, StackOfOne
    <3>3. InputInv' /\ SearchTypes'
      BY <1>1, <1>2, <3>1, <3>2 DEF InputInv, SearchTypes
    <3> QED
      BY <1>1, <1>3, <3>1, <3>2, <3>3
         DEF VertexInv, ExpandInv, StartInv, NothingTwice, ExpansionIsClosure, LoopsAreReal, Wanted
  <2> QED
    BY <2>1, <2>2
<1> QED
  BY <1>1, <1>4, <1>5 DEF TakeForReduction

(* What is popped leaves a stack.                                            *)

LEMMA PopKeeps ==
    ASSUME Inv, stack # <<>>, Pop, UNCHANGED <<include, ignored, seen>>,
           hot' = hot \ {Top}
    PROVE  /\ stack' \in Seq(Feature) /\ StackInv'
           /\ Top \in Feature /\ Top \in seen /\ Top \notin Elements(stack')
           /\ Elements(stack) = Elements(stack') \cup {Top}
<1>1. stack \in Seq(Feature) /\ stack' = SubSeq(stack, 1, Len(stack) - 1)
  BY DEF Inv, SearchTypes, Pop
<1>2. /\ stack' \in Seq(Feature) /\ Len(stack') = Len(stack) - 1
      /\ \A i \in DOMAIN stack' : i \in DOMAIN stack /\ i < Len(stack) /\ stack'[i] = stack[i]
      /\ Elements(stack) = Elements(stack') \cup {stack[Len(stack)]}
      /\ stack[Len(stack)] \in Feature
  <2>1. stack # <<>>
    OBVIOUS
  <2> QED
    BY <1>1, <2>1, PopOne
<1>3. Top = stack[Len(stack)]
  BY DEF Top
<1>4. Len(stack) \in DOMAIN stack
  BY <1>1
<1>5. Top \notin Elements(stack')
  <2>1. SUFFICES ASSUME NEW i \in DOMAIN stack', stack'[i] = Top
                 PROVE  FALSE
    BY DEF Elements
  <2>2. i \in DOMAIN stack /\ i # Len(stack) /\ stack[i] = stack[Len(stack)]
    BY <1>2, <1>3, <2>1
  <2> QED
    BY <1>4, <2>2 DEF Inv, StackInv
<1>6. StackInv'
  <2>1. Elements(stack') \subseteq seen'
    BY <1>2 DEF Inv, StackInv
  <2>2. \A i, j \in DOMAIN stack' : i # j => stack'[i] # stack'[j]
    BY <1>2 DEF Inv, StackInv
  <2>3. hot' \subseteq Elements(stack') /\ hot' \cap ignored' = {}
    BY <1>2, <1>3 DEF Inv, StackInv
  <2>4. \A i, j \in DOMAIN stack' :
           i < j /\ stack'[i] \in hot' => stack'[j] \in Included(include', ignored', stack'[i])
    BY <1>2 DEF Inv, StackInv
  <2> QED
    BY <2>1, <2>2, <2>3, <2>4 DEF StackInv
<1> QED
  BY <1>2, <1>3, <1>5, <1>6 DEF Inv, StackInv

LEMMA StepSkipIgnored == ASSUME Inv, SkipIgnored PROVE Inv'
<1>1. /\ stack # <<>> /\ vertex = Nil /\ Top \in ignored /\ Pop
      /\ UNCHANGED <<include, ignored, requested, phase, queue, seen, hot, vertex, edge, complete,
                     expanded, outcome>>
  BY DEF SkipIgnored, Searching, input
<1>2. hot' = hot \ {Top}
  BY <1>1 DEF Inv, StackInv
<1>3. /\ stack' \in Seq(Feature) /\ StackInv'
      /\ Elements(stack) = Elements(stack') \cup {Top}
  BY <1>1, <1>2, PopKeeps
<1>4. ExpandInv'
  BY <1>1, <1>3 DEF Inv, ExpandInv, Wanted
<1>5. InputInv' /\ SearchTypes'
  BY <1>1, <1>3 DEF Inv, InputInv, SearchTypes
<1>6. phase # "start"
  BY DEF SkipIgnored, Running
<1> QED
  BY <1>1, <1>3, <1>4, <1>5, <1>6
     DEF Inv, VertexInv, StartInv, NothingTwice, ExpansionIsClosure, LoopsAreReal, Wanted

LEMMA StepVisit == ASSUME Inv, Visit PROVE Inv'
<1>1. /\ stack # <<>> /\ Top \notin ignored
      /\ vertex' = Top /\ hot' = hot \cup {Top} /\ edge' = Len(include[Top]) /\ complete' = TRUE
      /\ UNCHANGED <<include, ignored, requested, phase, queue, seen, stack, expanded, outcome>>
      /\ phase \in {"expand", "reduce"}
  BY DEF Visit, Searching, Running, input, results
<1>2. /\ stack \in Seq(Feature) /\ Len(stack) \in DOMAIN stack /\ DOMAIN stack = 1 .. Len(stack)
      /\ Len(stack) \in Nat /\ Top = stack[Len(stack)] /\ Top \in Feature /\ Top \in Elements(stack)
  BY <1>1 DEF Inv, SearchTypes, Top, Elements
<1>3. include[Top] \in Seq(Feature) /\ Len(include[Top]) \in Nat
      /\ DOMAIN include[Top] = 1 .. Len(include[Top])
  BY <1>2 DEF Inv, InputInv
<1>4. StackInv'
  <2>1. ASSUME NEW i \in DOMAIN stack, NEW j \in DOMAIN stack, i < j, stack[i] \in hot'
        PROVE  stack[j] \in Included(include, ignored, stack[i])
    <3>1. i # Len(stack)
      BY <1>2, <2>1
    <3>2. stack[i] # Top
      BY <1>2, <3>1, <2>1 DEF Inv, StackInv
    <3> QED
      BY <1>1, <2>1, <3>2 DEF Inv, StackInv
  <2>2. hot' \subseteq Elements(stack) /\ hot' \cap ignored = {}
    BY <1>1, <1>2 DEF Inv, StackInv
  <2> QED
    BY <1>1, <2>1, <2>2 DEF Inv, StackInv
<1>5. VertexInv'
  <2>1. \A i \in DOMAIN include[Top] : ~(i > Len(include[Top]))
    BY <1>3
  <2>2. ASSUME NEW h \in hot', h # Top
        PROVE  Top \in Included(include, ignored, h)
    <3>1. h \in hot /\ h \in Elements(stack)
      BY <1>1, <2>2 DEF Inv, StackInv
    <3>2. PICK i \in DOMAIN stack : h = stack[i]
      BY <3>1 DEF Elements
    <3>3. i < Len(stack)
      BY <1>2, <2>2, <3>2
    <3> QED
      BY <1>2, <3>1, <3>2, <3>3 DEF Inv, StackInv
  <2>3. Len(include[Top]) <= Len(include[Top])
    BY <1>3
  <2> QED
    BY <1>1, <1>2, <2>1, <2>2, <2>3 DEF VertexInv
<1>6. InputInv' /\ SearchTypes'
  BY <1>1, <1>2, <1>3 DEF Inv, InputInv, SearchTypes
<1> QED
  BY <1>1, <1>4, <1>5, <1>6
     DEF Inv, ExpandInv, StartInv, NothingTwice, ExpansionIsClosure, LoopsAreReal, Wanted

\* The feature that is looked at, and what its list names at the place the loop is at.
LEMMA AtAnEdge ==
    ASSUME Inv, vertex # Nil, edge > 0
    PROVE  LET w == include[vertex][edge] IN
           /\ edge \in DOMAIN include[vertex] /\ include[vertex] \in Seq(Feature)
           /\ vertex \in Feature /\ vertex \in hot /\ vertex \notin ignored /\ vertex \in seen
           /\ w \in Feature /\ w \in Elements(include[vertex])
           /\ \A h \in hot : w \in Included(include, ignored, h)
<1> DEFINE w == include[vertex][edge]
<1>1. vertex \in Feature /\ vertex \in hot /\ edge <= Len(include[vertex])
  BY DEF Inv, VertexInv, SearchTypes
<1>2. vertex \notin ignored /\ vertex \in seen
  BY <1>1 DEF Inv, StackInv
<1>3. include[vertex] \in Seq(Feature) /\ edge \in DOMAIN include[vertex]
  BY <1>1 DEF Inv, InputInv, SearchTypes
<1>4. w \in Feature /\ w \in Elements(include[vertex])
  BY <1>3 DEF Elements
<1>5. ASSUME NEW h \in hot
      PROVE  w \in Included(include, ignored, h)
  <2>1. h \in Feature
    BY ElementsOfSeq DEF Inv, StackInv, SearchTypes
  <2>2. include \in [Feature -> Seq(Feature)] /\ Elements(include[h]) \subseteq Feature
    BY <2>1, ElementsOfSeq DEF Inv, InputInv
  <2>3. CASE h = vertex
    BY <1>4, <2>2, <2>3, ReachableContains DEF Included
  <2>4. CASE h # vertex
    <3>1. vertex \in Reachable(include, ignored, Elements(include[h]))
      BY <1>5, <2>4 DEF Inv, VertexInv, Included
    <3> QED
      BY <1>2, <1>4, <2>2, <3>1, ReachableIsClosed DEF Included
  <2> QED
    BY <2>3, <2>4
<1> QED
  BY <1>1, <1>2, <1>3, <1>4, <1>5

LEMMA StepFindLoop == ASSUME Inv, FindLoop PROVE Inv'
<1>1. /\ vertex # Nil /\ edge > 0 /\ include[vertex][edge] \in hot
      /\ phase' = "failed" /\ outcome'.kind = "loop" /\ outcome'.feature = include[vertex][edge]
      /\ UNCHANGED <<include, ignored, requested, queue, seen, hot, stack, vertex, edge, complete,
                     expanded>>
  BY DEF FindLoop, Fail, input, search, results
<1>2. include[vertex][edge] \in Included(include, ignored, include[vertex][edge])
  BY <1>1, AtAnEdge
<1>3. LoopsAreReal'
  BY <1>1, <1>2 DEF LoopsAreReal
<1> QED
  BY <1>1, <1>3 DEF Inv, InputInv, SearchTypes, StackInv, VertexInv, ExpandInv, StartInv,
                    NothingTwice, ExpansionIsClosure

LEMMA StepFollowEdge == ASSUME Inv, FollowEdge PROVE Inv'
<1> DEFINE w == include[vertex][edge]
<1>1. /\ phase \in {"expand", "reduce"}
      /\ vertex # Nil /\ edge > 0 /\ edge' = edge - 1
      /\ UNCHANGED <<include, ignored, requested, phase, queue, hot, vertex, expanded, outcome>>
  BY DEF FollowEdge, Running, input, results
<1>2. /\ edge \in DOMAIN include[vertex] /\ include[vertex] \in Seq(Feature)
      /\ vertex \in Feature /\ vertex \in hot /\ vertex \notin ignored /\ vertex \in seen
      /\ w \in Feature /\ w \in Elements(include[vertex])
      /\ \A h \in hot : w \in Included(include, ignored, h)
  BY <1>1, AtAnEdge
<1>e. edge' \in Nat
  BY <1>1 DEF Inv, SearchTypes
<1>3. CASE w \in seen
  <2>1. UNCHANGED <<seen, stack, complete>>
    BY <1>3 DEF FollowEdge
  <2>2. VertexInv'
    <3>1. \A i \in DOMAIN include[vertex] : i > edge - 1 => i = edge \/ i > edge
      BY <1>2 DEF Inv, SearchTypes
    <3>2. edge - 1 <= Len(include[vertex])
      BY <1>1, <1>2 DEF Inv, VertexInv, SearchTypes
    <3> QED
      BY <1>1, <1>3, <2>1, <3>1, <3>2 DEF Inv, VertexInv
  <2>3. InputInv' /\ SearchTypes'
    BY <1>1, <1>e, <2>1 DEF Inv, InputInv, SearchTypes
  <2> QED
    BY <1>1, <2>1, <2>2, <2>3
       DEF Inv, StackInv, ExpandInv, StartInv, NothingTwice, ExpansionIsClosure, LoopsAreReal, Wanted
<1>4. CASE w \notin seen
  <2>1. seen' = seen \cup {w} /\ stack' = Append(stack, w) /\ complete' = FALSE
    BY <1>4 DEF FollowEdge
  <2>2. stack \in Seq(Feature) /\ Len(stack) \in Nat /\ DOMAIN stack = 1 .. Len(stack)
    BY DEF Inv, SearchTypes
  <2>3. /\ stack' \in Seq(Feature) /\ Len(stack') = Len(stack) + 1
        /\ Elements(stack') = Elements(stack) \cup {w}
        /\ \A i \in DOMAIN stack : stack'[i] = stack[i]
        /\ stack'[Len(stack) + 1] = w
    BY <1>2, <2>1, <2>2, AppendOne
  <2>4. DOMAIN stack' = DOMAIN stack \cup {Len(stack) + 1}
    BY <2>2, <2>3
  <2>5. w \notin Elements(stack)
    BY <1>4 DEF Inv, StackInv
  <2>6. StackInv'
    <3>1. ASSUME NEW i \in DOMAIN stack', NEW j \in DOMAIN stack', i # j
          PROVE  stack'[i] # stack'[j]
      <4>1. \A k \in DOMAIN stack : stack[k] # w
        BY <2>5 DEF Elements
      <4>2. CASE i \in DOMAIN stack /\ j \in DOMAIN stack
        BY <2>3, <3>1, <4>2 DEF Inv, StackInv
      <4>3. CASE i = Len(stack) + 1 \/ j = Len(stack) + 1
        BY <2>3, <2>4, <3>1, <4>1, <4>3
      <4> QED
        BY <2>4, <4>2, <4>3
    <3>2. ASSUME NEW i \in DOMAIN stack', NEW j \in DOMAIN stack', i < j, stack'[i] \in hot
          PROVE  stack'[j] \in Included(include, ignored, stack'[i])
      <4>1. i \in DOMAIN stack
        BY <2>2, <2>3, <2>4, <3>2
      <4>2. CASE j \in DOMAIN stack
        BY <2>3, <3>2, <4>1, <4>2 DEF Inv, StackInv
      <4>3. CASE j = Len(stack) + 1
        BY <1>2, <2>3, <3>2, <4>3
      <4> QED
        BY <2>4, <4>2, <4>3
    <3>3. Elements(stack') \subseteq seen' /\ hot \subseteq Elements(stack')
      BY <2>1, <2>3 DEF Inv, StackInv
    <3> QED
      BY <1>1, <3>1, <3>2, <3>3 DEF Inv, StackInv
  <2>7. VertexInv'
    <3>1. \A i \in DOMAIN include[vertex] : i > edge - 1 => i = edge \/ i > edge
      BY <1>2 DEF Inv, SearchTypes
    <3>2. edge - 1 <= Len(include[vertex])
      BY <1>1, <1>2 DEF Inv, VertexInv, SearchTypes
    <3>3. \A i \in DOMAIN include[vertex] : i > edge - 1 => include[vertex][i] \in seen'
      BY <1>1, <2>1, <3>1 DEF Inv, VertexInv
    <3> QED
      BY <1>1, <2>1, <3>2, <3>3 DEF Inv, VertexInv
  <2>8. ExpandInv'
    <3>1. CASE phase = "expand"
      <4>1. w \in Reachable(include, ignored, Wanted)
        BY <1>2, <3>1, ReachableIsClosed DEF Inv, ExpandInv, InputInv
      <4>2. w \notin Elements(expanded)
        BY <1>4, <3>1 DEF Inv, ExpandInv
      <4> QED
        BY <1>1, <2>1, <2>3, <3>1, <4>1, <4>2 DEF Inv, ExpandInv, Wanted
    <3> QED
      BY <1>1, <3>1 DEF ExpandInv
  <2>9. InputInv' /\ SearchTypes'
    BY <1>1, <1>2, <1>e, <2>1, <2>3 DEF Inv, InputInv, SearchTypes
  <2> QED
    BY <1>1, <2>6, <2>7, <2>8, <2>9
       DEF Inv, StartInv, NothingTwice, ExpansionIsClosure, LoopsAreReal, Wanted
<1> QED
  BY <1>3, <1>4

LEMMA StepEndVisit == ASSUME Inv, EndVisit PROVE Inv'
<1>1. /\ phase \in {"expand", "reduce"}
      /\ vertex # Nil /\ edge = 0 /\ vertex' = Nil
      /\ UNCHANGED <<include, ignored, requested, phase, seen, edge, complete, outcome>>
  BY DEF EndVisit, Running, input
<1>2. CASE ~complete
  <2>1. UNCHANGED <<stack, hot, queue, expanded>>
    BY <1>2 DEF EndVisit, results
  <2> QED
    BY <1>1, <2>1 DEF Inv, InputInv, SearchTypes, StackInv, VertexInv, ExpandInv, StartInv,
                      NothingTwice, ExpansionIsClosure, LoopsAreReal, Wanted
<1>3. CASE complete
  <2>1. Pop /\ hot' = hot \ {vertex} /\ (IF phase = "expand" THEN Expand(vertex) ELSE Reduce(vertex))
    BY <1>3 DEF EndVisit
  <2>2. /\ stack # <<>> /\ Top = vertex /\ vertex \in hot
        /\ \A i \in DOMAIN include[vertex] : i > 0 => include[vertex][i] \in seen
    BY <1>1, <1>3 DEF Inv, VertexInv, Top
  <2>3. /\ stack' \in Seq(Feature) /\ StackInv'
        /\ vertex \in Feature /\ vertex \in seen /\ vertex \notin Elements(stack')
        /\ Elements(stack) = Elements(stack') \cup {vertex}
    BY <1>1, <2>1, <2>2, PopKeeps
  <2>4. vertex \notin ignored
    BY <2>2 DEF Inv, StackInv
  <2>5. Elements(include[vertex]) \subseteq seen
    <3>1. include[vertex] \in Seq(Feature)
      BY <2>3 DEF Inv, InputInv
    <3> QED
      BY <2>2, <3>1 DEF Elements
  <2>6. CASE phase = "expand"
    <3>1. expanded' = Append(expanded, vertex) /\ queue' = queue
      BY <2>1, <2>6 DEF Expand
    <3>2. expanded \in Seq(Feature) /\ Len(expanded) \in Nat /\ DOMAIN expanded = 1 .. Len(expanded)
      BY DEF Inv, SearchTypes
    <3>3. /\ expanded' \in Seq(Feature) /\ Len(expanded') = Len(expanded) + 1
          /\ Elements(expanded') = Elements(expanded) \cup {vertex}
          /\ \A i \in DOMAIN expanded : expanded'[i] = expanded[i]
          /\ expanded'[Len(expanded) + 1] = vertex
      BY <2>3, <3>1, <3>2, AppendOne
    <3>4. DOMAIN expanded' = DOMAIN expanded \cup {Len(expanded) + 1}
      BY <3>2, <3>3
    <3>5. NothingTwice'
      <4>1. \A k \in DOMAIN expanded : expanded[k] # vertex
        BY <2>3, <2>6 DEF Inv, ExpandInv, Elements
      <4>2. ASSUME NEW i \in DOMAIN expanded', NEW j \in DOMAIN expanded', i # j
            PROVE  expanded'[i] # expanded'[j]
        <5>1. CASE i \in DOMAIN expanded /\ j \in DOMAIN expanded
          BY <3>3, <4>2, <5>1 DEF Inv, NothingTwice
        <5>2. CASE i = Len(expanded) + 1 \/ j = Len(expanded) + 1
          BY <3>3, <3>4, <4>1, <4>2, <5>2
        <5> QED
          BY <3>4, <5>1, <5>2
      <4> QED
        BY <4>2 DEF NothingTwice
    <3>6. ExpandInv'
      BY <1>1, <2>3, <2>4, <2>5, <2>6, <3>1, <3>3 DEF Inv, ExpandInv, Wanted
    <3>7. InputInv' /\ SearchTypes'
      BY <1>1, <2>3, <3>1, <3>3 DEF Inv, InputInv, SearchTypes
    <3> QED
      BY <1>1, <2>3, <2>6, <3>5, <3>6, <3>7
         DEF Inv, VertexInv, StartInv, ExpansionIsClosure, LoopsAreReal
  <2>7. CASE phase = "reduce"
    <3>1. expanded' = expanded /\ queue' \in Seq(Feature \cup {Nil})
      <4>1. queue \in Seq(Feature \cup {Nil})
        BY DEF Inv, SearchTypes
      <4>2. CASE vertex = origin
        BY <2>1, <2>7, <4>1, <4>2 DEF Reduce, results
      <4>3. CASE vertex # origin
        <5>1. expanded' = expanded
              /\ queue' = [i \in DOMAIN queue |-> IF queue[i] = vertex THEN Nil ELSE queue[i]]
          BY <2>1, <2>7, <4>3 DEF Reduce
        <5> QED
          BY <4>1, <5>1
      <4> QED
        BY <4>2, <4>3
    <3>2. InputInv' /\ SearchTypes'
      BY <1>1, <2>3, <3>1 DEF Inv, InputInv, SearchTypes
    <3> QED
      BY <1>1, <2>3, <2>7, <3>1, <3>2
         DEF Inv, VertexInv, ExpandInv, StartInv, NothingTwice, ExpansionIsClosure, LoopsAreReal, Wanted
  <2> QED
    BY <1>1, <2>6, <2>7
<1> QED
  BY <1>2, <1>3 DEF Inv, SearchTypes

\* With nothing on the stack and nothing left to take, what was seen is closed.
LEMMA StepEndExpansion == ASSUME Inv, EndExpansion PROVE Inv'
<1>1. /\ phase = "expand" /\ stack = <<>> /\ queue = <<>>
      /\ UNCHANGED <<include, ignored, requested, queue, seen, hot, stack, vertex, edge, complete,
                     expanded>>
      /\ \/ phase' = "failed" /\ outcome'.kind = "excluded"
         \/ phase' = "validate" /\ outcome' = outcome
  BY DEF EndExpansion, Searching, Fail, input, search, results
<1>2. ExpansionIsClosure'
  <2>1. Elements(stack) = {} /\ Elements(queue) = {}
    BY <1>1, NoElements
  <2>2. seen \in ClosedSets(include, ignored)
    BY <1>1, <2>1 DEF Inv, ExpandInv, SearchTypes, ClosedSets
  <2>3. Reachable(include, ignored, Wanted) \subseteq seen
    BY <1>1, <2>1, <2>2, ReachableIsLeast DEF Inv, ExpandInv
  <2>4. Elements(expanded) = Closure(include, ignored, Wanted)
    BY <1>1, <2>1, <2>3 DEF Inv, ExpandInv, Closure
  <2> QED
    BY <1>1, <2>4 DEF ExpansionIsClosure, Wanted
<1> QED
  BY <1>1, <1>2 DEF Inv, InputInv, SearchTypes, StackInv, VertexInv, ExpandInv, StartInv,
                    NothingTwice, LoopsAreReal

LEMMA StepValidate == ASSUME Inv, Validate PROVE Inv'
<1>1. /\ phase = "validate"
      /\ UNCHANGED <<include, ignored, requested, seen, hot, stack, vertex, edge, complete, expanded>>
      /\ queue' \in {queue, requested}
      /\ \/ phase' = "failed" /\ outcome'.kind \in {"unknown", "platforms"}
         \/ phase' \in {"reduce", "done"}
  BY DEF Validate, Fail, input, search, results
<1>2. requested \in Seq(Feature \cup {Nil})
  BY DEF Inv, InputInv
<1> QED
  BY <1>1, <1>2 DEF Inv, InputInv, SearchTypes, StackInv, VertexInv, ExpandInv, StartInv,
                    NothingTwice, ExpansionIsClosure, LoopsAreReal, Wanted

LEMMA StepEndReduction == ASSUME Inv, EndReduction PROVE Inv'
<1>1. /\ phase = "reduce"
      /\ UNCHANGED <<include, ignored, requested, queue, seen, hot, stack, vertex, edge, complete,
                     expanded>>
      /\ \/ phase' = "failed" /\ outcome'.kind = "excluded"
         \/ phase' = "done"
  BY DEF EndReduction, Fail, input, search, results
<1> QED
  BY <1>1 DEF Inv, InputInv, SearchTypes, StackInv, VertexInv, ExpandInv, StartInv,
              NothingTwice, ExpansionIsClosure, LoopsAreReal, Wanted

LEMMA StepInv == ASSUME Inv, [Next]_vars PROVE Inv'
<1>1. CASE UNCHANGED vars
  BY <1>1 DEF vars, input, search, results, Inv, InputInv, SearchTypes, StackInv, VertexInv,
              ExpandInv, StartInv, NothingTwice, ExpansionIsClosure, LoopsAreReal, Wanted
<1>2. CASE Next
  BY <1>2, StepStart, StepTakeFeature, StepTakeForReduction, StepSkipIgnored, StepVisit,
     StepFollowEdge, StepFindLoop, StepEndVisit, StepEndExpansion, StepValidate, StepEndReduction
     DEF Next
<1> QED
  BY <1>1, <1>2

\* The invariant of the search holds throughout (postorderDFS, expandFeatures, reduceFeatures).
THEOREM SearchInvariant == Spec => []Inv
<1>1. Init => Inv
  BY InitInv
<1>2. Inv /\ [Next]_vars => Inv'
  BY StepInv
<1> QED
  BY <1>1, <1>2, PTL DEF Spec

\* A search that is over has found the closure of what was asked for: expandFeatures neither
\* forgets an included feature nor adds one, whatever the lists, loops and ignored features are.
THEOREM ExpansionIsTheClosure == Spec => []ExpansionIsClosure
<1>1. Inv => ExpansionIsClosure
  BY DEF Inv
<1> QED
  BY <1>1, SearchInvariant, PTL

\* No feature is processed twice, though several include it (seen, in postorderDFS).
THEOREM NothingIsExpandedTwice == Spec => []NothingTwice
<1>1. Inv => NothingTwice
  BY DEF Inv
<1> QED
  BY <1>1, SearchInvariant, PTL

\* A repository without loops is never refused for a loop (hot, in postorderDFS).
THEOREM ReportedLoopsAreReal == Spec => []LoopsAreReal
<1>1. Inv => LoopsAreReal
  BY DEF Inv
<1> QED
  BY <1>1, SearchInvariant, PTL

(* The order.  What is on the stack and not hot waits: it will be processed  *)
(* after what lies above it, which therefore must not include it.            *)

\* Nothing in the list of the feature being looked at, as far as the loop has gone, is hot.
LoopInv ==
    vertex # Nil => \A i \in DOMAIN include[vertex] : i > edge => include[vertex][i] \notin hot

NoneAbove ==
    \A p, q \in DOMAIN stack :
        p < q /\ stack[p] \notin hot => stack[p] \notin Included(include, {}, stack[q])

\* What lies above the feature being looked at comes from the end of its list.
AboveVertex ==
    vertex # Nil =>
        \A p, q \in DOMAIN stack :
            p < q /\ stack[p] = vertex =>
                \E j \in DOMAIN include[vertex] : j > edge /\ stack[q] = include[vertex][j]

OrderInv == Tidy(include) => NoneAbove /\ AboveVertex

Ordered == LoopInv /\ OrderInv /\ IncludesComeFirst

LEMMA OrderUnchanged ==
    ASSUME Ordered, UNCHANGED <<include, ignored, hot, stack, vertex, edge, expanded>>
    PROVE  Ordered'
BY DEF Ordered, LoopInv, OrderInv, NoneAbove, AboveVertex, IncludesComeFirst

LEMMA OrderOfOne ==
    ASSUME Ordered, NEW f \in Feature, stack' = <<f>>, vertex' = Nil,
           UNCHANGED <<include, ignored, expanded>>
    PROVE  Ordered'
<1>1. \A p, q \in DOMAIN stack' : p = q
  BY One
<1>2. \A p, q \in DOMAIN stack' : ~(p < q)
  BY One
<1>3. LoopInv' /\ NoneAbove' /\ AboveVertex'
  BY <1>2 DEF LoopInv, NoneAbove, AboveVertex
<1> QED
  BY <1>3 DEF Ordered, OrderInv, IncludesComeFirst

LEMMA OrderPop ==
    ASSUME Inv, Ordered, stack # <<>>, Pop, hot' = hot \ {Top}, vertex' = Nil, UNCHANGED include
    PROVE  LoopInv' /\ OrderInv'
<1>1. stack \in Seq(Feature) /\ stack' = SubSeq(stack, 1, Len(stack) - 1)
  BY DEF Inv, SearchTypes, Pop
<1>2. \A i \in DOMAIN stack' : i \in DOMAIN stack /\ i < Len(stack) /\ stack'[i] = stack[i]
  BY <1>1, PopOne
<1>3. Len(stack) \in DOMAIN stack
  BY <1>1
<1>4. \A i \in DOMAIN stack' : stack'[i] # Top
  BY <1>2, <1>3 DEF Inv, StackInv, Top
<1>5. ASSUME Tidy(include)
      PROVE  NoneAbove'
  BY <1>2, <1>4, <1>5 DEF Ordered, OrderInv, NoneAbove
<1> QED
  BY <1>5 DEF LoopInv, OrderInv, AboveVertex

LEMMA IncludedByIncluded ==
    ASSUME NEW inc \in [Feature -> Seq(Feature)], NEW ign, NEW f \in Feature,
           NEW g \in Included(inc, ign, f), g \notin ign
    PROVE  Included(inc, ign, g) \subseteq Included(inc, ign, f)
<1> DEFINE C == Included(inc, ign, f)
<1>1. Elements(inc[f]) \subseteq Feature
  BY ElementsOfSeq
<1>2. C \subseteq Feature /\ g \in Feature
  BY <1>1, ReachableContains DEF Included
<1>3. \A h \in C \ ign : Elements(inc[h]) \subseteq C
  BY ReachableIsClosed DEF Included
<1>4. C \in ClosedSets(inc, ign)
  BY <1>2, <1>3 DEF ClosedSets
<1> QED
  BY <1>3, <1>4, ReachableIsLeast DEF Included

\* What a feature names in its list it includes.
LEMMA NamedIsIncluded ==
    ASSUME NEW inc \in [Feature -> Seq(Feature)], NEW ign, NEW f \in Feature
    PROVE  Elements(inc[f]) \subseteq Included(inc, ign, f) /\ Included(inc, ign, f) \subseteq Feature
<1>1. Elements(inc[f]) \subseteq Feature
  BY ElementsOfSeq
<1> QED
  BY <1>1, ReachableContains DEF Included

LEMMA OrderVisit == ASSUME Inv, Ordered, Visit PROVE Ordered'
<1>1. /\ stack # <<>> /\ vertex' = Top /\ hot' = hot \cup {Top} /\ edge' = Len(include[Top])
      /\ UNCHANGED <<include, ignored, stack, expanded>>
  BY DEF Visit, Searching, input, results
<1>2. /\ stack \in Seq(Feature) /\ Len(stack) \in DOMAIN stack /\ DOMAIN stack = 1 .. Len(stack)
      /\ Len(stack) \in Nat /\ Top = stack[Len(stack)] /\ Top \in Feature
  BY <1>1 DEF Inv, SearchTypes, Top
<1>3. \A i \in DOMAIN include[Top] : ~(i > Len(include[Top]))
  <2>1. include[Top] \in Seq(Feature)
    BY <1>2 DEF Inv, InputInv
  <2> QED
    BY <2>1
<1>4. LoopInv'
  BY <1>1, <1>3 DEF LoopInv
<1>5. \A p, q \in DOMAIN stack : ~(p < q /\ stack[p] = Top)
  <2>1. \A p \in DOMAIN stack : stack[p] = Top => p = Len(stack)
    BY <1>2 DEF Inv, StackInv
  <2> QED
    BY <1>2, <2>1
<1>6. AboveVertex'
  BY <1>1, <1>5 DEF AboveVertex
<1>7. NoneAbove => NoneAbove'
  BY <1>1 DEF NoneAbove
<1> QED
  BY <1>1, <1>4, <1>6, <1>7 DEF Ordered, OrderInv, IncludesComeFirst

LEMMA OrderFollowEdge == ASSUME Inv, Ordered, FollowEdge PROVE Ordered'
<1> DEFINE w == include[vertex][edge]
<1>1. /\ vertex # Nil /\ edge > 0 /\ w \notin hot /\ edge' = edge - 1
      /\ UNCHANGED <<include, ignored, hot, vertex, expanded>>
  BY DEF FollowEdge, input, results
<1>2. /\ edge \in DOMAIN include[vertex] /\ include[vertex] \in Seq(Feature)
      /\ vertex \in Feature /\ vertex \in hot
      /\ w \in Feature /\ w \in Elements(include[vertex])
  BY <1>1, AtAnEdge
<1>3. \A i \in DOMAIN include[vertex] : (i > edge - 1 => i = edge \/ i > edge) /\ (i > edge => i > edge - 1)
  BY <1>2 DEF Inv, SearchTypes
<1>4. LoopInv'
  BY <1>1, <1>3 DEF Ordered, LoopInv
<1>5. IncludesComeFirst'
  BY <1>1 DEF Ordered, IncludesComeFirst
<1>6. CASE w \in seen
  <2>1. stack' = stack
    BY <1>6 DEF FollowEdge
  <2>2. OrderInv'
    BY <1>1, <1>3, <2>1 DEF Ordered, OrderInv, NoneAbove, AboveVertex
  <2> QED
    BY <1>4, <1>5, <2>2 DEF Ordered
<1>7. CASE w \notin seen
  <2>1. stack' = Append(stack, w)
    BY <1>7 DEF FollowEdge
  <2>2. stack \in Seq(Feature) /\ Len(stack) \in Nat /\ DOMAIN stack = 1 .. Len(stack)
    BY DEF Inv, SearchTypes
  <2>3. /\ stack' \in Seq(Feature) /\ Len(stack') = Len(stack) + 1
        /\ \A i \in DOMAIN stack : stack'[i] = stack[i]
        /\ stack'[Len(stack) + 1] = w
    BY <1>2, <2>1, <2>2, AppendOne
  <2>4. DOMAIN stack' = DOMAIN stack \cup {Len(stack) + 1}
    BY <2>2, <2>3
  <2>5. PICK k \in DOMAIN stack : stack[k] = vertex
    BY <1>2 DEF Inv, StackInv, Elements
  <2>6. SUFFICES ASSUME Tidy(include)
                 PROVE  NoneAbove' /\ AboveVertex'
    BY <1>1, <1>4, <1>5 DEF Ordered, OrderInv
  <2>7. NoneAbove /\ AboveVertex
    BY <2>6 DEF Ordered, OrderInv
  <2>8. ASSUME NEW p \in DOMAIN stack, stack[p] \notin hot
        PROVE  stack[p] \notin Included(include, {}, w)
    <3>1. CASE p < k
      <4>1. stack[p] \notin Included(include, {}, vertex)
        BY <2>5, <2>7, <2>8, <3>1 DEF NoneAbove
      <4>2. w \in Included(include, {}, vertex)
        BY <1>2, NamedIsIncluded DEF Inv, InputInv
      <4>3. Included(include, {}, w) \subseteq Included(include, {}, vertex)
        BY <1>2, <4>2, IncludedByIncluded DEF Inv, InputInv
      <4> QED
        BY <4>1, <4>3
    <3>2. CASE p > k
      <4>1. PICK j \in DOMAIN include[vertex] : j > edge /\ stack[p] = include[vertex][j]
        BY <1>1, <2>5, <2>7, <3>2 DEF AboveVertex
      <4> QED
        BY <1>2, <2>6, <4>1 DEF Tidy
    <3> QED
      BY <1>2, <2>2, <2>5, <2>8, <3>1, <3>2
  <2>9. NoneAbove'
    <3>1. ASSUME NEW p \in DOMAIN stack', NEW q \in DOMAIN stack', p < q, stack'[p] \notin hot
          PROVE  stack'[p] \notin Included(include, {}, stack'[q])
      <4>1. p \in DOMAIN stack
        BY <2>2, <2>3, <2>4, <3>1
      <4>2. CASE q \in DOMAIN stack
        BY <2>3, <2>7, <3>1, <4>1, <4>2 DEF NoneAbove
      <4>3. CASE q = Len(stack) + 1
        BY <2>3, <2>8, <3>1, <4>1, <4>3
      <4> QED
        BY <2>4, <4>2, <4>3
    <3> QED
      BY <1>1, <3>1 DEF NoneAbove
  <2>10. AboveVertex'
    <3>1. ASSUME NEW p \in DOMAIN stack', NEW q \in DOMAIN stack', p < q, stack'[p] = vertex
          PROVE  \E j \in DOMAIN include[vertex] : j > edge - 1 /\ stack'[q] = include[vertex][j]
      <4>1. p \in DOMAIN stack
        BY <2>2, <2>3, <2>4, <3>1
      <4>2. CASE q \in DOMAIN stack
        BY <1>1, <1>3, <2>3, <2>7, <3>1, <4>1, <4>2 DEF AboveVertex
      <4>3. CASE q = Len(stack) + 1
        <5>1. edge > edge - 1
          BY DEF Inv, SearchTypes
        <5> QED
          BY <1>2, <2>3, <4>3, <5>1
      <4> QED
        BY <2>4, <4>2, <4>3
    <3> QED
      BY <1>1, <3>1 DEF AboveVertex
  <2> QED
    BY <2>9, <2>10
<1> QED
  BY <1>6, <1>7

\* Whatever a feature names has been processed before it, as nothing that waits is included by it.
LEMMA OrderEndVisit == ASSUME Inv, Ordered, EndVisit PROVE Ordered'
<1>1. /\ phase \in {"expand", "reduce"}
      /\ vertex # Nil /\ edge = 0 /\ vertex' = Nil /\ UNCHANGED <<include, ignored>>
  BY DEF EndVisit, Running, input
<1>2. CASE ~complete
  <2>1. UNCHANGED <<stack, hot, expanded>>
    BY <1>2 DEF EndVisit, results
  <2> QED
    BY <1>1, <2>1 DEF Ordered, LoopInv, OrderInv, NoneAbove, AboveVertex, IncludesComeFirst
<1>3. CASE complete
  <2>1. Pop /\ hot' = hot \ {vertex} /\ (IF phase = "expand" THEN Expand(vertex) ELSE Reduce(vertex))
    BY <1>3 DEF EndVisit
  <2>2. /\ stack # <<>> /\ Top = vertex /\ vertex \in hot /\ vertex \in Feature
        /\ \A i \in DOMAIN include[vertex] : i > 0 => include[vertex][i] \in seen
    BY <1>1, <1>3 DEF Inv, VertexInv, SearchTypes, Top
  <2>3. LoopInv' /\ OrderInv'
    BY <1>1, <2>1, <2>2, OrderPop
  <2>4. CASE phase = "reduce"
    <3>1. expanded' = expanded
      BY <2>1, <2>4 DEF Reduce, results
    <3> QED
      BY <1>1, <2>3, <3>1 DEF Ordered, IncludesComeFirst
  <2>5. CASE phase = "expand"
    <3>1. expanded' = Append(expanded, vertex)
      BY <2>1, <2>5 DEF Expand
    <3>2. expanded \in Seq(Feature) /\ Len(expanded) \in Nat /\ DOMAIN expanded = 1 .. Len(expanded)
      BY DEF Inv, SearchTypes
    <3>3. /\ Len(expanded') = Len(expanded) + 1 /\ expanded' \in Seq(Feature)
          /\ \A i \in DOMAIN expanded : expanded'[i] = expanded[i]
          /\ expanded'[Len(expanded) + 1] = vertex
      BY <2>2, <3>1, <3>2, AppendOne
    <3>4. DOMAIN expanded' = DOMAIN expanded \cup {Len(expanded) + 1}
      BY <3>2, <3>3
    <3>5. stack \in Seq(Feature) /\ Len(stack) \in DOMAIN stack /\ DOMAIN stack = 1 .. Len(stack)
          /\ stack[Len(stack)] = vertex
      BY <2>2 DEF Inv, SearchTypes, Top
    <3>6. ASSUME Tidy(include), NEW f \in Elements(include[vertex]), f \notin ignored
          PROVE  f \in Elements(expanded)
      <4>1. PICK i \in DOMAIN include[vertex] : f = include[vertex][i]
        BY <3>6 DEF Elements
      <4>2. include[vertex] \in Seq(Feature) /\ i > 0
        BY <2>2 DEF Inv, InputInv
      <4>3. f \in seen /\ f \notin hot
        BY <1>1, <2>2, <4>1, <4>2 DEF Ordered, LoopInv
      <4>4. f \notin Elements(stack)
        <5>1. SUFFICES ASSUME NEW p \in DOMAIN stack, f = stack[p]
                       PROVE  FALSE
          BY DEF Elements
        <5>2. p < Len(stack)
          BY <2>2, <3>5, <4>3, <5>1
        <5>3. f \notin Included(include, {}, vertex)
          BY <3>5, <3>6, <4>3, <5>1, <5>2 DEF Ordered, OrderInv, NoneAbove
        <5>4. f \in Included(include, {}, vertex)
          BY <2>2, <3>6, NamedIsIncluded DEF Inv, InputInv
        <5> QED
          BY <5>3, <5>4
      <4> QED
        BY <2>5, <3>6, <4>3, <4>4 DEF Inv, ExpandInv
    <3>7. IncludesComeFirst'
      <4>1. SUFFICES ASSUME Tidy(include), NEW i \in DOMAIN expanded',
                            NEW f \in Elements(include[expanded'[i]]) \ ignored
                     PROVE  \E j \in 1 .. i - 1 : expanded'[j] = f
        BY <1>1 DEF IncludesComeFirst
      <4>2. CASE i \in DOMAIN expanded
        <5>1. PICK j \in 1 .. i - 1 : expanded[j] = f
          BY <3>3, <4>1, <4>2 DEF Ordered, IncludesComeFirst
        <5>2. j \in DOMAIN expanded
          BY <3>2, <4>2
        <5> QED
          BY <3>3, <5>1, <5>2
      <4>3. CASE i = Len(expanded) + 1
        <5>1. PICK j \in DOMAIN expanded : expanded[j] = f
          BY <3>3, <3>6, <4>1, <4>3 DEF Elements
        <5>2. j \in 1 .. i - 1
          BY <3>2, <4>3
        <5> QED
          BY <3>3, <5>1, <5>2
      <4> QED
        BY <3>4, <4>2, <4>3
    <3> QED
      BY <2>3, <3>7 DEF Ordered
  <2> QED
    BY <1>1, <2>4, <2>5
<1> QED
  BY <1>2, <1>3

LEMMA OrderTake == ASSUME Inv, Ordered, TakeFeature \/ TakeForReduction PROVE Ordered'
<1>1. /\ stack = <<>> /\ UNCHANGED <<include, ignored, expanded>>
      /\ \/ UNCHANGED search
         \/ BeginSearch(Head(queue), seen)
         \/ BeginSearch(Head(queue), {})
  BY DEF TakeFeature, TakeForReduction, Searching, input, results
<1>2. vertex = Nil
  BY <1>1, NotSearching
<1>3. \/ UNCHANGED search
      \/ Head(queue) \in Feature /\ stack' = <<Head(queue)>> /\ vertex' = vertex
      \/ UNCHANGED <<hot, stack, vertex, edge>>
  BY <1>1, KnownFeatures DEF BeginSearch
<1>4. CASE UNCHANGED <<hot, stack, vertex, edge>>
  BY <1>1, <1>4, OrderUnchanged
<1>5. CASE Head(queue) \in Feature /\ stack' = <<Head(queue)>> /\ vertex' = vertex
  BY <1>1, <1>2, <1>5, OrderOfOne
<1> QED
  BY <1>3, <1>4, <1>5 DEF search

LEMMA OrderSkipIgnored == ASSUME Inv, Ordered, SkipIgnored PROVE Ordered'
<1>1. /\ stack # <<>> /\ vertex = Nil /\ Top \in ignored /\ Pop
      /\ UNCHANGED <<include, ignored, hot, vertex, expanded>>
  BY DEF SkipIgnored, Searching, input
<1>2. hot' = hot \ {Top}
  BY <1>1 DEF Inv, StackInv
<1>3. LoopInv' /\ OrderInv'
  BY <1>1, <1>2, OrderPop
<1> QED
  BY <1>1, <1>3 DEF Ordered, IncludesComeFirst

LEMMA OrderOtherwise ==
    ASSUME Inv, Ordered,
           Start \/ FindLoop \/ EndExpansion \/ Validate \/ EndReduction \/ UNCHANGED vars
    PROVE  Ordered'
<1>1. UNCHANGED <<include, ignored, hot, stack, vertex, edge, expanded>>
  BY DEF Start, FindLoop, EndExpansion, Validate, EndReduction, vars, input, search, results
<1> QED
  BY <1>1, OrderUnchanged

\* The order of a search holds throughout.
THEOREM SearchIsOrdered == Spec => []Ordered
<1>1. Init => Ordered
  BY DEF Init, Ordered, LoopInv, OrderInv, NoneAbove, AboveVertex, IncludesComeFirst
<1>2. Inv /\ Ordered /\ [Next]_vars => Ordered'
  BY OrderTake, OrderSkipIgnored, OrderVisit, OrderFollowEdge, OrderEndVisit, OrderOtherwise DEF Next
<1> QED
  BY <1>1, <1>2, SearchInvariant, PTL DEF Spec

\* In a repository whose lists name no feature after one that includes it, a feature comes after
\* everything it includes: its files and settings override theirs (postorderDFS, garden-config).
THEOREM IncludedFeaturesComeFirst == Spec => []IncludesComeFirst
<1>1. Ordered => IncludesComeFirst
  BY DEF Ordered
<1> QED
  BY <1>1, SearchIsOrdered, PTL

(* The reduction.  What a search has processed goes to visited, for good;    *)
(* what is still in minimal is included by nothing that has been processed.  *)

\* The features whose lists have been gone through to the end, with the one in work left out.
Settled == visited \cup {m \in minimal : m = origin => stack = <<>>}

\* What the search that is under way will still come to.
Pending == IF stack = <<>> THEN {} ELSE seen \ {origin}

NotReduced ==
    /\ phase \in {"start", "expand", "validate"} => minimal = {} /\ visited = {}
    /\ phase = "validate" => stack = <<>>

Kept ==
    /\ minimal \subseteq Wanted \ ignored /\ visited \subseteq Feature \ ignored
    /\ Elements(queue) \subseteq Wanted \cup {Nil}
    /\ Wanted \ ignored \subseteq minimal \cup visited \cup Elements(queue)
    /\ visited \cap minimal = {} /\ visited \cap Elements(queue) = {}

Followed == \A f \in Settled : Elements(include[f]) \ ignored \subseteq visited \cup Pending

Brought == \A v \in visited : \E m \in minimal : v \in Included(include, ignored, m)

OriginInv ==
    stack # <<>> =>
        /\ stack[1] = origin /\ origin \in minimal
        /\ Len(stack) > 1 \/ vertex # Nil => origin \in hot
        /\ seen \subseteq Elements(stack) \cup visited \cup ignored \cup {origin}

ReduceInv == phase = "reduce" => Kept /\ Followed /\ Brought /\ OriginInv

Reduction == NotReduced /\ ReduceInv /\ CnameIsCanonical

LEMMA ReductionStutters == ASSUME Reduction, UNCHANGED vars PROVE Reduction'
BY DEF vars, input, search, results, Reduction, NotReduced, ReduceInv, Kept, Followed, Settled,
       Pending, Brought, OriginInv, CnameIsCanonical, Wanted

\* A step of the expansion, or one that fails.
LEMMA NotInReduction ==
    ASSUME Reduction, UNCHANGED <<minimal, visited>>,
           \/ phase' = "failed"
           \/ phase \in {"start", "expand"} /\ phase' = "expand"
           \/ phase = "expand" /\ phase' = "validate" /\ stack' = <<>>
    PROVE  Reduction'
BY DEF Reduction, NotReduced, ReduceInv, CnameIsCanonical

LEMMA ReduceFailure ==
    ASSUME Inv, Reduction, Start \/ FindLoop \/ EndExpansion \/ TakeFeature
    PROVE  Reduction'
<1>1. UNCHANGED <<minimal, visited>>
  BY DEF Start, FindLoop, EndExpansion, TakeFeature, results
<1>2. \/ phase' = "failed"
      \/ phase \in {"start", "expand"} /\ phase' = "expand"
      \/ phase = "expand" /\ phase' = "validate" /\ stack' = <<>>
  BY DEF Start, FindLoop, EndExpansion, TakeFeature, BeginSearch, Fail, Searching, search
<1> QED
  BY <1>1, <1>2, NotInReduction

LEMMA ReduceValidate == ASSUME Inv, Reduction, Validate PROVE Reduction'
<1>1. /\ phase = "validate" /\ UNCHANGED <<include, ignored, requested, cmd, stack, expanded>>
      /\ UNCHANGED <<minimal, visited>>
      /\ \/ phase' = "failed"
         \/ phase' = "reduce" /\ queue' = requested
         \/ phase' = "done" /\ cmd # "cname"
  BY DEF Validate, Fail, input, search, results
<1>2. minimal = {} /\ visited = {} /\ stack = <<>>
  BY <1>1 DEF Reduction, NotReduced
<1>3. CASE phase' = "reduce" /\ queue' = requested
  <2>1. Kept'
    BY <1>1, <1>2, <1>3 DEF Kept, Wanted
  <2>2. Followed' /\ Brought' /\ OriginInv'
    BY <1>1, <1>2 DEF Followed, Settled, Pending, Brought, OriginInv
  <2> QED
    BY <1>3, <2>1, <2>2 DEF Reduction, NotReduced, ReduceInv, CnameIsCanonical
<1> QED
  BY <1>1, <1>3 DEF Reduction, NotReduced, ReduceInv, CnameIsCanonical

LEMMA ReduceTake == ASSUME Inv, Reduction, TakeForReduction PROVE Reduction'
<1> DEFINE f == Head(queue)
<1>1. /\ phase = "reduce" /\ stack = <<>> /\ queue \in Seq(Feature \cup {Nil}) /\ queue # <<>>
      /\ queue' = Tail(queue) /\ UNCHANGED <<include, ignored, requested, expanded, visited>>
  BY DEF TakeForReduction, Searching, Inv, SearchTypes, input
<1>2. Elements(queue) = {f} \cup Elements(queue') /\ f \in Feature \cup {Nil}
  BY <1>1, TakeOne
<1>3. vertex = Nil /\ Kept /\ Followed /\ Brought
  BY <1>1, NotSearching DEF Reduction, ReduceInv
<1>4. CASE f = Nil \/ f \in ignored
  <2>1. UNCHANGED <<search, phase, outcome, minimal>>
    BY <1>4 DEF TakeForReduction
  <2>2. Kept'
    <3>1. Nil \notin Wanted
      BY FeatureAssumption, ElementsOfSeq DEF Inv, InputInv, Wanted
    <3> QED
      BY <1>1, <1>2, <1>3, <1>4, <2>1, <3>1 DEF Kept, Wanted
  <2>3. Followed' /\ Brought' /\ OriginInv'
    BY <1>1, <1>3, <2>1 DEF Followed, Settled, Pending, Brought, OriginInv, search
  <2> QED
    BY <1>1, <2>1, <2>2, <2>3 DEF Reduction, NotReduced, ReduceInv, CnameIsCanonical
<1>5. CASE ~(f = Nil \/ f \in ignored)
  <2>1. minimal' = minimal \cup {f} /\ BeginSearch(f, {})
    BY <1>5 DEF TakeForReduction
  <2>2. CASE f \notin Known
    BY <2>1, <2>2, <1>1 DEF BeginSearch, Fail, Reduction, NotReduced, ReduceInv, CnameIsCanonical
  <2>3. CASE f \in Known
    <3>1. /\ UNCHANGED <<phase, vertex>> /\ f \in Feature
          /\ origin' = f /\ seen' = {f} /\ stack' = <<f>>
      BY <2>1, <2>3, KnownFeatures DEF BeginSearch
    <3>2. Len(stack') = 1 /\ stack'[1] = f /\ stack' # <<>>
      BY <3>1, One
    <3>3. Kept'
      BY <1>1, <1>2, <1>3, <1>5, <2>1 DEF Kept, Wanted
    <3>4. Followed'
      <4>1. Settled' \subseteq Settled
        BY <1>1, <2>1, <3>1, <3>2 DEF Settled
      <4> QED
        BY <1>1, <1>3, <4>1 DEF Followed, Pending
    <3>5. Brought' /\ OriginInv'
      BY <1>1, <1>3, <2>1, <3>1, <3>2 DEF Brought, OriginInv
    <3> QED
      BY <1>1, <3>1, <3>3, <3>4, <3>5 DEF Reduction, NotReduced, ReduceInv, CnameIsCanonical
  <2> QED
    BY <2>2, <2>3
<1> QED
  BY <1>4, <1>5

LEMMA ReduceSkipIgnored == ASSUME Inv, Reduction, SkipIgnored PROVE Reduction'
<1>1. /\ phase \in {"expand", "reduce"}
      /\ stack # <<>> /\ vertex = Nil /\ Top \in ignored /\ Pop
      /\ UNCHANGED <<include, ignored, requested, phase, queue, origin, seen, hot, vertex,
                     visited, minimal>>
  BY DEF SkipIgnored, Searching, Running, input
<1>2. CASE phase = "expand"
  BY <1>1, <1>2, NotInReduction
<1>3. CASE phase = "reduce"
  <2>1. Kept /\ Followed /\ Brought /\ OriginInv
    BY <1>3 DEF Reduction, ReduceInv
  <2>2. /\ stack' = SubSeq(stack, 1, Len(stack) - 1) /\ stack \in Seq(Feature)
        /\ Len(stack) \in Nat /\ Len(stack) > 0
    BY <1>1 DEF Pop, Inv, SearchTypes
  <2>3. Len(stack) > 1
    <3>1. origin \notin ignored /\ stack[1] = origin
      BY <1>1, <2>1 DEF Kept, OriginInv
    <3> QED
      BY <1>1, <2>2, <3>1 DEF Top
  <2>4. /\ Len(stack') = Len(stack) - 1 /\ stack' \in Seq(Feature)
        /\ Elements(stack) = Elements(stack') \cup {Top}
        /\ \A i \in DOMAIN stack' : stack'[i] = stack[i]
    BY <1>1, <2>2, PopOne DEF Top
  <2>5. stack' # <<>> /\ stack'[1] = stack[1]
    <3>1. 1 \in DOMAIN stack'
      BY <2>2, <2>3, <2>4
    <3> QED
      BY <2>4, <3>1
  <2>6. OriginInv'
    BY <1>1, <2>1, <2>3, <2>4, <2>5 DEF OriginInv
  <2>7. Kept' /\ Followed' /\ Brought'
    BY <1>1, <2>1, <2>5 DEF Kept, Followed, Settled, Pending, Brought, Wanted
  <2> QED
    BY <1>1, <1>3, <2>6, <2>7 DEF Reduction, NotReduced, ReduceInv, CnameIsCanonical
<1> QED
  BY <1>1, <1>2, <1>3

LEMMA ReduceVisit == ASSUME Inv, Reduction, Visit PROVE Reduction'
<1>1. /\ phase \in {"expand", "reduce"}
      /\ stack # <<>> /\ vertex' = Top /\ hot' = hot \cup {Top}
      /\ UNCHANGED <<include, ignored, requested, phase, queue, origin, seen, stack, visited, minimal>>
  BY DEF Visit, Searching, Running, input, results
<1>2. CASE phase = "expand"
  BY <1>1, <1>2, NotInReduction
<1>3. CASE phase = "reduce"
  <2>1. Kept /\ Followed /\ Brought /\ OriginInv
    BY <1>3 DEF Reduction, ReduceInv
  <2>2. Len(stack) = 1 \/ Len(stack) > 1
    <3>1. stack \in Seq(Feature)
      BY DEF Inv, SearchTypes
    <3> QED
      BY <1>1, <3>1
  <2>3. origin \in hot'
    <3>1. CASE Len(stack) > 1
      BY <1>1, <2>1, <3>1 DEF OriginInv
    <3>2. CASE Len(stack) = 1
      BY <1>1, <2>1, <3>2 DEF OriginInv, Top
    <3> QED
      BY <2>2, <3>1, <3>2
  <2>4. OriginInv'
    BY <1>1, <2>1, <2>3 DEF OriginInv
  <2>5. Kept' /\ Followed' /\ Brought'
    BY <1>1, <2>1 DEF Kept, Followed, Settled, Pending, Brought, Wanted
  <2> QED
    BY <1>1, <1>3, <2>4, <2>5 DEF Reduction, NotReduced, ReduceInv, CnameIsCanonical
<1> QED
  BY <1>1, <1>2, <1>3

\* A feature that is being looked at is on the stack.
LEMMA LookingFromTheStack == ASSUME Inv, vertex # Nil PROVE stack # <<>>
BY NotSearching

LEMMA ReduceFollowEdge == ASSUME Inv, Reduction, FollowEdge PROVE Reduction'
<1> DEFINE w == include[vertex][edge]
<1>1. /\ phase \in {"expand", "reduce"} /\ vertex # Nil /\ edge > 0
      /\ UNCHANGED <<include, ignored, requested, phase, queue, origin, hot, vertex, visited, minimal>>
  BY DEF FollowEdge, Running, input, results
<1>2. CASE phase = "expand"
  BY <1>1, <1>2, NotInReduction
<1>3. CASE phase = "reduce"
  <2>1. Kept /\ Followed /\ Brought /\ OriginInv /\ stack # <<>>
    BY <1>1, <1>3, LookingFromTheStack DEF Reduction, ReduceInv
  <2>2. origin \in hot
    BY <1>1, <2>1 DEF OriginInv
  <2>3. /\ stack' # <<>> /\ stack'[1] = stack[1]
        /\ seen \subseteq seen' /\ seen' \ seen \subseteq Elements(stack')
        /\ Elements(stack) \subseteq Elements(stack')
    <3>1. CASE w \in seen
      BY <2>1, <3>1 DEF FollowEdge
    <3>2. CASE w \notin seen
      <4>1. seen' = seen \cup {w} /\ stack' = Append(stack, w)
        BY <3>2 DEF FollowEdge
      <4>2. w \in Feature /\ stack \in Seq(Feature) /\ 1 \in DOMAIN stack
        BY <1>1, <2>1, AtAnEdge DEF Inv, SearchTypes
      <4>3. /\ Len(stack') = Len(stack) + 1 /\ stack'[1] = stack[1]
            /\ Elements(stack') = Elements(stack) \cup {w}
        BY <4>1, <4>2, AppendOne
      <4>4. stack' # <<>>
        BY <4>1, <4>2
      <4> QED
        BY <4>1, <4>3, <4>4
    <3> QED
      BY <3>1, <3>2
  <2>4. OriginInv'
    BY <1>1, <2>1, <2>2, <2>3 DEF OriginInv
  <2>5. Followed'
    <3>1. Settled' = Settled /\ Pending \subseteq Pending'
      BY <1>1, <2>1, <2>3 DEF Settled, Pending
    <3> QED
      BY <1>1, <2>1, <3>1 DEF Followed
  <2>6. Kept' /\ Brought'
    BY <1>1, <2>1 DEF Kept, Brought, Wanted
  <2> QED
    BY <1>1, <1>3, <2>4, <2>5, <2>6 DEF Reduction, NotReduced, ReduceInv, CnameIsCanonical
<1> QED
  BY <1>1, <1>2, <1>3

\* The feature the search started at is done: whatever it names has been processed.
LEMMA ReduceOrigin ==
    ASSUME Inv, Ordered, Reduction, EndVisit, phase = "reduce", complete, vertex = origin
    PROVE  Reduction'
<1>1. /\ vertex # Nil /\ edge = 0 /\ vertex' = Nil /\ Pop
      /\ UNCHANGED <<include, ignored, requested, phase, queue, origin, seen, visited, minimal>>
  BY DEF EndVisit, Reduce, results, input
<1>2. Kept /\ Followed /\ Brought /\ OriginInv /\ stack # <<>>
  BY <1>1, LookingFromTheStack DEF Reduction, ReduceInv
<1>3. /\ stack \in Seq(Feature) /\ stack' = SubSeq(stack, 1, Len(stack) - 1)
      /\ Len(stack) \in DOMAIN stack /\ 1 \in DOMAIN stack
  BY <1>1, <1>2 DEF Pop, Inv, SearchTypes
<1>4. stack[1] = origin /\ stack[Len(stack)] = origin
  BY <1>1, <1>2 DEF OriginInv, Inv, VertexInv
<1>5. Len(stack) = 1
  BY <1>3, <1>4 DEF Inv, StackInv
<1>6. stack' \in Seq(Feature) /\ Len(stack') = 0 /\ Elements(stack) = Elements(stack') \cup {origin}
  BY <1>2, <1>3, <1>4, <1>5, PopOne
<1>7. stack' = <<>> /\ Elements(stack) = {origin}
  BY <1>6, NoElements
<1>8. Elements(include[origin]) \subseteq seen \ {origin}
  <2>1. origin \in hot /\ origin \in Feature /\ include[origin] \in Seq(Feature)
    BY <1>1 DEF Inv, VertexInv, InputInv, SearchTypes
  <2>2. \A i \in DOMAIN include[origin] : include[origin][i] \in seen /\ include[origin][i] \notin hot
    BY <1>1, <2>1 DEF Inv, VertexInv, Ordered, LoopInv
  <2> QED
    BY <2>1, <2>2 DEF Elements
<1>9. Followed'
  <2>1. seen \ {origin} \subseteq visited \cup ignored
    BY <1>2, <1>7 DEF OriginInv
  <2>2. ASSUME NEW f \in Settled'
        PROVE  Elements(include[f]) \ ignored \subseteq visited
    <3>1. CASE f = origin
      BY <1>8, <2>1, <3>1
    <3>2. CASE f # origin
      <4>1. f \in Settled
        BY <1>1, <2>2, <3>2 DEF Settled
      <4> QED
        BY <1>2, <2>1, <4>1 DEF Followed, Pending
    <3> QED
      BY <3>1, <3>2
  <2> QED
    BY <1>1, <2>2 DEF Followed
<1>10. Kept' /\ Brought' /\ OriginInv'
  BY <1>1, <1>2, <1>7 DEF Kept, Brought, OriginInv, Wanted
<1> QED
  BY <1>1, <1>9, <1>10 DEF Reduction, NotReduced, ReduceInv, CnameIsCanonical

\* A feature that another includes is taken out, wherever it was asked for.
LEMMA ReduceOther ==
    ASSUME Inv, Ordered, Reduction, EndVisit, phase = "reduce", complete, vertex # origin
    PROVE  Reduction'
<1>1. /\ vertex # Nil /\ edge = 0 /\ vertex' = Nil /\ Pop /\ hot' = hot \ {vertex}
      /\ UNCHANGED <<include, ignored, requested, phase, origin, seen>>
      /\ queue' = [i \in DOMAIN queue |-> IF queue[i] = vertex THEN Nil ELSE queue[i]]
      /\ minimal' = minimal \ {vertex} /\ visited' = visited \cup {vertex}
  BY DEF EndVisit, Reduce, input
<1>2. Kept /\ Followed /\ Brought /\ OriginInv /\ stack # <<>>
  BY <1>1, LookingFromTheStack DEF Reduction, ReduceInv
<1>3. /\ vertex \in hot /\ stack[Len(stack)] = vertex /\ vertex \in Feature /\ vertex \notin ignored
      /\ vertex \in Included(include, ignored, origin)
      /\ origin \in hot /\ origin \in minimal /\ stack[1] = origin
  BY <1>1, <1>2 DEF OriginInv, Inv, VertexInv, StackInv, SearchTypes
<1>4. /\ stack \in Seq(Feature) /\ stack' = SubSeq(stack, 1, Len(stack) - 1)
      /\ Len(stack) \in Nat /\ Len(stack) > 1
  BY <1>1, <1>2, <1>3 DEF Pop, Inv, SearchTypes
<1>5. /\ stack' \in Seq(Feature) /\ Len(stack') = Len(stack) - 1
      /\ Elements(stack) = Elements(stack') \cup {vertex}
      /\ \A i \in DOMAIN stack' : stack'[i] = stack[i]
  BY <1>2, <1>3, <1>4, PopOne
<1>6. stack' # <<>> /\ stack'[1] = origin
  <2>1. 1 \in DOMAIN stack'
    BY <1>4, <1>5
  <2> QED
    BY <1>3, <1>5, <2>1
<1>7. OriginInv'
  BY <1>1, <1>2, <1>3, <1>5, <1>6 DEF OriginInv
<1>8. Kept'
  <2>1. Elements(queue') \subseteq (Elements(queue) \ {vertex}) \cup {Nil}
    <3>1. DOMAIN queue' = DOMAIN queue
      BY <1>1
    <3>2. \A i \in DOMAIN queue : queue'[i] = IF queue[i] = vertex THEN Nil ELSE queue[i]
      BY <1>1
    <3> QED
      BY <3>1, <3>2 DEF Elements
  <2>2. Elements(queue) \ {vertex} \subseteq Elements(queue')
    <3>1. ASSUME NEW i \in DOMAIN queue, queue[i] # vertex
          PROVE  i \in DOMAIN queue' /\ queue'[i] = queue[i]
      BY <1>1, <3>1
    <3> QED
      BY <3>1 DEF Elements
  <2>3. visited' \subseteq Feature \ ignored /\ Nil \notin visited'
    BY <1>1, <1>2, <1>3, FeatureAssumption DEF Kept
  <2>4. visited' \cap Elements(queue') = {}
    BY <1>1, <1>2, <2>1, <2>3 DEF Kept
  <2>5. visited' \cap minimal' = {} /\ minimal' \subseteq Wanted \ ignored
    BY <1>1, <1>2 DEF Kept
  <2>6. Wanted \ ignored \subseteq minimal' \cup visited' \cup Elements(queue')
    BY <1>1, <1>2, <2>2 DEF Kept
  <2>7. Elements(queue') \subseteq Wanted \cup {Nil}
    BY <1>2, <2>1 DEF Kept
  <2> QED
    BY <1>1, <2>3, <2>4, <2>5, <2>6, <2>7 DEF Kept, Wanted
<1>9. Followed'
  <2>1. Elements(include[vertex]) \subseteq seen \ {origin}
    <3>1. include[vertex] \in Seq(Feature)
      BY <1>3 DEF Inv, InputInv
    <3>2. \A i \in DOMAIN include[vertex] : include[vertex][i] \in seen /\ include[vertex][i] \notin hot
      BY <1>1, <3>1 DEF Inv, VertexInv, Ordered, LoopInv
    <3> QED
      BY <1>3, <3>1, <3>2 DEF Elements
  <2>2. Pending' = seen \ {origin} /\ Pending = seen \ {origin}
    BY <1>1, <1>2, <1>6 DEF Pending
  <2>3. Settled' \subseteq Settled \cup {vertex}
    BY <1>1, <1>2, <1>6 DEF Settled
  <2> QED
    BY <1>1, <1>2, <2>1, <2>2, <2>3 DEF Followed
<1>10. Brought'
  <2>1. SUFFICES ASSUME NEW v \in visited'
                 PROVE  \E m \in minimal' : v \in Included(include, ignored, m)
    BY <1>1 DEF Brought
  <2>2. origin \in minimal' /\ origin \in Feature
    BY <1>1, <1>3, ElementsOfSeq DEF Inv, StackInv, SearchTypes
  <2>3. CASE v = vertex
    BY <1>3, <2>2, <2>3
  <2>4. CASE v # vertex
    <3>1. PICK m \in minimal : v \in Included(include, ignored, m)
      BY <1>1, <1>2, <2>1, <2>4 DEF Brought
    <3>2. CASE m = vertex
      <4>1. Included(include, ignored, vertex) \subseteq Included(include, ignored, origin)
        BY <1>3, <2>2, IncludedByIncluded DEF Inv, InputInv
      <4> QED
        BY <2>2, <3>1, <3>2, <4>1
    <3>3. CASE m # vertex
      BY <1>1, <3>1, <3>3
    <3> QED
      BY <3>2, <3>3
  <2> QED
    BY <2>3, <2>4
<1> QED
  BY <1>1, <1>7, <1>8, <1>9, <1>10 DEF Reduction, NotReduced, ReduceInv, CnameIsCanonical

LEMMA ReduceEndVisit == ASSUME Inv, Ordered, Reduction, EndVisit PROVE Reduction'
<1>1. /\ phase \in {"expand", "reduce"} /\ vertex # Nil /\ vertex' = Nil
      /\ UNCHANGED <<include, ignored, requested, phase, origin, seen>>
  BY DEF EndVisit, Running, input
<1>2. CASE phase = "expand"
  <2>1. UNCHANGED <<minimal, visited>>
    BY <1>2 DEF EndVisit, Expand, results
  <2> QED
    BY <1>1, <1>2, <2>1, NotInReduction
<1>3. CASE phase = "reduce" /\ ~complete
  <2>1. UNCHANGED <<stack, hot, queue, visited, minimal>>
    BY <1>3 DEF EndVisit, results
  <2>2. Kept' /\ Followed' /\ Brought' /\ OriginInv'
    BY <1>1, <1>3, <2>1 DEF Reduction, ReduceInv, Kept, Followed, Settled, Pending, Brought,
                            OriginInv, Wanted
  <2> QED
    BY <1>1, <1>3, <2>2 DEF Reduction, NotReduced, ReduceInv, CnameIsCanonical
<1>4. CASE phase = "reduce" /\ complete
  BY <1>4, ReduceOrigin, ReduceOther
<1> QED
  BY <1>1, <1>2, <1>3, <1>4 DEF Inv, SearchTypes

\* With nothing on the stack and nothing left to take, what is minimal is what nothing includes.
LEMMA ReduceEnd == ASSUME Inv, Reduction, EndReduction PROVE Reduction'
<1> DEFINE X == Elements(expanded)
<1> DEFINE C == minimal \cup visited \cup ignored
<1> DEFINE I(g) == Included(include, ignored, g)
<1>1. /\ phase = "reduce" /\ stack = <<>> /\ queue = <<>>
      /\ phase' \in {"failed", "done"}
      /\ UNCHANGED <<include, ignored, requested, cmd, expanded, minimal, visited>>
  BY DEF EndReduction, Searching, Fail, input, results
<1>2. Kept /\ Followed /\ Brought /\ Elements(queue) = {}
  BY <1>1, NoElements DEF Reduction, ReduceInv
<1>3. /\ Wanted \subseteq Feature /\ ignored \subseteq Feature
      /\ include \in [Feature -> Seq(Feature)]
      /\ X = Closure(include, ignored, Wanted)
  BY <1>1, ElementsOfSeq DEF Inv, InputInv, Wanted, ExpansionIsClosure
<1>4. \A f \in minimal \cup visited : Elements(include[f]) \subseteq visited \cup ignored
  BY <1>1, <1>2 DEF Followed, Settled, Pending
<1>5. /\ minimal \subseteq Feature /\ visited \subseteq Feature
      /\ minimal \cap ignored = {} /\ visited \cap ignored = {} /\ minimal \cap visited = {}
  BY <1>2, <1>3 DEF Kept
<1>6. C \in ClosedSets(include, ignored) /\ visited \cup ignored \in ClosedSets(include, ignored)
  BY <1>3, <1>4, <1>5 DEF ClosedSets
<1>7. Reachable(include, ignored, minimal) \subseteq C /\ Reachable(include, ignored, Wanted) \subseteq C
  <2>1. Wanted \subseteq C
    BY <1>2 DEF Kept
  <2> QED
    BY <1>6, <2>1, ReachableIsLeast
<1>8. \A S \in SUBSET Feature : minimal \subseteq S =>
         minimal \cup visited \subseteq Reachable(include, ignored, S)
  <2>1. SUFFICES ASSUME NEW S \in SUBSET Feature, minimal \subseteq S, NEW v \in visited
                 PROVE  v \in Reachable(include, ignored, S)
    BY ReachableContains
  <2>2. PICK m \in minimal : v \in I(m)
    BY <1>2, <2>1 DEF Brought
  <2>3. m \in Reachable(include, ignored, S) /\ m \notin ignored
    BY <1>5, <2>1, ReachableContains
  <2>4. /\ Reachable(include, ignored, S) \subseteq Feature
        /\ \A h \in Reachable(include, ignored, S) \ ignored :
              Elements(include[h]) \subseteq Reachable(include, ignored, S)
    BY <1>3, ReachableContains, ReachableIsClosed
  <2>5. Reachable(include, ignored, S) \in ClosedSets(include, ignored)
    BY <2>4 DEF ClosedSets
  <2> QED
    BY <2>2, <2>3, <2>4, <2>5, ReachableIsLeast DEF Included
<1>9. Closure(include, ignored, minimal) = minimal \cup visited /\ X = minimal \cup visited
  <2>1. minimal \subseteq Wanted
    BY <1>2 DEF Kept
  <2> QED
    BY <1>3, <1>5, <1>7, <1>8, <2>1 DEF Closure
<1>10. \A g \in X : I(g) \subseteq visited \cup ignored
  BY <1>4, <1>6, <1>9, ReachableIsLeast DEF Included
<1>11. \A v \in visited : \E g \in X : v \in I(g)
  BY <1>2, <1>9 DEF Brought
<1>12. minimal = {f \in X : \A g \in X : f \notin I(g)}
  BY <1>5, <1>9, <1>10, <1>11
<1>13. CnameIsCanonical'
  BY <1>1, <1>9, <1>12 DEF CnameIsCanonical
<1> QED
  BY <1>1, <1>13 DEF Reduction, NotReduced, ReduceInv

\* The reduction keeps its invariant throughout.
THEOREM ReductionInvariant == Spec => []Reduction
<1>1. Init => Reduction
  BY DEF Init, Reduction, NotReduced, ReduceInv, CnameIsCanonical
<1>2. Inv /\ Ordered /\ Reduction /\ [Next]_vars => Reduction'
  BY ReductionStutters, ReduceFailure, ReduceValidate, ReduceTake, ReduceSkipIgnored, ReduceVisit,
     ReduceFollowEdge, ReduceEndVisit, ReduceEnd DEF Next
<1> QED
  BY <1>1, <1>2, SearchInvariant, SearchIsOrdered, PTL DEF Spec

\* cname names the features of an image that no other of its features includes, and they bring all
\* others: the name depends on what is in the image, not on how it was asked for (reduceFeatures).
THEOREM NamesAreCanonical == Spec => []CnameIsCanonical
<1>1. Reduction => CnameIsCanonical
  BY DEF Reduction
<1> QED
  BY <1>1, ReductionInvariant, PTL

(* What is printed.  Sets of numbers can be sorted as long as they are       *)
(* finite; both lemmas follow the subsets of the set down.                   *)

LEMMA LargestExists ==
    ASSUME NEW S \in SUBSET Int, IsFiniteSet(S), S # {}
    PROVE  \E x \in S : \A y \in S : y <= x
<1> DEFINE Above == [x \in S |-> {y \in S : y > x}]
<1> DEFINE T == {Above[x] : x \in S}
<1>1. \A x \in S : Above[x] \in SUBSET S /\ Above[x] \in FiniteSubsetsOf(S)
  BY FS_Subset DEF FiniteSubsetsOf
<1>2. T \subseteq FiniteSubsetsOf(S) /\ T # {}
  <2>1. PICK x \in S : TRUE
    OBVIOUS
  <2>2. Above[x] \in T
    BY <2>1
  <2> HIDE DEF Above
  <2> QED
    BY <1>1, <2>2
<1>3. PICK A \in T : \A B \in T : <<B, A>> \notin StrictSubsetOrdering(S)
  BY <1>2, FS_StrictSubsetOrderingWellFounded, WFMin
<1>4. PICK x \in S : A = Above[x]
  BY <1>3
<1>5. ASSUME NEW y \in S, y > x
      PROVE  FALSE
  <2>1. Above[y] \in T /\ Above[y] \subseteq S /\ A \subseteq S
    BY <1>4
  <2>2. Above[y] \subseteq A /\ y \in A /\ y \notin Above[y]
    <3>1. x \in Int /\ y \in Int /\ y > x
      BY <1>5
    <3>2. \A z \in S : z > y => z > x
      BY <3>1
    <3>3. ~(y > y)
      BY <3>1
    <3> QED
      BY <1>4, <1>5, <3>2, <3>3
  <2>3. <<Above[y], A>> \in StrictSubsetOrdering(S)
    BY <2>1, <2>2 DEF StrictSubsetOrdering
  <2> QED
    BY <1>3, <2>1, <2>3
<1>6. \A y \in S : ~(y > x) => y <= x
  OBVIOUS
<1> QED
  BY <1>5, <1>6

Increasing(s) == \A i, j \in DOMAIN s : i < j => s[i] < s[j]

LEMMA OneMore ==
    ASSUME NEW S \in SUBSET Int, IsFiniteSet(S), NEW x \in S, \A y \in S : y <= x,
           NEW s \in [1 .. Cardinality(S \ {x}) -> S \ {x}], Increasing(s)
    PROVE  \E t \in [1 .. Cardinality(S) -> S] : Increasing(t)
<1> DEFINE n == Cardinality(S)
<1>1. IsFiniteSet(S \ {x}) /\ Cardinality(S \ {x}) = n - 1
  BY FS_RemoveElement
<1>2. n \in Nat /\ n - 1 \in Nat
  BY <1>1, FS_CardinalityType
<1> DEFINE t == [i \in 1 .. n |-> IF i = n THEN x ELSE s[i]]
<1>3. \A i \in 1 .. n : i # n => i \in 1 .. n - 1
  BY <1>2
<1>4. \A i \in 1 .. n - 1 : s[i] \in S /\ s[i] # x
  BY <1>1
<1>5. t \in [1 .. n -> S]
  BY <1>3, <1>4
<1>6. ASSUME NEW i \in 1 .. n, NEW j \in 1 .. n, i < j
      PROVE  t[i] < t[j]
  <2>1. i # n /\ i \in 1 .. n - 1 /\ t[i] = s[i]
    BY <1>2, <1>3, <1>6
  <2>2. CASE j = n
    <3>1. s[i] \in Int /\ x \in Int /\ s[i] <= x /\ s[i] # x
      BY <1>4, <2>1
    <3> QED
      BY <2>1, <2>2, <3>1
  <2>3. CASE j # n
    <3>1. j \in DOMAIN s /\ i \in DOMAIN s /\ t[j] = s[j]
      BY <1>1, <1>3, <2>1, <2>3
    <3> QED
      BY <1>6, <2>1, <3>1 DEF Increasing
  <2> QED
    BY <2>2, <2>3
<1>7. Increasing(t)
  BY <1>6 DEF Increasing
<1> HIDE DEF t
<1> QED
  BY <1>5, <1>7

LEMMA CanBeSorted ==
    ASSUME NEW S \in SUBSET Int, IsFiniteSet(S)
    PROVE  \E s \in [1 .. Cardinality(S) -> S] : Increasing(s)
<1> DEFINE Sorted(X) == \E s \in [1 .. Cardinality(X) -> X] : Increasing(s)
<1> DEFINE T == {X \in SUBSET S : ~Sorted(X)}
<1>1. SUFFICES ASSUME T # {}
               PROVE  FALSE
  OBVIOUS
<1>2. T \subseteq FiniteSubsetsOf(S)
  BY FS_Subset DEF FiniteSubsetsOf
<1>3. PICK X \in T : \A Y \in T : <<Y, X>> \notin StrictSubsetOrdering(S)
  BY <1>1, <1>2, FS_StrictSubsetOrderingWellFounded, WFMin
<1>4. X \in SUBSET S /\ X \in SUBSET Int /\ IsFiniteSet(X) /\ ~Sorted(X)
  BY <1>2, <1>3, FS_Subset
<1>5. CASE X = {}
  <2>1. Cardinality(X) = 0
    BY <1>5, FS_EmptySet
  <2>2. [i \in 1 .. 0 |-> i] \in [1 .. Cardinality(X) -> X] /\ Increasing([i \in 1 .. 0 |-> i])
    BY <2>1 DEF Increasing
  <2> QED
    BY <1>4, <2>2
<1>6. CASE X # {}
  <2>1. PICK x \in X : \A y \in X : y <= x
    BY <1>4, <1>6, LargestExists
  <2>2. <<X \ {x}, X>> \in StrictSubsetOrdering(S)
    BY <1>4 DEF StrictSubsetOrdering
  <2>3. Sorted(X \ {x})
    BY <1>3, <1>4, <2>2
  <2>4. Sorted(X)
    BY <1>4, <2>1, <2>3, OneMore
  <2> QED
    BY <1>4, <2>4
<1> QED
  BY <1>5, <1>6

LEMMA AscendingIsSorted ==
    ASSUME NEW S \in SUBSET Int, IsFiniteSet(S)
    PROVE  Ascending(S) \in [1 .. Cardinality(S) -> S] /\ Increasing(Ascending(S))
BY CanBeSorted DEF Ascending, Increasing

LEMMA AscendingIsSeq ==
    ASSUME NEW S \in SUBSET Int, IsFiniteSet(S), NEW X, S \subseteq X
    PROVE  Ascending(S) \in Seq(X)
<1>1. Cardinality(S) \in Nat
  BY FS_CardinalityType
<1>2. Ascending(S) \in [1 .. Cardinality(S) -> X]
  BY AscendingIsSorted
<1> QED
  BY <1>1, <1>2

\* What is taken from a sequence keeps its order.
LEMMA ThoseIsSeq ==
    ASSUME NEW X, NEW s \in Seq(X), NEW S
    PROVE  Those(s, S) \in Seq(X)
<1> DEFINE P == {i \in DOMAIN s : s[i] \in S}
<1>1. DOMAIN s = 1 .. Len(s) /\ Len(s) \in Nat
  OBVIOUS
<1>2. P \in SUBSET (1 .. Len(s)) /\ P \in SUBSET Int
  BY <1>1
<1>3. IsFiniteSet(P)
  <2>1. IsFiniteSet(1 .. Len(s))
    BY <1>1, FS_Interval
  <2> QED
    BY <1>2, <2>1, FS_Subset
<1>4. Ascending(P) \in Seq(P)
  BY <1>2, <1>3, AscendingIsSeq
<1> DEFINE places == Ascending(P)
<1>a. Those(s, S) = [k \in DOMAIN places |-> s[places[k]]]
  BY DEF Those
<1>b. places \in Seq(P) /\ \A i \in P : s[i] \in X
  BY <1>4
<1> HIDE DEF P, places
<1>5. DOMAIN places = 1 .. Len(places) /\ Len(places) \in Nat /\ \A k \in DOMAIN places : places[k] \in P
  BY <1>b
<1>6. \A k \in DOMAIN places : s[places[k]] \in X
  BY <1>5, <1>b
<1>8. [k \in DOMAIN places |-> s[places[k]]] \in [1 .. Len(places) -> X]
  BY <1>5, <1>6
<1> QED
  BY <1>5, <1>a, <1>8

InputTypes ==
    /\ cmd \in Commands
    /\ include \in Includes /\ exclude \in Excludes /\ type \in Types
    /\ ignored \in Ignores /\ requested \in Requests

OutcomeType ==
    \/ outcome = Nil
    \/ outcome \in [kind : {"unknown", "loop", "excluded", "platforms"}, feature : Feature \cup {Nil}]
    \/ outcome \in [kind : {"features"}, features : Seq(Feature)]

\* What has been ignored is finite, so that the command ignore can sort it.
ResultTypes ==
    /\ origin \in Feature \cup {Nil}
    /\ collectedIgn \subseteq Feature /\ IsFiniteSet(collectedIgn)
    /\ collectedExcl \subseteq Feature /\ visited \subseteq Feature /\ minimal \subseteq Feature
    /\ OutcomeType

Printable == InputTypes /\ ResultTypes

LEMMA FailureType ==
    ASSUME NEW error \in {"unknown", "loop", "excluded", "platforms"}, NEW f \in Feature \cup {Nil},
           Fail(error, f)
    PROVE  OutcomeType'
BY DEF Fail, OutcomeType

LEMMA ElementsAreFinite ==
    ASSUME NEW X, NEW s \in Seq(X)
    PROVE  IsFiniteSet(Elements(s))
<1>1. DOMAIN s = 1 .. Len(s) /\ s \in [1 .. Len(s) -> X] /\ 1 \in Int /\ Len(s) \in Int
  OBVIOUS
<1>2. IsFiniteSet(1 .. Len(s))
  BY <1>1, FS_Interval
<1>3. s \in [1 .. Len(s) -> Elements(s)]
  BY <1>1 DEF Elements
<1>4. \A g \in Elements(s) : \E i \in 1 .. Len(s) : s[i] = g
  BY <1>1 DEF Elements
<1>5. s \in Surjection(1 .. Len(s), Elements(s))
  BY <1>3, <1>4 DEF Surjection
<1> QED
  BY <1>2, <1>5, FS_Surjection

LEMMA PrintSearch ==
    ASSUME Inv, Printable, SkipIgnored \/ Visit \/ FollowEdge \/ UNCHANGED vars
    PROVE  Printable'
<1>1. UNCHANGED <<cmd, include, exclude, type, ignored, requested, origin,
                  collectedExcl, visited, minimal, outcome>>
  BY DEF SkipIgnored, Visit, FollowEdge, vars, input, search, results
<1>2. collectedIgn' = collectedIgn \/ (Searching /\ collectedIgn' = collectedIgn \cup {Top})
  BY DEF SkipIgnored, Visit, FollowEdge, vars, results
<1>3. Searching => Top \in Feature
  BY DEF Inv, SearchTypes, Searching, Top
<1>4. collectedIgn' \subseteq Feature /\ IsFiniteSet(collectedIgn')
  BY <1>2, <1>3, FS_AddElement DEF Printable, ResultTypes
<1> QED
  BY <1>1, <1>4 DEF Printable, InputTypes, ResultTypes, OutcomeType

LEMMA PrintTake ==
    ASSUME Inv, Printable, TakeFeature \/ TakeForReduction
    PROVE  Printable'
<1> DEFINE f == Head(queue)
<1>1. /\ queue \in Seq(Feature \cup {Nil}) /\ queue # <<>>
      /\ UNCHANGED <<input, collectedIgn, collectedExcl, visited>>
      /\ \/ BeginSearch(f, seen) /\ minimal' = minimal
         \/ BeginSearch(f, {}) /\ minimal' = minimal \cup {f} /\ f # Nil
         \/ UNCHANGED <<origin, outcome, minimal>>
  BY DEF TakeFeature, TakeForReduction, results, search, Inv, SearchTypes
<1>2. f \in Feature \cup {Nil}
  BY <1>1, TakeOne
<1>3. minimal' \subseteq Feature
  BY <1>1, <1>2 DEF Printable, ResultTypes
<1>4. \/ Fail("unknown", f) /\ origin' = origin
      \/ origin' \in {origin, f} /\ outcome' = outcome
  BY <1>1 DEF BeginSearch, search
<1>5. OutcomeType' /\ origin' \in Feature \cup {Nil}
  BY <1>2, <1>4, FailureType DEF Printable, ResultTypes, OutcomeType
<1> QED
  BY <1>1, <1>3, <1>5 DEF Printable, InputTypes, ResultTypes, input

LEMMA PrintEndVisit == ASSUME Inv, Printable, EndVisit PROVE Printable'
<1>1. UNCHANGED <<input, origin, outcome, collectedIgn>> /\ vertex \in Feature
  BY DEF EndVisit, Expand, Reduce, results, Inv, SearchTypes
<1>2. /\ collectedExcl' \in {collectedExcl, collectedExcl \cup exclude[vertex]}
      /\ visited' \in {visited, visited \cup {vertex}}
      /\ minimal' \in {minimal, minimal \ {vertex}}
  BY DEF EndVisit, Expand, Reduce, results
<1>3. exclude[vertex] \subseteq Feature
  BY <1>1, InputAssumption DEF Printable, InputTypes
<1> QED
  BY <1>1, <1>2, <1>3 DEF Printable, InputTypes, ResultTypes, OutcomeType, input

LEMMA PrintFailures ==
    ASSUME Inv, Printable, Start \/ FindLoop \/ EndExpansion
    PROVE  Printable'
<1>1. UNCHANGED <<input, origin, collectedIgn, collectedExcl, visited, minimal>>
  BY DEF Start, FindLoop, EndExpansion, search, results
<1>2. \/ outcome' = outcome
      \/ \E f \in Unknown(requested) : Fail("unknown", f)
      \/ vertex # Nil /\ edge > 0 /\ Fail("loop", include[vertex][edge])
      \/ \E f \in Elements(expanded) \cap collectedExcl : Fail("excluded", f)
  BY DEF Start, FindLoop, EndExpansion
<1>3. Unknown(requested) \subseteq Feature
  BY ElementsOfSeq DEF Inv, InputInv, Unknown
<1>4. vertex # Nil /\ edge > 0 => include[vertex][edge] \in Feature
  BY AtAnEdge
<1>5. OutcomeType'
  BY <1>2, <1>3, <1>4, FailureType DEF Printable, ResultTypes, OutcomeType
<1> QED
  BY <1>1, <1>5 DEF Printable, InputTypes, ResultTypes, input

LEMMA PrintValidate == ASSUME Inv, Printable, Validate PROVE Printable'
<1>1. /\ UNCHANGED <<input, origin, collectedIgn, visited, minimal>>
      /\ collectedExcl' \in {collectedExcl, {}}
  BY DEF Validate, search, results
<1>2. \/ outcome' = outcome
      \/ \E f \in Unknown(expanded) : Fail("unknown", f)
      \/ Fail("platforms", Nil)
      \/ cmd # "cname" /\ outcome' = Output(Printed)
  BY DEF Validate
<1>3. Unknown(expanded) \subseteq Feature
  BY ElementsOfSeq DEF Inv, SearchTypes, Unknown
<1>4. cmd # "cname" => Printed \in Seq(Feature)
  <2>1. cmd \in {"elements", "features", "flags", "cname", "ignore", "platform"}
    BY InputAssumption DEF Printable, InputTypes, Presorted
  <2>2. expanded \in Seq(Feature)
    BY DEF Inv, SearchTypes
  <2>3. Platforms \in Seq(Feature) /\ \A T : FilterByType(expanded, T) \in Seq(Feature)
    BY <2>2, ThoseIsSeq DEF Platforms, FilterByType
  <2>4. Ascending(collectedIgn) \in Seq(Feature)
    <3>1. collectedIgn \in SUBSET Int /\ IsFiniteSet(collectedIgn) /\ collectedIgn \subseteq Feature
      BY FeatureAssumption DEF Printable, ResultTypes
    <3> QED
      BY <3>1, AscendingIsSeq
  <2> QED
    BY <2>1, <2>2, <2>3, <2>4 DEF Printed
<1>5. OutcomeType'
  <2>1. CASE cmd # "cname" /\ outcome' = Output(Printed)
    BY <1>4, <2>1 DEF Output, OutcomeType
  <2> QED
    BY <1>2, <1>3, <2>1, FailureType DEF Printable, ResultTypes, OutcomeType
<1> QED
  BY <1>1, <1>5 DEF Printable, InputTypes, ResultTypes, input

LEMMA PrintEndReduction == ASSUME Inv, Reduction, Printable, EndReduction PROVE Printable'
<1>1. /\ UNCHANGED <<input, origin, collectedIgn, collectedExcl, visited, minimal>>
      /\ phase = "reduce"
      /\ \/ \E f \in visited \cap collectedExcl : Fail("excluded", f)
         \/ outcome' = Output(SortStrictly(minimal))
  BY DEF EndReduction, search, results
<1>2. minimal \subseteq Feature /\ IsFiniteSet(minimal)
  <2>1. minimal \in SUBSET Elements(requested)
    BY <1>1 DEF Reduction, ReduceInv, Kept, Wanted
  <2>2. IsFiniteSet(Elements(requested))
    BY ElementsAreFinite DEF Inv, InputInv
  <2> QED
    BY <2>1, <2>2, FS_Subset DEF Printable, ResultTypes
<1>3. ASSUME NEW n
      PROVE  Ascending({f \in minimal : Rank(f) = n}) \in Seq(Feature)
  <2> DEFINE M == {f \in minimal : Rank(f) = n}
  <2>1. M \in SUBSET minimal /\ M \subseteq Feature /\ M \in SUBSET Int
    BY <1>2, FeatureAssumption
  <2>2. IsFiniteSet(M)
    BY <1>2, <2>1, FS_Subset
  <2> QED
    BY <2>1, <2>2, AscendingIsSeq
<1>4. SortStrictly(minimal) \in Seq(Feature)
  <2> DEFINE A(n) == Ascending({f \in minimal : Rank(f) = n})
  <2>1. A(1) \in Seq(Feature) /\ A(2) \in Seq(Feature) /\ A(3) \in Seq(Feature)
    BY <1>3
  <2>2. SortStrictly(minimal) = A(1) \o A(2) \o A(3)
    BY DEF SortStrictly
  <2> HIDE DEF A
  <2> QED
    BY <2>1, <2>2
<1>5. OutcomeType'
  BY <1>1, <1>4, FailureType DEF Output, OutcomeType, Printable, ResultTypes
<1> QED
  BY <1>1, <1>5 DEF Printable, InputTypes, ResultTypes, input

\* Every variable keeps its type, and what is printed is a list of features: sorting and filtering
\* are defined for whatever a search has found (sortFeatures, filterByType).
THEOREM FeatureTypeCorrect == Spec => []TypeOK
<1>1. Init => Printable
  BY FS_EmptySet DEF Init, Printable, InputTypes, ResultTypes, OutcomeType
<1>2. Inv /\ Reduction /\ Printable /\ [Next]_vars => Printable'
  BY PrintSearch, PrintTake, PrintEndVisit, PrintFailures, PrintValidate, PrintEndReduction DEF Next
<1>3. Inv /\ Printable => TypeOK
  <2>1. Inv => hot \subseteq Feature
    BY DEF Inv, StackInv, SearchTypes
  <2> QED
    BY <2>1 DEF Inv, InputInv, SearchTypes, Printable, InputTypes, ResultTypes, OutcomeType, TypeOK
<1> QED
  BY <1>1, <1>2, <1>3, SearchInvariant, ReductionInvariant, PTL DEF Spec

(* The names of flavours.                                                    *)

LEMMA IncludedIsTransitive ==
    ASSUME NEW inc \in [Feature -> Seq(Feature)], NEW f \in Feature,
           NEW g \in included_features(inc, f)
    PROVE  included_features(inc, g) \subseteq included_features(inc, f)
BY IncludedByIncluded DEF included_features

\* The steps of the pipeline normalise modifiers that are normalised already
\* (ReleaseIdentifier.flavour, normalised_modifiers): that changes nothing, so that every step finds
\* a flavour under the same key.
THEOREM NormalisingTwice ==
    ASSUME NEW inc \in [Feature -> Seq(Feature)], NEW p \in Feature, NEW M \in SUBSET Feature
    PROVE  normalised_modifiers(inc, p, normalised_modifiers(inc, p, M)) = normalised_modifiers(inc, p, M)
<1> DEFINE N == normalised_modifiers(inc, p, M)
<1>1. ASSUME NEW n \in N
      PROVE  included_features(inc, n) \subseteq N
  <2>1. CASE n \in M
    BY <2>1 DEF normalised_modifiers
  <2>2. CASE n \in included_features(inc, p)
    BY <2>2, IncludedIsTransitive DEF normalised_modifiers
  <2>3. CASE \E m \in M : n \in included_features(inc, m)
    <3>1. PICK m \in M : n \in included_features(inc, m)
      BY <2>3
    <3>2. included_features(inc, n) \subseteq included_features(inc, m)
      BY <3>1, IncludedIsTransitive
    <3> QED
      BY <3>2 DEF normalised_modifiers
  <2> QED
    BY <1>1, <2>1, <2>2, <2>3 DEF normalised_modifiers
<1>2. included_features(inc, p) \subseteq N
  BY DEF normalised_modifiers
<1>3. UNION {included_features(inc, n) : n \in N} \subseteq N
  BY <1>1
<1>4. normalised_modifiers(inc, p, N) =
        N \cup included_features(inc, p) \cup UNION {included_features(inc, n) : n \in N}
  BY DEF normalised_modifiers
<1> QED
  BY <1>2, <1>3, <1>4

(* What a key tells of a flavour.                                            *)

\* What several features include together is what each of them includes.
LEMMA ReachableIsUnion ==
    ASSUME NEW inc \in [Feature -> Seq(Feature)], NEW W \in SUBSET Feature
    PROVE  Closure(inc, {}, W) = W \cup UNION {included_features(inc, w) : w \in W}
<1> DEFINE I(w) == included_features(inc, w)
<1> DEFINE C == W \cup UNION {I(w) : w \in W}
<1> DEFINE R == Reachable(inc, {}, W)
<1>1. \A w \in W : Elements(inc[w]) \subseteq I(w) /\ I(w) \subseteq Feature
  BY NamedIsIncluded DEF included_features
<1>2. C \subseteq Feature
  BY <1>1
<1>3. ASSUME NEW f \in C
      PROVE  Elements(inc[f]) \subseteq C
  <2>1. CASE f \in W
    BY <1>1, <2>1
  <2>2. ASSUME NEW w \in W, f \in I(w)
        PROVE  Elements(inc[f]) \subseteq C
    <3>1. Elements(inc[f]) \subseteq I(w)
      BY <2>2, ReachableIsClosed DEF included_features, Included
    <3> QED
      BY <3>1
  <2> QED
    BY <1>3, <2>1, <2>2
<1>4. R \subseteq C
  <2>1. C \in ClosedSets(inc, {})
    BY <1>2, <1>3 DEF ClosedSets
  <2> QED
    BY <2>1, ReachableIsLeast
<1>5. C \subseteq R
  <2>1. W \subseteq R /\ R \subseteq Feature
    BY ReachableContains
  <2>2. R \in ClosedSets(inc, {})
    BY <2>1, ReachableIsClosed DEF ClosedSets
  <2>3. \A w \in W : I(w) \subseteq R
    BY <2>1, <2>2, ReachableIsClosed, ReachableIsLeast DEF included_features, Included
  <2> QED
    BY <2>1, <2>3
<1> QED
  BY <1>4, <1>5 DEF Closure

\* A feature of the flavour that the key does not name, another one includes; as the features are
\* finitely many and none includes itself, following those up ends at one that is named.
LEMMA NamedBringsAll ==
    ASSUME NEW inc \in [Feature -> Seq(Feature)], Acyclic(inc),
           NEW N \in SUBSET Feature, IsFiniteSet(N), NEW C,
           N \ UNION {included_features(inc, m) : m \in N} \subseteq C,
           \A m \in N \cap C : included_features(inc, m) \subseteq C
    PROVE  N \subseteq C
<1> DEFINE I(m) == included_features(inc, m)
<1> DEFINE Above == [n \in N |-> {m \in N : n \in I(m)}]
<1> DEFINE T == {Above[n] : n \in N \ C}
<1>1. SUFFICES ASSUME N \ C # {}
               PROVE  FALSE
  OBVIOUS
<1>2. T \subseteq FiniteSubsetsOf(N) /\ T # {}
  <2>1. \A n \in N : Above[n] \in SUBSET N
    OBVIOUS
  <2>2. \A n \in N : IsFiniteSet(Above[n])
    BY <2>1, FS_Subset
  <2>3. \A n \in N : Above[n] \in FiniteSubsetsOf(N)
    BY <2>1, <2>2 DEF FiniteSubsetsOf
  <2>4. PICK n \in N \ C : TRUE
    BY <1>1
  <2>5. Above[n] \in T
    BY <2>4
  <2> HIDE DEF Above
  <2> QED
    BY <2>3, <2>5
<1>3. PICK x \in T : \A y \in T : <<y, x>> \notin StrictSubsetOrdering(N)
  BY <1>2, FS_StrictSubsetOrderingWellFounded, WFMin
<1>4. PICK n \in N \ C : x = Above[n]
  BY <1>3
<1>5. PICK m \in N : n \in I(m)
  BY <1>4
<1>6. m \in N \ C
  BY <1>4, <1>5
<1>7. Above[m] \in T /\ Above[m] \subseteq N /\ x \subseteq N
  BY <1>4, <1>6
<1>8. Above[m] \subseteq x
  <2>1. ASSUME NEW k \in N, m \in I(k)
        PROVE  n \in I(k)
    BY <1>5, <2>1, IncludedIsTransitive
  <2> QED
    BY <1>4, <1>6, <2>1
<1>9. m \in x /\ m \notin Above[m]
  BY <1>4, <1>5, <1>6 DEF Acyclic, included_features
<1>10. <<Above[m], x>> \in StrictSubsetOrdering(N)
  BY <1>7, <1>8, <1>9 DEF StrictSubsetOrdering
<1> QED
  BY <1>3, <1>7, <1>10

\* The key of a flavour is enough to tell its features: canonical_modifiers takes away only what the
\* features that stay bring anyway (canonical_release_manifest_key).
THEOREM KeysTellFlavours ==
    ASSUME NEW inc \in [Feature -> Seq(Feature)], Acyclic(inc),
           NEW p \in Feature, NEW M \in SUBSET Feature,
           IsFiniteSet(normalised_modifiers(inc, p, M))
    PROVE  KeyTellsFlavour(inc, [platform |-> p, modifiers |-> normalised_modifiers(inc, p, M)])
<1> DEFINE I(m) == included_features(inc, m)
<1> DEFINE N == normalised_modifiers(inc, p, M)
<1> DEFINE K == canonical_modifiers(inc, p, N)
<1> DEFINE C == Closure(inc, {}, {p} \cup K)
<1>1. \A m \in Feature : I(m) \subseteq Feature
  BY NamedIsIncluded DEF included_features
<1>2. N \subseteq Feature
  BY <1>1 DEF normalised_modifiers
<1>3. K = N \ UNION {I(m) : m \in N}
  BY DEF canonical_modifiers
<1>4. C = {p} \cup K \cup I(p) \cup UNION {I(k) : k \in K}
  BY <1>2, <1>3, ReachableIsUnion
<1>5. \A n \in N : I(n) \subseteq N
  <2>1. normalised_modifiers(inc, p, N) = N
    BY NormalisingTwice
  <2> QED
    BY <2>1 DEF normalised_modifiers
<1>6. C \subseteq {p} \cup N
  <2>1. I(p) \subseteq N
    BY DEF normalised_modifiers
  <2> QED
    BY <1>3, <1>4, <1>5, <2>1
<1>7. N \subseteq C
  <2>1. ASSUME NEW m \in C
        PROVE  I(m) \subseteq C
    <3>1. CASE m \in {p} \cup K
      BY <1>4, <3>1
    <3>2. ASSUME NEW k \in {p} \cup K, m \in I(k)
          PROVE  I(m) \subseteq C
      <4>1. I(m) \subseteq I(k)
        BY <1>2, <1>3, <3>2, IncludedIsTransitive
      <4> QED
        BY <1>4, <4>1
    <3> QED
      BY <1>4, <2>1, <3>1, <3>2
  <2>2. /\ N \ UNION {included_features(inc, m) : m \in N} \subseteq C
        /\ \A m \in N \cap C : included_features(inc, m) \subseteq C
    BY <1>3, <1>4, <2>1
  <2>3. IsFiniteSet(N)
    OBVIOUS
  <2> HIDE DEF N, C
  <2> QED
    BY <1>2, <2>2, <2>3, NamedBringsAll
<1>8. C = {p} \cup N
  BY <1>4, <1>6, <1>7
<1>9. \A m, n \in K : m \notin I(n)
  BY <1>3
<1> QED
  BY <1>8, <1>9 DEF KeyTellsFlavour, canonical_release_manifest_key, Named

\* The image is made of the features that the key of its flavour tells: the program that puts the
\* image together (expandFeatures) and the one that names and publishes it (normalised_modifiers,
\* canonical_release_manifest_key) agree, for every repository without loops and every flavour.
THEOREM KeysSayWhatImagesAre == Spec => []ImagesAreWhatTheirKeysSay
<1>1. ASSUME Inv
      PROVE  ImagesAreWhatTheirKeysSay
  <2>1. SUFFICES ASSUME phase = "done", ignored = {}, Acyclic(include), NEW f \in AskedFor
                 PROVE  Elements(expanded) = {f.platform} \cup f.modifiers /\ KeyTellsFlavour(include, f)
    BY DEF ImagesAreWhatTheirKeysSay
  <2>p. PICK p \in Wanted \cap Known :
           f = [platform |-> p, modifiers |-> normalised_modifiers(include, p, Wanted \ {p})]
    BY DEF AskedFor
  <2> DEFINE I(m) == included_features(include, m)
  <2> DEFINE N == normalised_modifiers(include, p, Wanted \ {p})
  <2>2. /\ include \in [Feature -> Seq(Feature)] /\ Wanted \in SUBSET Feature
        /\ expanded \in Seq(Feature)
    BY <1>1, ElementsOfSeq DEF Inv, InputInv, SearchTypes, Wanted
  <2>3. Elements(expanded) = Wanted \cup UNION {I(w) : w \in Wanted}
    BY <1>1, <2>1, <2>2, ReachableIsUnion DEF Inv, ExpansionIsClosure
  <2>4. Elements(expanded) = {p} \cup N
    BY <2>1, <2>3 DEF normalised_modifiers
  <2>5. IsFiniteSet(Elements(expanded))
    BY <2>2, ElementsAreFinite
  <2>6. IsFiniteSet(N)
    BY <2>4, <2>5, FS_Subset
  <2>7. KeyTellsFlavour(include, f)
    BY <2>1, <2>p, <2>2, <2>6, KeysTellFlavours
  <2>8. f.platform = p /\ f.modifiers = N
    BY <2>p
  <2> QED
    BY <2>4, <2>7, <2>8
<1> QED
  BY <1>1, SearchInvariant, PTL
=============================================================================

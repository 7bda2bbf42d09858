-------------------------- MODULE FeatureExpansion --------------------------
(***************************************************************************)
(* One invocation of garden-feat (bin/garden-feat.go).  expandFeatures and *)
(* reduceFeatures search the inclusion graph depth first, with a stack of  *)
(* their own; an action is one iteration of a loop of that search.  What   *)
(* goes in (the features of the repository, those asked for and those to   *)
(* ignore) is chosen once and kept.                                        *)
(***************************************************************************)
EXTENDS FeatureNames

CONSTANTS Commands,  \* the commands that are given
          Includes, Excludes, Types,  \* what the files of the features say
          Ignores, Requests           \* the options --ignore and --features

\* Those that sort the features they are asked for; the others take them as they come.
Presorted == {"elements", "features", "flags"}

ASSUME InputAssumption ==
    /\ Commands \subseteq Presorted \cup {"cname", "ignore", "platform"}
    /\ Includes \subseteq [Feature -> Seq(Feature)]
    /\ Excludes \subseteq [Feature -> SUBSET Feature]
    /\ Types \subseteq [Feature -> FeatureType]
    /\ Ignores \subseteq SUBSET Feature
    /\ Requests \subseteq Seq(Feature)

VARIABLES
    cmd, include, exclude, type, ignored,
    requested,     \* the features asked for
    phase,         \* "start", "expand", "validate", "reduce", "done" or "failed"
    queue,         \* those of them the loop has not come to; Nil where it blanked one
    origin,        \* the one the search started at
    seen, hot, stack,
    vertex, edge,  \* the feature being looked at, and the place in its list; Nil between two
    complete,      \* "done": nothing was pushed for it
    expanded, collectedIgn, collectedExcl, visited, minimal,
    outcome        \* what is printed: the features, or the error and the feature it names

input == <<cmd, include, exclude, type, ignored, requested>>
search == <<origin, seen, hot, stack, vertex, edge, complete>>
results == <<expanded, collectedIgn, collectedExcl, visited, minimal>>
vars == <<input, phase, queue, search, results, outcome>>

Fail(error, f) ==
    /\ phase' = "failed"
    /\ outcome' = [kind |-> error, feature |-> f]

\* sort.Strings: names are numbers here.
Ascending(S) ==
    CHOOSE s \in [1 .. Cardinality(S) -> S] : \A i, j \in DOMAIN s : i < j => s[i] < s[j]

\* What of s is in S, in the order of s.
Those(s, S) ==
    LET places == Ascending({i \in DOMAIN s : s[i] \in S})
    IN  [k \in DOMAIN places |-> s[places[k]]]

FilterByType(s, T) == Those(s, {f \in Feature : type[f] \in T})

Rank(f) == CASE type[f] = "platform" -> 1 [] type[f] = "element" -> 2 [] type[f] = "flag" -> 3

\* sortFeatures: platforms first and flags last, otherwise in the order given.
SortFeatures(s) ==
    {q \in [DOMAIN s -> Elements(s)] :
        \E p \in [DOMAIN s -> DOMAIN s] :
            /\ \A i \in DOMAIN s : q[i] = s[p[i]] /\ \E j \in DOMAIN s : p[j] = i
            /\ \A i, j \in DOMAIN s :
                  i < j => \/ Rank(q[i]) < Rank(q[j])
                           \/ Rank(q[i]) = Rank(q[j]) /\ p[i] < p[j]}

\* The same with strict: each type by name.
SortStrictly(S) ==
    LET OfRank(n) == Ascending({f \in S : Rank(f) = n})
    IN  OfRank(1) \o OfRank(2) \o OfRank(3)

Unknown(s) == {f \in Elements(s) : f \notin Known}

Start ==
    /\ phase = "start"
    /\ IF cmd \in Presorted /\ Unknown(requested) # {}
       THEN \E f \in Unknown(requested) : Fail("unknown", f) /\ UNCHANGED queue
       ELSE /\ phase' = "expand"
            /\ IF cmd \in Presorted
               THEN \E s \in SortFeatures(requested) : queue' = s
               ELSE queue' = requested
            /\ UNCHANGED outcome
    /\ UNCHANGED <<input, search, results>>

Running == phase \in {"expand", "reduce"}
Searching == stack # <<>>

\* postorderDFS up to its loop.
BeginSearch(f, alreadySeen) ==
    IF f \notin Known
    THEN /\ Fail("unknown", f)
         /\ UNCHANGED search
    ELSE /\ IF f \in alreadySeen
            THEN UNCHANGED <<origin, seen, hot, stack>>
            ELSE /\ origin' = f
                 /\ seen' = alreadySeen \cup {f}
                 /\ hot' = {}
                 /\ stack' = <<f>>
         /\ UNCHANGED <<vertex, edge, complete, phase, outcome>>

\* The loop over the features in expandFeatures: what one search has seen the next skips.
TakeFeature ==
    /\ phase = "expand" /\ ~Searching /\ queue # <<>>
    /\ BeginSearch(Head(queue), seen)
    /\ queue' = Tail(queue)
    /\ UNCHANGED <<input, results>>

\* The loop over the features in reduceFeatures: each search starts afresh.
TakeForReduction ==
    /\ phase = "reduce" /\ ~Searching /\ queue # <<>>
    /\ LET f == Head(queue) IN
          IF f = Nil \/ f \in ignored
          THEN UNCHANGED <<search, phase, outcome, minimal>>
          ELSE /\ minimal' = minimal \cup {f}
               /\ BeginSearch(f, {})
    /\ queue' = Tail(queue)
    /\ UNCHANGED <<input, expanded, collectedIgn, collectedExcl, visited>>

Top == stack[Len(stack)]
Pop == stack' = SubSeq(stack, 1, Len(stack) - 1)

\* (mutant) an ignored feature is processed as if it had no list
SkipIgnored_Kept ==
    /\ Running /\ Searching /\ vertex = Nil
    /\ Top \in ignored
    /\ Pop
    /\ collectedIgn' = collectedIgn \cup {Top}
    /\ expanded' = IF phase = "expand" THEN Append(expanded, Top) ELSE expanded
    /\ UNCHANGED <<input, phase, queue, origin, seen, hot, vertex, edge, complete,
                   collectedExcl, visited, minimal, outcome>>

\* allowVertex said no.
SkipIgnored ==
    /\ Running /\ Searching /\ vertex = Nil
    /\ Top \in ignored
    /\ Pop
    /\ collectedIgn' = IF phase = "expand" THEN collectedIgn \cup {Top} ELSE collectedIgn
    /\ UNCHANGED <<input, phase, queue, origin, seen, hot, vertex, edge, complete,
                   expanded, collectedExcl, visited, minimal, outcome>>

\* (mutant) the last feature of the list is forgotten
Visit_Short ==
    /\ Running /\ Searching /\ vertex = Nil
    /\ Top \notin ignored
    /\ hot' = hot \cup {Top}
    /\ vertex' = Top
    /\ edge' = Len(include[Top]) - 1
    /\ complete' = TRUE
    /\ UNCHANGED <<input, phase, queue, origin, seen, stack, results, outcome>>

Visit ==
    /\ Running /\ Searching /\ vertex = Nil
    /\ Top \notin ignored
    /\ hot' = hot \cup {Top}
    /\ vertex' = Top
    /\ edge' = Len(include[Top])
    /\ complete' = TRUE
    /\ UNCHANGED <<input, phase, queue, origin, seen, stack, results, outcome>>

\* (mutant) a feature is not marked as seen when it is pushed
FollowEdge_Unmarked ==
    LET w == include[vertex][edge] IN
        /\ Running /\ vertex # Nil /\ edge > 0
        /\ w \notin hot
        /\ edge' = edge - 1
        /\ IF w \in seen
           THEN UNCHANGED <<stack, complete>>
           ELSE stack' = Append(stack, w) /\ complete' = FALSE
        /\ UNCHANGED <<input, phase, queue, origin, seen, hot, vertex, results, outcome>>

\* (mutant) the list is gone through from its start
FollowEdge_Forward ==
    LET w == include[vertex][Len(include[vertex]) + 1 - edge] IN
        /\ Running /\ vertex # Nil /\ edge > 0
        /\ w \notin hot
        /\ edge' = edge - 1
        /\ IF w \in seen
           THEN UNCHANGED <<seen, stack, complete>>
           ELSE /\ seen' = seen \cup {w}
                /\ stack' = Append(stack, w)
                /\ complete' = FALSE
        /\ UNCHANGED <<input, phase, queue, origin, hot, vertex, results, outcome>>

\* The list is gone through from its end, so that its first feature comes up first.
FollowEdge ==
    LET w == include[vertex][edge] IN
        /\ Running /\ vertex # Nil /\ edge > 0
        /\ w \notin hot
        /\ edge' = edge - 1
        /\ IF w \in seen
           THEN UNCHANGED <<seen, stack, complete>>
           ELSE /\ seen' = seen \cup {w}
                /\ stack' = Append(stack, w)
                /\ complete' = FALSE
        /\ UNCHANGED <<input, phase, queue, origin, hot, vertex, results, outcome>>

FindLoop ==
    LET w == include[vertex][edge] IN
        /\ Running /\ vertex # Nil /\ edge > 0
        /\ w \in hot
        /\ Fail("loop", w)
        /\ UNCHANGED <<input, queue, search, results>>

\* processVertex of expandFeatures.
Expand(v) ==
    /\ expanded' = Append(expanded, v)
    /\ collectedExcl' = collectedExcl \cup exclude[v]
    /\ UNCHANGED <<queue, collectedIgn, visited, minimal>>

\* (mutant) what came earlier in the list is not taken back
Reduce_KeepEarlier(v) ==
    IF v = origin
    THEN UNCHANGED <<queue, results>>
    ELSE /\ queue' = [i \in DOMAIN queue |-> IF queue[i] = v THEN Nil ELSE queue[i]]
         /\ visited' = visited \cup {v}
         /\ collectedExcl' = collectedExcl \cup exclude[v]
         /\ UNCHANGED <<expanded, collectedIgn, minimal>>

\* processVertex of reduceFeatures: what another feature includes is no longer needed.
Reduce(v) ==
    IF v = origin
    THEN UNCHANGED <<queue, results>>
    ELSE /\ queue' = [i \in DOMAIN queue |-> IF queue[i] = v THEN Nil ELSE queue[i]]
         /\ minimal' = minimal \ {v}
         /\ visited' = visited \cup {v}
         /\ collectedExcl' = collectedExcl \cup exclude[v]
         /\ UNCHANGED <<expanded, collectedIgn>>

\* (mutant) what has been processed stays hot
EndVisit_StaysHot ==
    /\ Running /\ vertex # Nil /\ edge = 0
    /\ vertex' = Nil
    /\ IF complete
       THEN Pop /\ IF phase = "expand" THEN Expand(vertex) ELSE Reduce(vertex)
       ELSE UNCHANGED <<stack, queue, results>>
    /\ UNCHANGED <<input, phase, origin, seen, hot, edge, complete, outcome>>

\* The end of an iteration: with nothing pushed, the feature is processed.
EndVisit ==
    /\ Running /\ vertex # Nil /\ edge = 0
    /\ vertex' = Nil
    /\ IF complete
       THEN /\ Pop
            /\ hot' = hot \ {vertex}
            /\ IF phase = "expand" THEN Expand(vertex) ELSE Reduce(vertex)
       ELSE UNCHANGED <<stack, hot, queue, results>>
    /\ UNCHANGED <<input, phase, origin, seen, edge, complete, outcome>>

\* The end of expandFeatures: what one feature excludes must not be there.
EndExpansion ==
    /\ phase = "expand" /\ ~Searching /\ queue = <<>>
    /\ \/ \E f \in Elements(expanded) \cap collectedExcl : Fail("excluded", f)
       \/ /\ Elements(expanded) \cap collectedExcl = {}
          /\ phase' = "validate"
          /\ UNCHANGED outcome
    /\ UNCHANGED <<input, queue, search, results>>

Platforms == Those(expanded, {f \in Known : type[f] = "platform"})

Output(s) == [kind |-> "features", features |-> s]

\* What the commands print, but for cname.
Printed ==
    CASE cmd = "features" -> expanded
      [] cmd = "elements" -> FilterByType(expanded, {"platform", "element"})
      [] cmd = "flags"    -> FilterByType(expanded, {"flag"})
      [] cmd = "platform" -> Platforms
      [] cmd = "ignore"   -> Ascending(collectedIgn)

\* sortFeatures with validatePlatform, whose result only the command platform uses.
Validate ==
    /\ phase = "validate"
    /\ \/ \E f \in Unknown(expanded) : Fail("unknown", f) /\ UNCHANGED <<queue, results>>
       \/ /\ Len(Platforms) > 1 \/ (Unknown(expanded) = {} /\ Platforms = <<>>)
          /\ Fail("platforms", Nil) /\ UNCHANGED <<queue, results>>
       \/ /\ Unknown(expanded) = {} /\ Len(Platforms) = 1
          /\ IF cmd = "cname"
             THEN /\ phase' = "reduce"
                  /\ queue' = requested
                  /\ collectedExcl' = {}
                  /\ UNCHANGED <<expanded, collectedIgn, visited, minimal, outcome>>
             ELSE /\ phase' = "done"
                  /\ outcome' = Output(Printed)
                  /\ UNCHANGED <<queue, results>>
    /\ UNCHANGED <<input, search>>

\* The end of reduceFeatures, and of cname.
EndReduction ==
    /\ phase = "reduce" /\ ~Searching /\ queue = <<>>
    /\ \/ \E f \in visited \cap collectedExcl : Fail("excluded", f)
       \/ /\ visited \cap collectedExcl = {}
          /\ phase' = "done"
          /\ outcome' = Output(SortStrictly(minimal))
    /\ UNCHANGED <<input, queue, search, results>>
-----------------------------------------------------------------------------
Init ==
    /\ cmd \in Commands
    /\ include \in Includes /\ exclude \in Excludes /\ type \in Types
    /\ ignored \in Ignores
    /\ requested \in Requests
    /\ phase = "start" /\ queue = <<>>
    /\ origin = Nil /\ seen = {} /\ hot = {} /\ stack = <<>>
    /\ vertex = Nil /\ edge = 0 /\ complete = TRUE
    /\ expanded = <<>> /\ collectedIgn = {} /\ collectedExcl = {}
    /\ visited = {} /\ minimal = {}
    /\ outcome = Nil

Next ==
    \/ Start
    \/ TakeFeature
    \/ TakeForReduction
    \/ SkipIgnored
    \/ Visit
    \/ FollowEdge
    \/ FindLoop
    \/ EndVisit
    \/ EndExpansion
    \/ Validate
    \/ EndReduction

Spec == Init /\ [][Next]_vars

\* A program runs on.
FairSpec == Spec /\ WF_vars(Next)
-----------------------------------------------------------------------------
TypeOK ==
    /\ cmd \in Commands
    /\ include \in Includes /\ exclude \in Excludes /\ type \in Types
    /\ ignored \in Ignores /\ requested \in Requests
    /\ phase \in {"start", "expand", "validate", "reduce", "done", "failed"}
    /\ queue \in Seq(Feature \cup {Nil})
    /\ origin \in Feature \cup {Nil} /\ vertex \in Feature \cup {Nil}
    /\ edge \in Nat /\ complete \in BOOLEAN
    /\ seen \subseteq Feature /\ hot \subseteq Feature
    /\ stack \in Seq(Feature) /\ expanded \in Seq(Feature)
    /\ collectedIgn \subseteq Feature /\ collectedExcl \subseteq Feature
    /\ visited \subseteq Feature /\ minimal \subseteq Feature
    /\ \/ outcome = Nil
       \/ outcome \in [kind : {"unknown", "loop", "excluded", "platforms"}, feature : Feature \cup {Nil}]
       \/ outcome \in [kind : {"features"}, features : Seq(Feature)]

Wanted == Elements(requested)

\* The usage text of expandFeatures' commands: "each feature used, no duplicates".  A search that
\* is over has found what the features include, directly or not, except what is ignored and what
\* only ignored features include.
ExpansionIsClosure ==
    phase \in {"validate", "reduce", "done"} =>
        Elements(expanded) = Closure(include, ignored, Wanted)

NothingTwice ==
    \A i, j \in DOMAIN expanded : i # j => expanded[i] # expanded[j]

\* bin/garden-config lets a feature override the files and settings of those before it, so what a
\* feature includes has to come first.  The search is a post-order only where no list names a
\* feature after one that includes it: a feature is marked as seen when it is pushed.
IncludesComeFirst ==
    Tidy(include) =>
        \A i \in DOMAIN expanded : \A f \in Elements(include[expanded[i]]) \ ignored :
            \E j \in 1 .. i - 1 : expanded[j] = f

\* The error "... is part of a loop" is true.
LoopsAreReal ==
    phase = "failed" /\ outcome.kind = "loop" =>
        outcome.feature \in Included(include, ignored, outcome.feature)

\* cname prints the "effective minimum of features equivalent to specified features": the name of
\* an image depends on what is in it, not on how it was asked for.
CnameIsCanonical ==
    phase = "done" /\ cmd = "cname" =>
        /\ Closure(include, ignored, minimal) = Elements(expanded)
        /\ minimal = {f \in Elements(expanded) :
                        \A g \in Elements(expanded) : f \notin Included(include, ignored, g)}

\* The flavours that are asked for by platform and modifiers, as build_image.sh does.
AskedFor ==
    {[platform |-> p, modifiers |-> normalised_modifiers(include, p, Wanted \ {p})] :
        p \in {f \in Wanted \cap Known : type[f] = "platform"}}

\* The two programs agree: the image is made of the features that its release manifest and its
\* key say (GardenlinuxFlavourSet.flavours, normalised_modifiers, expandFeatures).
ImagesAreWhatTheirKeysSay ==
    phase = "done" /\ ignored = {} /\ Acyclic(include) =>
        \A f \in AskedFor :
            /\ Elements(expanded) = {f.platform} \cup f.modifiers
            /\ KeyTellsFlavour(include, f)

\* Whatever the features include, the program ends.
Terminates == <>(phase \in {"done", "failed"})
=============================================================================

---------------------------- MODULE FeatureNames ----------------------------
(***************************************************************************)
(* Flavours and the keys they are stored under, as ci/glci/model.py        *)
(* computes them.  A flavour is a platform and modifiers; its modifiers    *)
(* are normalised to all features it is made of, and its key names only    *)
(* those that no other modifier includes.  Version and commit, which end   *)
(* every key, are left out.                                                *)
(***************************************************************************)
EXTENDS FeatureGraph

\* The generator calls itself for each included feature: it ends in acyclic graphs only.
included_features(include, f) == Included(include, {}, f)

\* (mutant) what the platform includes is left out
normalised_modifiers_NoPlatform(include, platform, modifiers) ==
    modifiers \cup UNION {included_features(include, m) : m \in modifiers}

normalised_modifiers(include, platform, modifiers) ==
    modifiers \cup included_features(include, platform)
              \cup UNION {included_features(include, m) : m \in modifiers}

\* What the platform includes stays: the set the code takes away for it has the generator
\* and the names of the modifiers as its members, and none of the modifiers.
canonical_modifiers(include, platform, modifiers) ==
    modifiers \ UNION {included_features(include, m) : m \in modifiers}

canonical_release_manifest_key(include, platform, modifiers) ==
    <<platform, canonical_modifiers(include, platform, modifiers)>>

-----------------------------------------------------------------------------
\* The features named by a key.
Named(key) == {key[1]} \cup key[2]

\* The key of a flavour names enough to tell which features the flavour is made of, and nothing
\* that another named modifier brings anyway: two flavours with one key are one flavour
\* (canonicalised_features, canonical_release_manifest_key_suffix).
KeyTellsFlavour(include, f) ==
    LET key == canonical_release_manifest_key(include, f.platform, f.modifiers) IN
        /\ Closure(include, {}, Named(key)) = {f.platform} \cup f.modifiers
        /\ \A m, n \in key[2] : m \notin included_features(include, n)
=============================================================================

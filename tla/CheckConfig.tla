------------------------------ MODULE CheckConfig ------------------------------
(***************************************************************************)
(* How InitRegistry (pkg/validations/validation_engine.go) turns the lists  *)
(* of a configuration into the checks that are enabled: kube-linter's       *)
(* configresolver refuses unknown names, getValidChecks reads them from the *)
(* text of the error, takes them out of the lists in place and asks again.  *)
(*                                                                         *)
(* Module Checks has only the result; EnabledAsAsked says it is the same.   *)
(***************************************************************************)
EXTENDS Naturals, SequencesExt

CONSTANTS
    Name,        \* names a configuration may use
    BuiltIn,     \* those of the checks kube-linter ships
    Preloaded,   \* built-in checks AddAllBuiltIn enables
    Default,     \* kube-linter's defaults
    Awkward,     \* names with a comma: the pattern for the error misses them
    Quoted,      \* what the pattern reads where the error quotes a name
    Lists,       \* configurations that occur
    MaxDepth     \* calls of getValidChecks to itself that fit on Go's stack

(* include and exclude are sequences and may repeat names. *)
ListConfigs == [include : Seq(Name), exclude : Seq(Name), noDefaults : BOOLEAN,
                allBuiltIn : BOOLEAN, custom : SUBSET Name, loads : BOOLEAN]

(* Quoting tells names apart and leaves those of the built-in checks alone; *)
(* it writes a backslash before a quote or a backslash, and the pattern     *)
(* takes it for a part of the name.  A configuration is at most as large as *)
(* a ConfigMap may be, so removing its names one at a time fits the stack.  *)
ASSUME CheckConfigAssumption ==
    /\ BuiltIn \subseteq Name
    /\ Default \subseteq Preloaded
    /\ Preloaded \subseteq BuiltIn
    /\ Awkward \subseteq Name \ BuiltIn
    /\ DOMAIN Quoted = Name /\ IsInjective(Quoted)
    /\ \A n \in BuiltIn : Quoted[n] = n
    /\ Lists \subseteq ListConfigs
    /\ MaxDepth \in Nat \ {0}
    /\ \A c \in Lists : Len(c.include) + Len(c.exclude) < MaxDepth

VARIABLES
    resolution,   \* what InitRegistry does next, or how it ended
    asked,        \* the configuration as it was given to the engine
    include,      \* Checks.Include: its array, shared with Watcher.cfg, and length
    exclude,      \* Checks.Exclude
    missing,      \* texts read from the error and not removed yet
    depth,        \* calls of getValidChecks to itself that have not returned
    enabled       \* ve.enabledChecks

configVars == <<resolution, asked, include, exclude, missing, depth, enabled>>

Slice(s) == [array |-> s, len |-> Len(s)]
Slices == [array : Seq(Name), len : Nat]
View(slice) == SubSeq(slice.array, 1, slice.len)

NothingAsked == [include |-> <<>>, exclude |-> <<>>, noDefaults |-> FALSE,
                 allBuiltIn |-> FALSE, custom |-> {}, loads |-> TRUE]

CheckConfigTypeOK ==
    /\ resolution \in {"none", "ask", "remove", "done", "rejected"}
    /\ asked \in Lists \cup {NothingAsked}
    /\ {include, exclude} \subseteq Slices
    /\ include.len <= Len(include.array) /\ exclude.len <= Len(exclude.array)
    /\ missing \subseteq {Quoted[n] : n \in Name \ BuiltIn}
    /\ depth \in 0..MaxDepth
    /\ enabled \subseteq Name

CheckConfigInit ==
    /\ resolution = "none"
    /\ asked = NothingAsked
    /\ include = Slice(<<>>)
    /\ exclude = Slice(<<>>)
    /\ missing = {}
    /\ depth = 0
    /\ enabled = {}

-----------------------------------------------------------------------------
(* configresolver: exclude takes precedence over everything else. *)
Wanted(inc, exc, c) ==
    (   (IF c.noDefaults THEN {} ELSE Default)
    \cup (IF c.allBuiltIn THEN Preloaded ELSE {})
    \cup ToSet(inc)) \ ToSet(exc)

KnownFor(c) == BuiltIn \cup c.custom

Unknown(names) == names \ KnownFor(asked)

(* The names the error may list: the unknown ones that are enabled, and     *)
(* perhaps those of the exclude list as well.                               *)
Reportable ==
    LET wanted == Wanted(View(include), View(exclude), asked)
    IN  {Unknown(wanted), Unknown(wanted \cup ToSet(View(exclude)))}

(* SetConfig and the first half of InitRegistry: a configuration whose      *)
(* custom checks do not load is rejected before its lists are looked at.    *)
BeginResolution(c) ==
    /\ resolution' = IF c.loads THEN "ask" ELSE "rejected"
    /\ asked' = c
    /\ include' = Slice(c.include)
    /\ exclude' = Slice(c.exclude)
    /\ missing' = {}
    /\ depth' = 0
    /\ UNCHANGED enabled

(* getValidChecks has called the resolver, and has the stack to go on. *)
Asking == resolution = "ask" /\ depth < MaxDepth

(* The lists name known checks only: InitRegistry publishes the result.     *)
Resolved ==
    /\ Asking
    /\ {} \in Reportable
    /\ resolution' = "done"
    /\ enabled' = Wanted(View(include), View(exclude), asked)
    /\ UNCHANGED <<asked, include, exclude, missing, depth>>

(* The error matches nowhere: the configuration as a whole is rejected. *)
NotResolved ==
    /\ Asking
    /\ \E r \in Reportable : r # {} /\ r \subseteq Awkward
    /\ resolution' = "rejected"
    /\ UNCHANGED <<asked, include, exclude, missing, depth, enabled>>

NamesMissing ==
    /\ Asking
    /\ \E r \in Reportable : missing' = {Quoted[n] : n \in r \ Awkward}
    /\ missing' # {}
    /\ resolution' = "remove"
    /\ UNCHANGED <<asked, include, exclude, depth, enabled>>

(* Mutant: the name after the one that is removed goes as well. *)
Without_NextToo(slice, i) ==
    [array |-> [j \in DOMAIN slice.array |->
                  IF j \in i..(slice.len - 2) THEN slice.array[j + 2] ELSE slice.array[j]],
     len   |-> IF i < slice.len THEN slice.len - 2 ELSE slice.len - 1]

(* append(list[:i], list[i+1:]...): the rest moves down in the same array.  *)
Without(slice, i) ==
    [array |-> [j \in DOMAIN slice.array |->
                  IF j \in i..(slice.len - 1) THEN slice.array[j + 1] ELSE slice.array[j]],
     len   |-> slice.len - 1]

RemoveName(slice, n) == Without(slice, SelectInSeq(View(slice), LAMBDA x : x = n))

(* Mutants: the exclude list is not searched; a name that is not in the     *)
(* include list is removed from it all the same.                            *)
removeCheckFromConfig_IncludeOnly(n) ==
    /\ include' = IF n \in ToSet(View(include)) THEN RemoveName(include, n) ELSE include
    /\ UNCHANGED exclude

removeCheckFromConfig_NotFound(n) ==
    /\ include' = RemoveName(include, n)
    /\ UNCHANGED exclude

(* The first occurrence in include, and only if there is none in exclude.   *)
removeCheckFromConfig(n) ==
    \/ /\ n \in ToSet(View(include))
       /\ include' = RemoveName(include, n)
       /\ UNCHANGED exclude
    \/ /\ n \notin ToSet(View(include))
       /\ exclude' = IF n \in ToSet(View(exclude)) THEN RemoveName(exclude, n) ELSE exclude
       /\ UNCHANGED include

(* Mutant: the error is returned although its names were removed. *)
RemoveMissing_NoRetry(n) ==
    /\ resolution = "remove"
    /\ n \in missing
    /\ removeCheckFromConfig(n)
    /\ missing' = missing \ {n}
    /\ resolution' = IF missing' = {} THEN "rejected" ELSE "remove"
    /\ UNCHANGED <<asked, depth, enabled>>

(* One iteration of the loop over the matches, in the order of the error;   *)
(* after the last getValidChecks calls itself.                              *)
RemoveMissing(n) ==
    /\ resolution = "remove"
    /\ n \in missing
    /\ removeCheckFromConfig(n)
    /\ missing' = missing \ {n}
    /\ resolution' = IF missing' = {} THEN "ask" ELSE "remove"
    /\ depth' = IF missing' = {} THEN depth + 1 ELSE depth
    /\ UNCHANGED <<asked, enabled>>

Resolve == Resolved \/ NotResolved \/ NamesMissing \/ \E n \in missing : RemoveMissing(n)

-----------------------------------------------------------------------------
(* The unknown names of a configuration that are read back as others, which *)
(* getValidChecks therefore cannot remove.                                  *)
Misread(c) ==
    {n \in (ToSet(c.include) \cup ToSet(c.exclude)) \ (KnownFor(c) \cup Awkward) : Quoted[n] # n}

(* The configuration as the watcher and the engine see it in module Checks. *)
AsConfig(c) == [checks |-> Wanted(c.include, c.exclude, c), custom |-> c.custom,
                loads |-> c.loads]

Abstract == INSTANCE Checks WITH Check <- Name, Metered <- Preloaded,
                                 Config <- {AsConfig(c) : c \in Lists}

(* Whatever was misspelled or repeated, the checks enabled are the known    *)
(* ones among those the configuration asks for, exclude before include, and *)
(* the arrays that Watcher.cfg still holds, shortened in place, ask for the *)
(* same checks (getValidChecks, removeCheckFromConfig).  Nothing is claimed *)
(* where a name is misread: what is read may be the name of a custom check. *)
EnabledAsAsked ==
    resolution = "done" /\ Misread(asked) = {} =>
        LET again == [asked EXCEPT !.include = include.array, !.exclude = exclude.array]
        IN  /\ enabled = Abstract!getValidChecks(AsConfig(asked))
            /\ enabled = Abstract!getValidChecks(AsConfig(again))

(* A name the registry does not know never costs the configuration: it is   *)
(* rejected for custom checks that do not load, or for a name the pattern   *)
(* for the error misses, and for nothing else (getValidChecks).             *)
UnknownNamesIgnored ==
    resolution = "rejected" =>
        ~asked.loads \/ (ToSet(asked.include) \cup ToSet(asked.exclude)) \cap Awkward # {}
===============================================================================

----------------------------- MODULE ProcessProofs -----------------------------
(***************************************************************************)
(* Theorems about Process: how a configuration is resolved, in the arrays   *)
(* it shares with the watcher, and how the process ends.                    *)
(***************************************************************************)
EXTENDS Process, WellFoundedInduction, TLAPS

-----------------------------------------------------------------------------
(* Naturals are well-founded. *)
LEMMA SmallestOfSome ==
  ASSUME NEW S, S \subseteq Nat, S # {}
  PROVE  \E n \in S : \A m \in S : n <= m
<1> DEFINE R == OpToRel(<, Nat)
<1>1. \E x \in S : \A y \in S : ~ (<<y, x>> \in R)
  BY NatLessThanWellFounded, WFMin, Zenon
<1>2. \A x, y \in Nat : <<y, x>> \in R <=> y < x
  BY DEF OpToRel
<1>3. \A x, y \in S : ~ (<<y, x>> \in R) => ~ (y < x)
  BY <1>2, Zenon
<1>4. \E x \in S : \A y \in S : ~ (y < x)
  BY <1>1, <1>3, Zenon
<1> QED
  BY <1>4

(* A name that occurs in a list has a first place in it. *)
LEMMA FirstPlace ==
  ASSUME NEW s \in Seq(Name), NEW n \in ToSet(s)
  PROVE  /\ SelectInSeq(s, LAMBDA x : x = n) \in 1..Len(s)
         /\ s[SelectInSeq(s, LAMBDA x : x = n)] = n
<1> DEFINE I == {i \in 1..Len(s) : s[i] = n}
<1>1. I # {} /\ I \subseteq Nat
  BY DEF ToSet
<1>2. Min(I) \in I
  BY <1>1, SmallestOfSome DEF Min
<1>3. SelectInSeq(s, LAMBDA x : x = n) = Min(I)
  BY <1>1 DEF SelectInSeq
<1> QED
  BY <1>2, <1>3

(* A slice lies within its array. *)
Sound(slice) == slice \in Slices /\ slice.len <= Len(slice.array)

(* What a slice shows is the beginning of its array. *)
LEMMA ViewOf ==
  ASSUME NEW slice, Sound(slice)
  PROVE  /\ View(slice) \in Seq(Name)
         /\ Len(View(slice)) = slice.len
         /\ \A i \in 1..slice.len : View(slice)[i] = slice.array[i]
         /\ ToSet(View(slice)) = {slice.array[i] : i \in 1..slice.len}
         /\ ToSet(slice.array) = {slice.array[i] : i \in 1..Len(slice.array)}
<1>1. slice.array \in Seq(Name) /\ slice.len \in Nat /\ slice.len <= Len(slice.array)
  BY DEF Sound, Slices
<1>2. /\ View(slice) \in Seq(Name)
      /\ Len(View(slice)) = slice.len
      /\ \A i \in 1..slice.len : View(slice)[i] = slice.array[i]
  BY <1>1 DEF View
<1>3. DOMAIN View(slice) = 1..slice.len /\ DOMAIN slice.array = 1..Len(slice.array)
  BY <1>1, <1>2
<1> QED
  BY <1>2, <1>3 DEF ToSet

(* What is left of a list: nothing was added, and of the known names none   *)
(* was lost, neither in the slice nor in the array behind it.               *)
Keeps(slice, list, known) ==
    /\ ToSet(slice.array) \subseteq ToSet(list)
    /\ ToSet(list) \cap known \subseteq ToSet(View(slice))

(* To move the rest of an array down over one place loses what was there    *)
(* and nothing else.                                                        *)
LEMMA WithoutOne ==
  ASSUME NEW slice, Sound(slice), NEW i \in 1..slice.len
  PROVE  /\ Sound(Without(slice, i))
         /\ Without(slice, i).len = slice.len - 1
         /\ ToSet(Without(slice, i).array) \subseteq ToSet(slice.array)
         /\ ToSet(View(slice)) \subseteq ToSet(View(Without(slice, i))) \cup {slice.array[i]}
<1> DEFINE w == Without(slice, i)
           a == slice.array
<1>1. a \in Seq(Name) /\ slice.len \in Nat /\ slice.len <= Len(a) /\ DOMAIN a = 1..Len(a)
  BY DEF Sound, Slices
<1>2. /\ w.len = slice.len - 1
      /\ w.array = [j \in 1..Len(a) |-> IF j \in i..(slice.len - 1) THEN a[j + 1] ELSE a[j]]
  BY <1>1 DEF Without
<1>3. \A j \in 1..Len(a) : w.array[j] \in Name
  BY <1>1, <1>2
<1>4. w.array \in Seq(Name) /\ Len(w.array) = Len(a)
  BY <1>1, <1>2, <1>3
<1>5. w \in Slices
  BY <1>1, <1>2, <1>4 DEF Without, Slices
<1>6. Sound(w)
  BY <1>1, <1>2, <1>4, <1>5 DEF Sound
<1>s. /\ ToSet(View(w)) = {w.array[j] : j \in 1..w.len}
      /\ ToSet(w.array) = {w.array[j] : j \in 1..Len(a)}
      /\ ToSet(View(slice)) = {a[j] : j \in 1..slice.len}
      /\ ToSet(a) = {a[j] : j \in 1..Len(a)}
  BY <1>4, <1>6, ViewOf
<1> HIDE DEF w, a
<1>7. ToSet(w.array) \subseteq ToSet(a)
  BY <1>s, <1>1, <1>2
<1>8. ASSUME NEW j \in 1..slice.len, j # i
      PROVE  \E k \in 1..w.len : w.array[k] = a[j]
  <2>1. CASE j < i
    <3>1. j \in 1..w.len /\ j \notin i..(slice.len - 1) /\ j \in 1..Len(a)
      BY <2>1, <1>1, <1>2
    <3>2. w.array[j] = a[j]
      BY <3>1, <1>2
    <3> QED
      BY <3>1, <3>2
  <2>2. CASE j > i
    <3>1. j - 1 \in 1..w.len /\ j - 1 \in i..(slice.len - 1) /\ j - 1 \in 1..Len(a)
      BY <2>2, <1>1, <1>2
    <3>2. w.array[j - 1] = a[j]
      BY <3>1, <1>1, <1>2
    <3> QED
      BY <3>1, <3>2
  <2> QED
    BY <2>1, <2>2, <1>8
<1>9. ToSet(View(slice)) \subseteq ToSet(View(w)) \cup {a[i]}
  BY <1>s, <1>8
<1> QED
  BY <1>2, <1>6, <1>7, <1>9 DEF w, a

(* The removal of an unknown name keeps every known one, and loses one      *)
(* place and no other name.                                                 *)
LEMMA RemovalKeeps ==
  ASSUME NEW slice, Sound(slice), NEW list, NEW known, Keeps(slice, list, known),
         NEW n \in ToSet(View(slice)), n \notin known
  PROVE  /\ Sound(RemoveName(slice, n)) /\ Keeps(RemoveName(slice, n), list, known)
         /\ RemoveName(slice, n).len = slice.len - 1
         /\ ToSet(View(slice)) \subseteq ToSet(View(RemoveName(slice, n))) \cup {n}
<1> DEFINE i == SelectInSeq(View(slice), LAMBDA x : x = n)
<1>1. i \in 1..slice.len /\ View(slice)[i] = n
  BY ViewOf, FirstPlace
<1>2. slice.array[i] = n
  BY <1>1, ViewOf
<1>3. RemoveName(slice, n) = Without(slice, i)
  BY DEF RemoveName
<1> HIDE DEF i
<1> QED
  BY <1>1, <1>2, <1>3, WithoutOne DEF Keeps
-----------------------------------------------------------------------------
(* The names no removal may lose.  A name that is misread may stand for a   *)
(* known one, so nothing is sure where there is one.                        *)
Kept(c) == IF Misread(c) = {} THEN KnownFor(c) ELSE {}

(* Every call of getValidChecks to itself has cost the lists a place. *)
CallsAreBounded ==
    resolution \in {"ask", "remove"} /\ Misread(asked) = {} =>
        depth + include.len + exclude.len <= Len(asked.include) + Len(asked.exclude)

(* What is to be removed is in one of the lists, if it was read as it is    *)
(* written.                                                                 *)
DepthInv ==
    /\ resolution = "remove" => missing # {} /\ depth < MaxDepth
    /\ CallsAreBounded
    /\ resolution = "remove" /\ Misread(asked) = {} =>
          missing \subseteq ToSet(View(include)) \cup ToSet(View(exclude))

(* What the resolution of a configuration keeps true. *)
ResolutionInv ==
    /\ CheckConfigTypeOK
    /\ Sound(include) /\ Sound(exclude)
    /\ Keeps(include, asked.include, Kept(asked))
    /\ Keeps(exclude, asked.exclude, Kept(asked))
    /\ missing \cap Kept(asked) = {}
    /\ DepthInv
    /\ EnabledAsAsked
    /\ UnknownNamesIgnored

(* A configuration, also the empty one the engine starts with, is made of   *)
(* lists of names.                                                          *)
LEMMA AskedIsConfig ==
  ASSUME NEW c \in Lists \cup {NothingAsked}
  PROVE  /\ c \in ListConfigs
         /\ ToSet(c.include) \subseteq Name /\ ToSet(c.exclude) \subseteq Name
         /\ Len(c.include) + Len(c.exclude) < MaxDepth
<1>1. c \in ListConfigs
  <2>1. <<>> \in Seq(Name) /\ {} \in SUBSET Name
    OBVIOUS
  <2>2. NothingAsked \in ListConfigs
    BY <2>1, Zenon DEF NothingAsked, ListConfigs
  <2> QED
    BY <2>2, CheckConfigAssumption, Zenon
<1>2. c.include \in Seq(Name) /\ c.exclude \in Seq(Name)
  BY <1>1 DEF ListConfigs
<1>3. Len(c.include) + Len(c.exclude) < MaxDepth
  <2>1. CASE c \in Lists
    BY <2>1, CheckConfigAssumption
  <2>2. CASE c = NothingAsked
    <3>1. c.include = <<>> /\ c.exclude = <<>>
      BY <2>2 DEF NothingAsked
    <3>2. MaxDepth \in Nat \ {0}
      BY CheckConfigAssumption, Zenon
    <3> QED
      BY <3>1, <3>2
  <2> QED
    BY <2>1, <2>2
<1>4. ToSet(c.include) \subseteq Name /\ ToSet(c.exclude) \subseteq Name
  BY <1>2 DEF ToSet
<1> QED
  BY <1>1, <1>3, <1>4

(* The slice of a whole list. *)
LEMMA SliceOf ==
  ASSUME NEW s \in Seq(Name), NEW known
  PROVE  Sound(Slice(s)) /\ Keeps(Slice(s), s, known) /\ Slice(s).len = Len(s)
<1>1. Slice(s).array = s /\ Slice(s).len = Len(s) /\ Sound(Slice(s))
  BY DEF Slice, Slices, Sound
<1>2. ToSet(View(Slice(s))) = ToSet(s)
  BY <1>1, ViewOf
<1> QED
  BY <1>1, <1>2 DEF Keeps

(* An engine without a configuration has sound, empty lists. *)
LEMMA ResolutionInit == CheckConfigInit => ResolutionInv
<1> SUFFICES ASSUME CheckConfigInit PROVE ResolutionInv
  OBVIOUS
<1>1. Sound(include) /\ Sound(exclude)
      /\ Keeps(include, asked.include, Kept(asked))
      /\ Keeps(exclude, asked.exclude, Kept(asked))
  <2>1. <<>> \in Seq(Name)
    OBVIOUS
  <2>2. \A known : Sound(Slice(<<>>)) /\ Keeps(Slice(<<>>), <<>>, known)
    BY <2>1, SliceOf
  <2>3. asked.include = <<>> /\ asked.exclude = <<>>
        /\ include = Slice(<<>>) /\ exclude = Slice(<<>>)
    BY DEF CheckConfigInit, NothingAsked
  <2> QED
    BY <2>2, <2>3
<1>2. CheckConfigTypeOK
  BY <1>1, CheckConfigAssumption DEF CheckConfigInit, CheckConfigTypeOK, Sound
<1>3. EnabledAsAsked /\ UnknownNamesIgnored /\ missing = {} /\ DepthInv
  BY DEF CheckConfigInit, EnabledAsAsked, UnknownNamesIgnored, DepthInv, CallsAreBounded
<1> QED
  BY <1>1, <1>2, <1>3 DEF ResolutionInv

(* A new configuration is taken as it is given. *)
LEMMA BeginStep ==
  ASSUME ResolutionInv, NEW c \in Lists, BeginResolution(c)
  PROVE  ResolutionInv'
<1>1. c.include \in Seq(Name) /\ c.exclude \in Seq(Name)
  BY CheckConfigAssumption DEF ListConfigs
<1>2. Sound(include)' /\ Sound(exclude)'
      /\ Keeps(include, asked.include, Kept(asked))'
      /\ Keeps(exclude, asked.exclude, Kept(asked))'
  BY <1>1, SliceOf DEF BeginResolution
<1>3. CheckConfigTypeOK'
  BY <1>2, CheckConfigAssumption DEF BeginResolution, CheckConfigTypeOK, Sound, ResolutionInv
<1>4. EnabledAsAsked' /\ UnknownNamesIgnored' /\ missing' = {}
  BY DEF BeginResolution, EnabledAsAsked, UnknownNamesIgnored
<1>5. DepthInv'
  <2>1. include'.len = Len(c.include) /\ exclude'.len = Len(c.exclude)
    BY <1>1, SliceOf DEF BeginResolution
  <2>2. /\ asked' = c /\ depth' = 0 /\ resolution' # "remove"
        /\ Len(c.include) \in Nat /\ Len(c.exclude) \in Nat
    BY <1>1 DEF BeginResolution
  <2> QED
    BY <2>1, <2>2 DEF DepthInv, CallsAreBounded
<1> QED
  BY <1>2, <1>3, <1>4, <1>5 DEF ResolutionInv

(* A slice shows nothing that is not in its array. *)
LEMMA ViewWithin ==
  ASSUME NEW slice, Sound(slice)
  PROVE  ToSet(View(slice)) \subseteq ToSet(slice.array)
<1>1. slice.len \in Nat /\ Len(slice.array) \in Nat /\ slice.len <= Len(slice.array)
  BY DEF Sound, Slices
<1>2. /\ ToSet(View(slice)) = {slice.array[i] : i \in 1..slice.len}
      /\ ToSet(slice.array) = {slice.array[i] : i \in 1..Len(slice.array)}
  BY ViewOf
<1>3. 1..slice.len \subseteq 1..Len(slice.array)
  BY <1>1
<1> QED
  BY <1>2, <1>3

(* What is wanted and unknown was named in the lists. *)
LEMMA UnknownWasNamed ==
  ASSUME ResolutionInv, NEW r \in Reportable
  PROVE  /\ r \subseteq ToSet(asked.include) \cup ToSet(asked.exclude)
         /\ r \cap KnownFor(asked) = {}
         /\ r \subseteq Name \ BuiltIn
<1>1. /\ ToSet(View(include)) \subseteq ToSet(asked.include)
      /\ ToSet(View(exclude)) \subseteq ToSet(asked.exclude)
  BY ViewWithin DEF ResolutionInv, Keeps
<1>2. Default \subseteq KnownFor(asked) /\ Preloaded \subseteq KnownFor(asked)
      /\ BuiltIn \subseteq KnownFor(asked)
  BY CheckConfigAssumption DEF KnownFor
<1>3. ToSet(asked.include) \subseteq Name /\ ToSet(asked.exclude) \subseteq Name
  BY AskedIsConfig DEF ResolutionInv, CheckConfigTypeOK
<1> QED
  BY <1>1, <1>2, <1>3 DEF Reportable, Unknown, Wanted

(* When the resolver is content, every check that is wanted is known. *)
LEMMA ResolvedIsKnown ==
  ASSUME {} \in Reportable
  PROVE  Wanted(View(include), View(exclude), asked) \subseteq KnownFor(asked)
  BY DEF Reportable, Unknown

(* The checks a configuration asks for depend on the known names of its     *)
(* lists only, as long as no other check is wanted.                         *)
LEMMA EnabledFromKnown ==
  ASSUME ResolutionInv, Resolved
  PROVE  EnabledAsAsked'
<1>u. asked' = asked /\ include' = include /\ exclude' = exclude
  BY DEF Resolved
<1> SUFFICES ASSUME Misread(asked) = {} PROVE EnabledAsAsked'
  BY <1>u DEF EnabledAsAsked
<1> DEFINE known == KnownFor(asked)
           again == [asked EXCEPT !.include = include.array, !.exclude = exclude.array]
<1>1. /\ ToSet(View(include)) \subseteq ToSet(include.array)
      /\ ToSet(View(exclude)) \subseteq ToSet(exclude.array)
  BY ViewWithin DEF ResolutionInv
<1>2. /\ ToSet(View(include)) \cap known = ToSet(asked.include) \cap known
      /\ ToSet(View(exclude)) \cap known = ToSet(asked.exclude) \cap known
      /\ ToSet(include.array) \cap known = ToSet(asked.include) \cap known
      /\ ToSet(exclude.array) \cap known = ToSet(asked.exclude) \cap known
  BY <1>1 DEF ResolutionInv, Keeps, Kept
<1>3. Wanted(View(include), View(exclude), asked) \subseteq known
  BY ResolvedIsKnown DEF Resolved
<1>4. /\ asked \in ListConfigs
      /\ again.include = include.array /\ again.exclude = exclude.array
      /\ again.noDefaults = asked.noDefaults /\ again.allBuiltIn = asked.allBuiltIn
      /\ again.custom = asked.custom
  BY AskedIsConfig DEF ResolutionInv, CheckConfigTypeOK, ListConfigs
<1> HIDE DEF again, known
<1>5. /\ Wanted(asked.include, asked.exclude, asked) \cap known
          = Wanted(View(include), View(exclude), asked)
      /\ Wanted(again.include, again.exclude, again) \cap known
          = Wanted(View(include), View(exclude), asked)
  BY <1>2, <1>3, <1>4 DEF Wanted
<1>6. \A c : Abstract!getValidChecks(AsConfig(c))
               = Wanted(c.include, c.exclude, c) \cap (BuiltIn \cup c.custom)
  BY DEF Abstract!getValidChecks, Abstract!RegistryFor, AsConfig
<1>7. known = BuiltIn \cup asked.custom /\ known = BuiltIn \cup again.custom
  BY <1>4 DEF known, KnownFor
<1>8. /\ enabled' = Wanted(View(include), View(exclude), asked)
      /\ UNCHANGED <<asked, include, exclude>>
  BY DEF Resolved
<1>9. /\ enabled' = Abstract!getValidChecks(AsConfig(asked))
      /\ enabled' = Abstract!getValidChecks(AsConfig(again))
  BY <1>5, <1>6, <1>7, <1>8
<1> QED
  BY <1>8, <1>9 DEF EnabledAsAsked, again

(* Numbers: as many calls as the lists have places fit the stack. *)
LEMMA BudgetLeft ==
  ASSUME NEW d \in Nat, NEW x \in Nat, NEW y \in Nat, NEW p \in Nat, NEW q \in Nat, NEW m \in Nat,
         d + x + y <= p + q, p + q < m
  PROVE  d # m
  OBVIOUS

(* One removal from the lists: both stay sound and keep the known names; a  *)
(* name that is in them costs them one place, and they lose no other.       *)
LEMMA RemoveOne ==
  ASSUME ResolutionInv, NEW n \in missing, removeCheckFromConfig(n), UNCHANGED asked
  PROVE  /\ Sound(include)' /\ Sound(exclude)'
         /\ Keeps(include, asked.include, Kept(asked))'
         /\ Keeps(exclude, asked.exclude, Kept(asked))'
         /\ n \in ToSet(View(include)) \cup ToSet(View(exclude)) =>
              include'.len + exclude'.len = include.len + exclude.len - 1
         /\ ToSet(View(include)) \cup ToSet(View(exclude))
              \subseteq ToSet(View(include')) \cup ToSet(View(exclude')) \cup {n}
<1>1. n \notin Kept(asked) /\ Kept(asked)' = Kept(asked)
  BY DEF ResolutionInv
<1>n. include.len \in Nat /\ exclude.len \in Nat
  BY DEF ResolutionInv, Sound, Slices
<1>2. CASE n \in ToSet(View(include))
  <2>1. include' = RemoveName(include, n) /\ exclude' = exclude
    BY <1>2 DEF removeCheckFromConfig
  <2>2. /\ Sound(RemoveName(include, n))
        /\ Keeps(RemoveName(include, n), asked.include, Kept(asked))
        /\ RemoveName(include, n).len = include.len - 1
        /\ ToSet(View(include)) \subseteq ToSet(View(RemoveName(include, n))) \cup {n}
    BY <1>1, <1>2, RemovalKeeps DEF ResolutionInv
  <2> QED
    BY <1>1, <1>n, <2>1, <2>2 DEF ResolutionInv
<1>3. CASE n \notin ToSet(View(include))
  <2>1. /\ exclude' = IF n \in ToSet(View(exclude)) THEN RemoveName(exclude, n) ELSE exclude
        /\ include' = include
    BY <1>3 DEF removeCheckFromConfig
  <2>2. CASE n \in ToSet(View(exclude))
    <3>1. /\ Sound(RemoveName(exclude, n))
          /\ Keeps(RemoveName(exclude, n), asked.exclude, Kept(asked))
          /\ RemoveName(exclude, n).len = exclude.len - 1
          /\ ToSet(View(exclude)) \subseteq ToSet(View(RemoveName(exclude, n))) \cup {n}
      BY <1>1, <2>2, RemovalKeeps DEF ResolutionInv
    <3> QED
      BY <1>1, <1>n, <2>1, <2>2, <3>1 DEF ResolutionInv
  <2>3. CASE n \notin ToSet(View(exclude))
    BY <1>1, <1>3, <2>1, <2>3 DEF ResolutionInv
  <2> QED
    BY <2>2, <2>3
<1> QED
  BY <1>2, <1>3

(* What is read from the error is unknown, and named in the lists as they   *)
(* are now, if it is read as it is written.                                 *)
LEMMA ReadFromError ==
  ASSUME ResolutionInv, NEW r \in Reportable
  PROVE  LET read == {Quoted[n] : n \in r \ Awkward}
         IN  /\ read \subseteq {Quoted[n] : n \in Name \ BuiltIn}
             /\ read \cap Kept(asked) = {}
             /\ Misread(asked) = {} =>
                  read \subseteq ToSet(View(include)) \cup ToSet(View(exclude))
<1> DEFINE read == {Quoted[n] : n \in r \ Awkward}
<1>1. /\ r \subseteq ToSet(asked.include) \cup ToSet(asked.exclude)
      /\ r \cap KnownFor(asked) = {}
      /\ r \subseteq Name \ BuiltIn
  BY UnknownWasNamed
<1>2. read \subseteq {Quoted[n] : n \in Name \ BuiltIn}
  BY <1>1
<1>3. ASSUME Misread(asked) = {} PROVE read = r \ Awkward
  <2>1. \A n \in r \ Awkward : Quoted[n] = n
    BY <1>1, <1>3 DEF Misread
  <2> QED
    BY <2>1
<1>4. r \subseteq ToSet(View(include)) \cup ToSet(View(exclude))
  <2>1. Default \subseteq KnownFor(asked) /\ Preloaded \subseteq KnownFor(asked)
    BY CheckConfigAssumption DEF KnownFor
  <2> QED
    BY <2>1 DEF Reportable, Unknown, Wanted
<1>5. read \cap Kept(asked) = {}
  BY <1>1, <1>3 DEF Kept
<1> QED
  BY <1>2, <1>3, <1>4, <1>5

(* Every step of InitRegistry keeps the lists sound. *)
LEMMA ResolveStep ==
  ASSUME ResolutionInv, Resolve
  PROVE  ResolutionInv'
<1>1. CASE Resolved
  <2>1. EnabledAsAsked'
    BY <1>1, EnabledFromKnown
  <2>2. enabled' \subseteq Name
    <3>1. Wanted(View(include), View(exclude), asked) \subseteq KnownFor(asked)
      BY <1>1, ResolvedIsKnown DEF Resolved
    <3>2. KnownFor(asked) \subseteq Name
      BY CheckConfigAssumption, AskedIsConfig
      DEF KnownFor, ListConfigs, ResolutionInv, CheckConfigTypeOK
    <3> QED
      BY <1>1, <3>1, <3>2 DEF Resolved
  <2>3. UNCHANGED <<asked, include, exclude, missing, depth>> /\ resolution' = "done"
    BY <1>1 DEF Resolved
  <2>4. DepthInv'
    BY <2>3 DEF DepthInv, CallsAreBounded
  <2> QED
    BY <2>1, <2>2, <2>3, <2>4
    DEF ResolutionInv, CheckConfigTypeOK, UnknownNamesIgnored, Keeps, Sound, View
<1>2. CASE NotResolved
  <2>1. /\ UNCHANGED <<asked, include, exclude, missing, depth, enabled>>
        /\ resolution' = "rejected"
    BY <1>2 DEF NotResolved
  <2>2. (ToSet(asked.include) \cup ToSet(asked.exclude)) \cap Awkward # {}
    BY <1>2, UnknownWasNamed DEF NotResolved
  <2>3. DepthInv'
    BY <2>1 DEF DepthInv, CallsAreBounded
  <2> QED
    BY <2>1, <2>2, <2>3
    DEF ResolutionInv, CheckConfigTypeOK, EnabledAsAsked, UnknownNamesIgnored, Keeps, Sound, View
<1>3. CASE NamesMissing
  <2>1. /\ UNCHANGED <<asked, include, exclude, depth, enabled>>
        /\ resolution = "ask" /\ resolution' = "remove"
        /\ missing' # {} /\ depth < MaxDepth
    BY <1>3 DEF NamesMissing, Asking
  <2>2. /\ missing' \subseteq {Quoted[n] : n \in Name \ BuiltIn}
        /\ missing' \cap Kept(asked) = {}
        /\ Misread(asked) = {} =>
             missing' \subseteq ToSet(View(include)) \cup ToSet(View(exclude))
    BY <1>3, ReadFromError DEF NamesMissing
  <2>3. DepthInv'
    BY <2>1, <2>2 DEF DepthInv, CallsAreBounded, ResolutionInv
  <2> QED
    BY <2>1, <2>2, <2>3
    DEF ResolutionInv, CheckConfigTypeOK, EnabledAsAsked, UnknownNamesIgnored, Keeps, Sound, View
<1>4. ASSUME NEW n \in missing, RemoveMissing(n) PROVE ResolutionInv'
  <2>1. /\ UNCHANGED <<asked, enabled>> /\ resolution = "remove"
        /\ missing' = missing \ {n}
        /\ resolution' = IF missing' = {} THEN "ask" ELSE "remove"
        /\ depth' = IF missing' = {} THEN depth + 1 ELSE depth
    BY <1>4 DEF RemoveMissing
  <2>2. /\ Sound(include)' /\ Sound(exclude)'
        /\ Keeps(include, asked.include, Kept(asked))'
        /\ Keeps(exclude, asked.exclude, Kept(asked))'
        /\ n \in ToSet(View(include)) \cup ToSet(View(exclude)) =>
             include'.len + exclude'.len = include.len + exclude.len - 1
        /\ ToSet(View(include)) \cup ToSet(View(exclude))
             \subseteq ToSet(View(include')) \cup ToSet(View(exclude')) \cup {n}
    BY <1>4, <2>1, RemoveOne DEF RemoveMissing
  <2>t. /\ depth \in Nat /\ depth < MaxDepth /\ MaxDepth \in Nat
        /\ include.len \in Nat /\ exclude.len \in Nat
        /\ include'.len \in Nat /\ exclude'.len \in Nat
    BY <2>1, <2>2, CheckConfigAssumption
    DEF ResolutionInv, CheckConfigTypeOK, DepthInv, Sound, Slices
  <2>3. CheckConfigTypeOK'
    BY <2>1, <2>2, <2>t DEF ResolutionInv, CheckConfigTypeOK, Sound
  <2>4. EnabledAsAsked' /\ UnknownNamesIgnored' /\ (missing \cap Kept(asked))' = {}
    BY <2>1 DEF ResolutionInv, EnabledAsAsked, UnknownNamesIgnored
  <2>5. DepthInv'
    <3>1. resolution' = "remove" => missing' # {} /\ depth' < MaxDepth
      BY <2>1, <2>t
    <3>2. ASSUME Misread(asked) = {}
          PROVE  /\ depth' + include'.len + exclude'.len
                      <= Len(asked.include) + Len(asked.exclude)
                 /\ missing' \subseteq ToSet(View(include')) \cup ToSet(View(exclude'))
      <4>1. missing \subseteq ToSet(View(include)) \cup ToSet(View(exclude))
        BY <2>1, <3>2 DEF ResolutionInv, DepthInv, CallsAreBounded
      <4>2. include'.len + exclude'.len = include.len + exclude.len - 1
        BY <2>2, <4>1
      <4>3. depth' <= depth + 1
        BY <2>1, <2>t
      <4>4. depth + include.len + exclude.len <= Len(asked.include) + Len(asked.exclude)
        BY <2>1, <3>2 DEF ResolutionInv, DepthInv, CallsAreBounded
      <4>5. depth' \in Nat
        BY <2>1, <2>t
      <4>6. Len(asked.include) \in Nat /\ Len(asked.exclude) \in Nat
        <5>1. asked \in ListConfigs
          BY AskedIsConfig DEF ResolutionInv, CheckConfigTypeOK
        <5> QED
          BY <5>1 DEF ListConfigs
      <4>7. missing' \subseteq ToSet(View(include')) \cup ToSet(View(exclude'))
        BY <2>1, <2>2, <4>1
      <4>8. depth' + include'.len + exclude'.len <= Len(asked.include) + Len(asked.exclude)
        <5>1. \A p, q \in Nat : depth + include.len + exclude.len <= p + q
                 => depth' + include'.len + exclude'.len <= p + q
          BY <2>t, <4>2, <4>3, <4>5
        <5> QED
          BY <4>4, <4>6, <5>1, Zenon
      <4> QED
        BY <4>7, <4>8
    <3> QED
      BY <2>1, <3>1, <3>2 DEF DepthInv, CallsAreBounded
  <2> QED
    BY <2>2, <2>3, <2>4, <2>5 DEF ResolutionInv
<1> QED
  BY <1>1, <1>2, <1>3, <1>4 DEF Resolve

(* Where no name is misread the stack is not used up. *)
LEMMA OverflowIsMisread ==
  ASSUME ResolutionInv, resolution = "ask", depth = MaxDepth
  PROVE  Misread(asked) # {}
<1> SUFFICES ASSUME Misread(asked) = {} PROVE FALSE
  OBVIOUS
<1>1. depth + include.len + exclude.len <= Len(asked.include) + Len(asked.exclude)
  BY DEF ResolutionInv, DepthInv, CallsAreBounded
<1>2. Len(asked.include) + Len(asked.exclude) < MaxDepth /\ asked \in ListConfigs
  BY AskedIsConfig DEF ResolutionInv, CheckConfigTypeOK
<1>3. /\ include.len \in Nat /\ exclude.len \in Nat /\ MaxDepth \in Nat
      /\ Len(asked.include) \in Nat /\ Len(asked.exclude) \in Nat
  BY <1>2, CheckConfigAssumption DEF ResolutionInv, Sound, Slices, ListConfigs
<1>4. depth \in Nat
  BY <1>3
<1>5. depth # MaxDepth
  BY <1>1, <1>2, <1>3, <1>4, BudgetLeft, Zenon
<1> QED
  BY <1>5

(* A step that leaves the configuration alone. *)
LEMMA ResolutionStays == ResolutionInv /\ UNCHANGED configVars => ResolutionInv'
  BY DEF configVars, ResolutionInv, CheckConfigTypeOK, EnabledAsAsked, UnknownNamesIgnored,
         DepthInv, CallsAreBounded, Keeps, Sound, View

-----------------------------------------------------------------------------
(* Why the manager is on its way out: a signal, an interval that is refused, *)
(* or a metrics server that failed.                                         *)
Cause == signals > 0 \/ "interval_malformed" \in bad \/ servingFailed

(* The goroutine that serves and Start: what each may rely on. *)
ServerInv ==
    /\ server = "idle" => serving = "none" /\ ~closed
    /\ server = "returned" => serving = "ended"
    /\ serving \in {"send", "close", "ended"} => servingFailed \/ closed
    /\ serverError => servingFailed \/ closed
    /\ closed => cancelled

(* The manager: nothing is up before it starts, and its context is done for *)
(* a reason.                                                                *)
ManagerInv ==
    /\ stage \in {"setup", "resolving"} => ~cancelled /\ updates = 0
    /\ stage \in {"setup", "resolving"} => updater = "idle"
    /\ stage = "resolving" => step <= Len(SetUpSteps)
    /\ stage = "running" /\ cancelled => signals > 0
    /\ stage = "stopping" => Cause /\ (mgrError \/ signals > 0)
    /\ reconciler = "failed" => "interval_malformed" \in bad
    /\ exitCode # Alive <=> stage = "exited"

ProcessInv ==
    /\ ProcessTypeOK
    /\ ResolutionInv
    /\ ServerInv
    /\ ManagerInv
    /\ CleanExit
    /\ ExitHasCause

(* setupManager has finitely many steps. *)
LEMMA StepCount == Len(SetUpSteps) \in Nat
  BY DEF SetUpSteps

(* No step of setupManager reads the interval. *)
LEMMA NoStepReadsInterval ==
  \A i \in 1..Len(SetUpSteps) : SetUpSteps[i] # "interval_not_positive"
  BY DEF SetUpSteps

(* main begins with the invariant. *)
LEMMA ProcessInit == Init => ProcessInv
<1> SUFFICES ASSUME Init PROVE ProcessInv
  OBVIOUS
<1>1. ResolutionInv
  BY ResolutionInit DEF Init
<1>2. ProcessTypeOK
  <2>1. CheckConfigTypeOK
    BY <1>1 DEF ResolutionInv
  <2>2. ServerTypeOK
    BY DEF Init, ServerInit, ServerTypeOK
  <2>3. step \in 1..(Len(SetUpSteps) + 1) /\ updates \in 0..MaxUpdates /\ signals \in 0..2
        /\ exitCode \in {Alive, 0, 1, Panicked, KilledBySignal}
    BY StepCount, ProcessAssumption DEF Init, Alive
  <2>4. mgrError \in BOOLEAN /\ tombstone \in BOOLEAN
    BY DEF Init
  <2>5. /\ stage \in {"setup", "resolving", "running", "stopping", "exited"}
        /\ bad \in BadSettings /\ file \in Lists \cup {NoFile, Unreadable}
        /\ reconciler \in {"idle", "starting", "looping", "failed", "returned"}
        /\ updater \in {"idle", "wait", "init", "stopped"}
    BY DEF Init
  <2> QED
    BY <2>1, <2>2, <2>3, <2>4, <2>5 DEF ProcessTypeOK
<1>3. ServerInv /\ ManagerInv /\ CleanExit /\ ExitHasCause
  BY StepCount
  DEF Init, ServerInit, ServerInv, ManagerInv, CleanExit, ExitHasCause, Alive, Cause
<1> QED
  BY <1>1, <1>2, <1>3 DEF ProcessInv

(* Whatever a step does to the lists, it is InitRegistry's. *)
LEMMA ProcessResolution == ProcessInv /\ [Next]_vars => ResolutionInv'
<1> SUFFICES ASSUME ProcessInv, [Next]_vars PROVE ResolutionInv'
  OBVIOUS
<1>1. CASE LoadConfig
  <2>1. (IF file = NoFile THEN GetDefaultChecks ELSE file) \in Lists
    BY <1>1, ProcessAssumption DEF LoadConfig, ProcessInv, ProcessTypeOK
  <2> QED
    BY <1>1, <2>1, BeginStep DEF LoadConfig, ProcessInv
<1>2. CASE \E c \in Lists : ConfigChanged(c)
  BY <1>2, BeginStep DEF ConfigChanged, ProcessInv
<1>3. CASE InitRegistryStep
  BY <1>3, ResolveStep DEF InitRegistryStep, ProcessInv
<1>4. ASSUME ~ LoadConfig, ~ (\E c \in Lists : ConfigChanged(c)), ~ InitRegistryStep
      PROVE  UNCHANGED configVars
  BY <1>4 DEF Next, vars, SetUp, SetUpGoes, SetUpFails, LoadConfigFails, NewValidationEngine,
     NewValidationEngineFails, StartManager, MetricsServerStep, ServingFails, ReconcilerStep,
     StartReconciler, NewTickerPanics, ReconcilerReturns, BesideReconciler, UpdaterStep,
     EndUpdate, StopUpdates, StackOverflows, DeletionMissed, DeleteFuncPanics, Signal, Manager, StopOnError, StopOnSignal, EndProcess,
     GraceTimeout, BesideManager
<1> QED
  BY <1>1, <1>2, <1>3, <1>4, ResolutionStays DEF ProcessInv

(* Types, causes and the order of the way out, beside the lists. *)
Ending ==
    /\ ProcessTypeOK /\ ServerInv /\ ManagerInv /\ CleanExit /\ ExitHasCause

(* The steps of setupManager. *)
LEMMA SetUpEnding ==
  ASSUME Ending, ResolutionInv, CheckConfigTypeOK', SetUp \/ InitRegistryStep \/ StackOverflows
  PROVE  Ending'
<1> USE StepCount, NoStepReadsInterval, ProcessAssumption
    DEF Ending, ProcessTypeOK, ServerTypeOK, ServerInv, ManagerInv, CleanExit, ExitHasCause,
        PanicSettings, Cause, Alive, Panicked, Exit, BesideSetUp, serverVars, KilledBySignal
<1>1. CASE SetUpGoes
  BY <1>1 DEF SetUpGoes, configVars
<1>2. CASE SetUpFails
  BY <1>2 DEF SetUpFails, configVars
<1>3. CASE LoadConfig
  BY <1>3 DEF LoadConfig, AtConfigFile
<1>4. CASE LoadConfigFails
  BY <1>4 DEF LoadConfigFails, AtConfigFile
<1>5. CASE NewValidationEngine
  BY <1>5 DEF NewValidationEngine, configVars
<1>6. CASE NewValidationEngineFails
  BY <1>6 DEF NewValidationEngineFails, configVars
<1>7. CASE StartManager
  BY <1>7 DEF StartManager, configVars
<1>8. CASE InitRegistryStep
  <2>1. /\ stage # "exited"
        /\ UNCHANGED <<stage, step, exitCode, cancelled, serverVars, bad, file, reconciler,
                       updater, updates, tombstone, signals, mgrError>>
    BY <1>8 DEF InitRegistryStep
  <2> QED
    BY <2>1
<1>9. CASE StackOverflows
  <2>1. Misread(asked) # {}
    BY <1>9, OverflowIsMisread DEF StackOverflows
  <2> QED
    BY <1>9, <2>1 DEF StackOverflows, configVars
<1> QED
  BY <1>1, <1>2, <1>3, <1>4, <1>5, <1>6, <1>7, <1>8, <1>9 DEF SetUp

(* The metrics server and its goroutine. *)
LEMMA ServerEnding ==
  ASSUME Ending, CheckConfigTypeOK', MetricsServerStep \/ ServingFails
  PROVE  Ending'
<1> USE StepCount, ProcessAssumption
    DEF Ending, ProcessTypeOK, ServerTypeOK, ServerInv, ManagerInv, CleanExit, ExitHasCause,
        PanicSettings, Cause, Alive, Panicked, Exit, Up, serverVars, configVars, KilledBySignal
<1>1. CASE MetricsServerStep /\ ServerStart
  BY <1>1 DEF MetricsServerStep, ServerStart
<1>2. CASE MetricsServerStep /\ Listen
  BY <1>2 DEF MetricsServerStep, Listen
<1>3. CASE MetricsServerStep /\ ServeClosed
  BY <1>3 DEF MetricsServerStep, ServeClosed
<1>4. CASE MetricsServerStep /\ ReceiveError
  BY <1>4 DEF MetricsServerStep, ReceiveError
<1>5. CASE MetricsServerStep /\ CloseServer
  BY <1>5 DEF MetricsServerStep, CloseServer
<1>6. CASE MetricsServerStep /\ DrainError
  BY <1>6 DEF MetricsServerStep, DrainError
<1>7. CASE MetricsServerStep /\ CloseChannel
  BY <1>7 DEF MetricsServerStep, CloseChannel
<1>8. CASE MetricsServerStep /\ ServerReturn
  BY <1>8 DEF MetricsServerStep, ServerReturn
<1>9. CASE ServingFails
  BY <1>9 DEF ServingFails, ServeFails
<1> QED
  BY <1>1, <1>2, <1>3, <1>4, <1>5, <1>6, <1>7, <1>8, <1>9 DEF MetricsServerStep, ServerStep

(* The reconciler's Start, LookForConfigUpdates and the watcher. *)
LEMMA RunnableEnding ==
  ASSUME Ending, CheckConfigTypeOK', ReconcilerStep \/ UpdaterStep \/ (\E c \in Lists : ConfigChanged(c))
                                      \/ DeletionMissed \/ DeleteFuncPanics
  PROVE  Ending'
<1> USE StepCount, ProcessAssumption
    DEF Ending, ProcessTypeOK, ServerTypeOK, ServerInv, ManagerInv, CleanExit, ExitHasCause,
        PanicSettings, Cause, Alive, Panicked, Exit, Up, serverVars, configVars, KilledBySignal
<1>1. CASE StartReconciler
  BY <1>1 DEF StartReconciler, BesideReconciler
<1>2. CASE NewTickerPanics
  BY <1>2 DEF NewTickerPanics, BesideReconciler
<1>3. CASE ReconcilerReturns
  BY <1>3 DEF ReconcilerReturns, BesideReconciler
<1>4. CASE EndUpdate
  BY <1>4 DEF EndUpdate, BesideUpdater
<1>5. CASE StopUpdates
  BY <1>5 DEF StopUpdates, BesideUpdater
<1>6. CASE \E c \in Lists : ConfigChanged(c)
  BY <1>6 DEF ConfigChanged, BesideUpdater
<1>7. CASE DeletionMissed
  BY <1>7 DEF DeletionMissed
<1>8. CASE DeleteFuncPanics
  BY <1>8 DEF DeleteFuncPanics
<1> QED
  BY <1>1, <1>2, <1>3, <1>4, <1>5, <1>6, <1>7, <1>8 DEF ReconcilerStep, UpdaterStep

(* Signals and the manager. *)
LEMMA ManagerEnding ==
  ASSUME Ending, CheckConfigTypeOK', Signal \/ Manager \/ GraceTimeout
  PROVE  Ending'
<1> USE StepCount, ProcessAssumption
    DEF Ending, ProcessTypeOK, ServerTypeOK, ServerInv, ManagerInv, CleanExit, ExitHasCause,
        PanicSettings, Cause, Alive, Panicked, Exit, Up, serverVars, configVars, KilledBySignal
<1>1. CASE Signal
  <2>1. /\ stage # "exited" /\ signals' = signals + 1 /\ signals' \in 0..2
        /\ UNCHANGED <<configVars, serverVars, step, bad, file, reconciler, updater, updates,
                       tombstone, mgrError>>
    BY <1>1 DEF Signal, BesideManager
  <2>2. \/ Exit(KilledBySignal) /\ UNCHANGED cancelled
        \/ Up /\ cancelled' = TRUE /\ UNCHANGED <<stage, exitCode>>
        \/ Exit(1) /\ UNCHANGED cancelled
    BY <1>1 DEF Signal
  <2>3. ProcessTypeOK'
    <3>1. ServerTypeOK'
      BY <2>1, <2>2
    <3>2. /\ stage' \in {"setup", "resolving", "running", "stopping", "exited"}
          /\ exitCode' \in {Alive, 0, 1, Panicked, KilledBySignal}
      BY <2>2
    <3>3. /\ bad' \in BadSettings /\ file' \in Lists \cup {NoFile, Unreadable}
          /\ step' \in 1..(Len(SetUpSteps) + 1) /\ updates' \in 0..MaxUpdates
          /\ mgrError' \in BOOLEAN /\ tombstone' \in BOOLEAN
      BY <2>1
    <3> QED
      BY <2>1, <3>1, <3>2, <3>3
  <2>4. ServerInv'
    BY <2>1, <2>2
  <2>5. ManagerInv'
    BY <2>1, <2>2
  <2>6. CleanExit' /\ ExitHasCause'
    BY <2>1, <2>2
  <2> QED
    BY <2>3, <2>4, <2>5, <2>6
<1>2. CASE StopOnError
  BY <1>2 DEF StopOnError, RunnableFailed, BesideManager
<1>3. CASE StopOnSignal
  BY <1>3 DEF StopOnSignal, BesideManager
<1>4. CASE EndProcess
  BY <1>4 DEF EndProcess, RunnablesEnded, BesideManager
<1>5. CASE GraceTimeout
  BY <1>5 DEF GraceTimeout, BesideManager
<1> QED
  BY <1>1, <1>2, <1>3, <1>4, <1>5 DEF Manager

(* Every step of the process keeps the invariant. *)
LEMMA ProcessStep == ProcessInv /\ [Next]_vars => ProcessInv'
<1> SUFFICES ASSUME ProcessInv, [Next]_vars PROVE ProcessInv'
  OBVIOUS
<1>1. ResolutionInv'
  BY ProcessResolution
<1>2. CheckConfigTypeOK' /\ Ending /\ ResolutionInv
  BY <1>1 DEF ResolutionInv, ProcessInv, Ending
<1>3. CASE UNCHANGED vars
  BY <1>1, <1>2, <1>3
  DEF vars, serverVars, configVars, ProcessInv, Ending, ProcessTypeOK, ServerTypeOK, ServerInv,
      ManagerInv, CleanExit, ExitHasCause, Cause
<1>4. CASE Next
  <2>1. Ending'
    BY <1>2, <1>4, SetUpEnding, ServerEnding, RunnableEnding, ManagerEnding, Zenon DEF Next
  <2> QED
    BY <1>1, <2>1 DEF ProcessInv, Ending
<1> QED
  BY <1>3, <1>4

(* The invariant of the process, from which the theorems follow. *)
LEMMA ProcessInvariant == Spec => []ProcessInv
<1>1. Init => ProcessInv
  BY ProcessInit
<1>2. ProcessInv /\ [Next]_vars => ProcessInv'
  BY ProcessStep
<1> QED
  BY <1>1, <1>2, PTL DEF Spec

-----------------------------------------------------------------------------
(* The state of set-up, of the resolution of configurations, of the server  *)
(* and of the goroutines is well-typed in every reachable state; the slices *)
(* of Checks never reach beyond their arrays (removeCheckFromConfig).       *)
THEOREM ProcessTypeCorrect == Spec => []ProcessTypeOK
<1>1. ProcessInv => ProcessTypeOK
  BY DEF ProcessInv
<1> QED
  BY <1>1, ProcessInvariant, PTL

(* For every configuration, whatever it misspells or repeats, if none of its *)
(* names is misread, getValidChecks ends with the known checks it asks for, *)
(* and removeCheckFromConfig leaves arrays that ask for the same.           *)
THEOREM ChecksAreAsAsked == Spec => []EnabledAsAsked
<1>1. ProcessInv => EnabledAsAsked
  BY DEF ProcessInv, ResolutionInv
<1> QED
  BY <1>1, ProcessInvariant, PTL

(* If no name of a configuration is misread, getValidChecks calls itself at  *)
(* most as often as its lists have places: each call has cost them one      *)
(* (removeCheckFromConfig), whatever the resolver names and in what order.  *)
THEOREM RecursionIsBounded == Spec => []CallsAreBounded
<1>1. ProcessInv => CallsAreBounded
  BY DEF ProcessInv, ResolutionInv, DepthInv
<1> QED
  BY <1>1, ProcessInvariant, PTL

(* A configuration is rejected only for custom checks that do not load or   *)
(* for a name the pattern of getValidChecks cannot match.                   *)
THEOREM UnknownNamesCostNothing == Spec => []UnknownNamesIgnored
<1>1. ProcessInv => UnknownNamesIgnored
  BY DEF ProcessInv, ResolutionInv
<1> QED
  BY <1>1, ProcessInvariant, PTL

(* A process that exits with success was signalled, and neither the         *)
(* goroutine that serves metrics nor a runnable is left (Server.Start).     *)
THEOREM ExitIsClean == Spec => []CleanExit
<1>1. ProcessInv => CleanExit
  BY DEF ProcessInv
<1> QED
  BY <1>1, ProcessInvariant, PTL

(* Without a signal the process ends with 1 only for a setting or a file    *)
(* that is refused or a metrics server that failed, and with 2 only for a   *)
(* setting that makes it panic, a deletion the informer missed, or a name   *)
(* of a configuration that getValidChecks misreads; where none is, its      *)
(* recursion never uses up the stack (main, DeleteFunc, getValidChecks).    *)
THEOREM ExitsHaveCauses == Spec => []ExitHasCause
<1>1. ProcessInv => ExitHasCause
  BY DEF ProcessInv
<1> QED
  BY <1>1, ProcessInvariant, PTL
================================================================================

-------------------------- MODULE VectorJob_proofs --------------------------
(***************************************************************************)
(* What is proved of the jobs of vector products, for any deliveries,      *)
(* layers and steps: the names of a delivery that goes on are clear, every *)
(* check divides a layer's features without loss, no check meets a layer   *)
(* it cannot deal with, and a job whose steps all end ok leaves clean      *)
(* layers.                                                                 *)
(***************************************************************************)
EXTENDS VectorJob, FiniteSetTheorems, FunctionTheorems, SequenceTheorems, WellFoundedInduction, NaturalsInduction, TLAPS

Statuses == {"ok", "cancelled", "failed", "aborted", "crashed"}

\* The statuses a job goes on with.
Mild == {"ok", "cancelled", "failed"}

(* The worst of two statuses is one of them, and none is worse.             *)
LEMMA WorstIsWorst ==
    ASSUME NEW s \in Statuses, NEW t \in Statuses
    PROVE  /\ Worst(s, t) \in {s, t}
           /\ Worst(s, t) = "ok" <=> s = "ok" /\ t = "ok"
           /\ Worst(s, t) \in Mild <=> s \in Mild /\ t \in Mild
           /\ Worst(s, "ok") = s
  BY DEF Worst, WorstOf, Statuses, Mild

Smaller == {p \in Nat \X Nat : p[1] < p[2]}

(* A set of natural numbers that is not empty has a least element.          *)
LEMMA HasLeast ==
    ASSUME NEW S, S \subseteq Nat, S # {}
    PROVE  \E n \in S : \A k \in S : n <= k
<1>1. IsWellFoundedOn({p \in Nat \X Nat : p[1] < p[2]}, Nat)
  BY NatLessThanWellFounded DEF OpToRel
<1>2. IsWellFoundedOn(Smaller, Nat)
  BY <1>1 DEF Smaller
<1>3. PICK n \in S : \A k \in S : ~ (<<k, n>> \in Smaller)
  BY <1>2, WFMin
<1>4. \A k \in S : ~(k < n)
  BY <1>3 DEF Smaller
<1>5. QED
  BY <1>4

(* A set of the numbers up to a bound has a greatest one.                   *)
LEMMA HasGreatest ==
    ASSUME NEW n \in Nat, NEW S, S \subseteq 1 .. n, S # {}
    PROVE  Max(S) \in S /\ \A k \in S : k <= Max(S)
<1> DEFINE Left == {n - k : k \in S}
<1>0. \A k \in S : k \in 1 .. n /\ n - k \in Nat
  OBVIOUS
<1>1. Left \subseteq Nat /\ Left # {}
  BY <1>0
<1>2. PICK m \in Left : \A k \in Left : m <= k
  BY <1>1, HasLeast
<1>3. PICK g \in S : m = n - g
  OBVIOUS
<1>4. \A k \in S : g >= k
  <2> TAKE k \in S
  <2>1. n - g <= n - k
    BY <1>2, <1>3
  <2> QED
    BY <2>1
<1>5. \E x \in S : \A y \in S : x >= y
  BY <1>4
<1>6. Max(S) \in S /\ \A y \in S : Max(S) >= y
  BY <1>5 DEF Max
<1> QED
  BY <1>6

-----------------------------------------------------------------------------
(* Names.                                                                   *)

Good == severity \in {"ok", "failed"}

\* Layers and aliases are matched one to one, as far as the matching has come.
AliasInv ==
    /\ LayerDefs \subseteq ToSet(naming.aliases)
    /\ Good => ToSet(naming.aliases) \subseteq LayerDefs \union ToSet(todo)
    /\ stage \in {"codes", "boundary"} \/ (stage = "named" /\ Good) => todo = <<>>
    /\ \A a \in LayerDefs : a \in defs[a].fits /\ \E i \in DOMAIN naming.files : defs[a] = naming.files[i]
    /\ \A i \in infos : \A a \in LayerDefs : a \notin naming.files[i].fits
    /\ \A a, b \in LayerDefs : a # b => defs[a] # defs[b]

\* The boundary comes last, and is that of the area of interest.
BoundaryInv ==
    "boundary" \in DOMAIN defs =>
        /\ stage = "named"
        /\ defs["boundary"].file \in naming.boundaries
        /\ naming.boundary = "by aoi" /\ aoi # "none" => defs["boundary"].file = aoi

AreaInv ==
    stage \in {"boundary", "named"} /\ Good /\ naming.aois # {} =>
        /\ aoi # "none"
        /\ \A a \in LayerDefs : defs[a].aoi = aoi
        /\ AnyCase \/ aoi \in naming.aois

AllInv ==
    /\ stage \in {"find", "match", "named"}
    /\ DOMAIN defs \subseteq DOMAIN naming.files
    /\ \A i \in DOMAIN defs : defs[i] = naming.files[i]

NameInv ==
    /\ NamingTypes
    /\ stage = "find" => defs = NoDefs /\ todo = naming.aliases /\ infos = {}
    /\ skip => aoi \in naming.excluded
    /\ stage \in {"find", "match", "codes"} => ~skip
    /\ IF naming.takeAll THEN AllInv ELSE AliasInv /\ BoundaryInv /\ AreaInv

LEMMA NameInvHolds ==
    ASSUME IsNaming(naming), NameInv
    PROVE  NamesAreClear
<1>1. Accepted => AliasesAreDistinct
  BY DEF NameInv, AliasInv, Accepted, AliasesAreDistinct, NamingDone, Good, ToSet
<1>2. Accepted => OneAreaOfInterest
  BY DEF NameInv, AreaInv, BoundaryInv, Accepted, OneAreaOfInterest, NamingDone, Good, LayerDefs
<1> QED
  BY <1>1, <1>2 DEF NamesAreClear, AliasesAreDistinct, OneAreaOfInterest

(* If the verdict on the codes is ok, all layers tell the last one's code.  *)
LEMMA CodesAgree ==
    ASSUME IsNaming(naming), DOMAIN defs \subseteq ToSet(naming.aliases),
           NEW allowed, NEW anyCase \in BOOLEAN, CodesVerdict("aoi", allowed, anyCase) = "ok"
    PROVE  /\ LastCode("aoi", anyCase) # "none"
           /\ \A a \in DOMAIN defs : defs[a].aoi = LastCode("aoi", anyCase)
           /\ anyCase \/ LastCode("aoi", anyCase) \in allowed
<1> DEFINE coded == Coded("aoi", anyCase)
           codes == {defs[a]["aoi"] : a \in coded}
           told == {k \in DOMAIN naming.aliases : naming.aliases[k] \in coded}
<1>1. /\ coded = DOMAIN defs
      /\ ~ \A c \in codes : codes # {c}
      /\ anyCase \/ codes \subseteq allowed
  BY DEF CodesVerdict
<1>2. PICK c \in codes : codes = {c}
  BY <1>1
<1>3. \A a \in coded : defs[a]["aoi"] = c /\ c # "none"
  BY <1>2 DEF Coded
<1>4. told # {}
  BY <1>1, <1>2 DEF ToSet
<1>5. DOMAIN naming.aliases = 1 .. Len(naming.aliases) /\ Len(naming.aliases) \in Nat
  BY DEF IsNaming, IsSeq
<1>6. Max(told) \in told
  BY <1>4, <1>5, HasGreatest
<1>7. LastCode("aoi", anyCase) = defs[naming.aliases[Max(told)]]["aoi"]
  BY <1>4 DEF LastCode
<1>8. LastCode("aoi", anyCase) = c
  BY <1>3, <1>6, <1>7
<1> QED
  BY <1>1, <1>2, <1>3, <1>8

(* The naming starts with the names as they were found.                     *)
LEMMA NamingStarts ==
    ASSUME IsNaming(naming), NamingInit(naming)
    PROVE  NameInv
  BY DEF NamingInit, NameInv, NamingTypes, NoDefs, AliasInv, BoundaryInv, AreaInv, AllInv, LayerDefs, Good,
         IsNaming, IsSeq

LEMMA FindKeeps ==
    ASSUME IsNaming(naming), NameInv, FindLayers
    PROVE  NameInv'
<1>1. severity' \in {"ok", "aborted", severity} /\ severity' \in {"ok", "failed", "aborted", "crashed"}
  BY DEF FindLayers, Give, Worst, WorstOf, NameInv, NamingTypes
<1>2. infos' \subseteq DOMAIN naming.files
  BY DEF FindLayers, Found, Readable
<1>3. stage' \in {"match", "named"} /\ (stage' = "named" => severity' \notin {"ok", "failed"})
  BY DEF FindLayers, Give, Worst, WorstOf, NameInv, NamingTypes
<1>4. /\ stage = "find" /\ defs = NoDefs /\ todo = naming.aliases
      /\ UNCHANGED <<naming, todo, defs, aoi, skip>> /\ ~skip
  BY DEF FindLayers, NameInv
<1>5. NamingTypes'
  BY <1>1, <1>2, <1>3, <1>4 DEF NameInv, NamingTypes
<1>6. LayerDefs' = {} /\ DOMAIN defs' = {}
  BY <1>4 DEF LayerDefs, NoDefs
<1>7. naming.takeAll => AllInv'
  BY <1>3, <1>4, <1>6 DEF AllInv
<1>8. ~naming.takeAll => (AliasInv /\ BoundaryInv /\ AreaInv)'
  BY <1>3, <1>4, <1>6 DEF AliasInv, BoundaryInv, AreaInv, Good
<1> QED
  BY <1>3, <1>4, <1>5, <1>7, <1>8 DEF NameInv

LEMMA TakeKeeps ==
    ASSUME IsNaming(naming), NameInv, TakeAll
    PROVE  NameInv'
  BY DEF NameInv, TakeAll, NamingTypes, AllInv

(* An alias gets the only layer that fits it: what is left fits no alias    *)
(* that has a layer.                                                        *)
LEMMA ExtractKeeps ==
    ASSUME IsNaming(naming), NameInv, ExtractLayerDef
    PROVE  NameInv'
<1> DEFINE alias == Head(todo)
<1>1. /\ stage = "match" /\ ~naming.takeAll /\ ~skip
      /\ todo \in Seq(ToSet(naming.aliases)) /\ todo # <<>>
      /\ todo' = Tail(todo)
      /\ UNCHANGED <<naming, stage, aoi, skip>>
  BY DEF ExtractLayerDef, NameInv, NamingTypes
<1>2. /\ alias \in ToSet(naming.aliases)
      /\ todo' \in Seq(ToSet(naming.aliases))
      /\ ToSet(todo) = {alias} \union ToSet(todo')
  <2>1. alias \in ToSet(naming.aliases) /\ todo' \in Seq(ToSet(naming.aliases))
    BY <1>1, HeadTailProperties
  <2>2. /\ DOMAIN todo = 1 .. Len(todo) /\ Len(todo) \in Nat \ {0} /\ todo[1] = alias
        /\ DOMAIN todo' = 1 .. Len(todo) - 1
        /\ \A k \in 1 .. Len(todo) - 1 : todo'[k] = todo[k + 1]
    BY <1>1
  <2>3. \A k \in DOMAIN todo : k = 1 \/ (k - 1 \in DOMAIN todo' /\ todo'[k - 1] = todo[k])
    BY <2>2
  <2>4. \A k \in DOMAIN todo' : k + 1 \in DOMAIN todo /\ todo'[k] = todo[k + 1]
    BY <2>2
  <2>5. 1 \in DOMAIN todo
    BY <2>2
  <2>6. \A x \in ToSet(todo) : x = alias \/ x \in ToSet(todo')
    <3> SUFFICES ASSUME NEW k \in DOMAIN todo
                 PROVE  todo[k] = alias \/ todo[k] \in ToSet(todo')
      BY DEF ToSet
    <3> QED
      BY <2>2, <2>3 DEF ToSet
  <2>7. \A x \in ToSet(todo') : x \in ToSet(todo)
    <3> SUFFICES ASSUME NEW k \in DOMAIN todo'
                 PROVE  todo'[k] \in ToSet(todo)
      BY DEF ToSet
    <3> QED
      BY <2>4 DEF ToSet
  <2>8. alias \in ToSet(todo)
    BY <2>2, <2>5 DEF ToSet
  <2> HIDE DEF alias
  <2> QED
    BY <2>1, <2>6, <2>7, <2>8
<1>3. alias # "boundary" /\ "boundary" \notin DOMAIN defs
  BY <1>1, <1>2 DEF NameInv, BoundaryInv, IsNaming
<1>4. CASE \E i \in infos :
             /\ Matches(alias) = {i}
             /\ defs' = [a \in DOMAIN defs \union {alias} |-> IF a = alias THEN naming.files[i] ELSE defs[a]]
             /\ infos' = Popped(alias)
             /\ UNCHANGED severity
  <2>1. PICK i \in infos :
             /\ Matches(alias) = {i}
             /\ defs' = [a \in DOMAIN defs \union {alias} |-> IF a = alias THEN naming.files[i] ELSE defs[a]]
             /\ infos' = Popped(alias)
             /\ UNCHANGED severity
    BY <1>4
  <2> HIDE DEF alias
  <2>2. /\ DOMAIN defs' = DOMAIN defs \union {alias} /\ LayerDefs' = LayerDefs \union {alias}
        /\ defs'[alias] = naming.files[i]
        /\ \A a \in DOMAIN defs \ {alias} : defs'[a] = defs[a]
    BY <2>1, <1>3 DEF LayerDefs
  <2>3. /\ infos' \subseteq infos /\ alias \in naming.files[i].fits /\ i \in DOMAIN naming.files
        /\ \A j \in infos' : alias \notin naming.files[j].fits
    BY <2>1 DEF Popped, Matches, NameInv, NamingTypes
  <2>4. NamingTypes'
    BY <1>1, <1>2, <2>1, <2>3 DEF NameInv, NamingTypes
  <2>5. \A a \in LayerDefs \ {alias} : a \notin naming.files[i].fits /\ a \in defs[a].fits /\ defs[a] # naming.files[i]
    BY <2>1, <1>1 DEF NameInv, AliasInv
  <2>6. \A a \in LayerDefs : a \in DOMAIN defs
    BY DEF LayerDefs
  <2>7. AliasInv'
    <3>1. LayerDefs' \subseteq ToSet(naming.aliases)
      BY <1>1, <1>2, <2>2 DEF NameInv, AliasInv
    <3>2. Good' => ToSet(naming.aliases) \subseteq LayerDefs' \union ToSet(todo')
      BY <1>1, <1>2, <2>1, <2>2 DEF NameInv, AliasInv, Good
    <3>3. \A a \in LayerDefs' : a \in defs'[a].fits /\ \E j \in DOMAIN naming.files : defs'[a] = naming.files[j]
      BY <1>1, <2>2, <2>3, <2>6 DEF NameInv, AliasInv
    <3>4. \A j \in infos' : \A a \in LayerDefs' : a \notin naming.files[j].fits
      BY <1>1, <2>2, <2>3 DEF NameInv, AliasInv
    <3>5. \A a, b \in LayerDefs' : a # b => defs'[a] # defs'[b]
      BY <1>1, <2>2, <2>5, <2>6 DEF NameInv, AliasInv
    <3> QED
      BY <1>1, <3>1, <3>2, <3>3, <3>4, <3>5 DEF AliasInv
  <2>8. BoundaryInv' /\ AreaInv'
    BY <1>1, <1>3, <2>2 DEF BoundaryInv, AreaInv
  <2> QED
    BY <1>1, <2>4, <2>7, <2>8 DEF NameInv
<1>5. CASE Give("aborted") /\ UNCHANGED <<defs, infos>>
  <2>1. severity' \in {"aborted", "crashed"} /\ ~Good'
    BY <1>5 DEF Give, Worst, WorstOf, Good
  <2>2. NamingTypes'
    BY <1>1, <1>2, <1>5, <2>1 DEF NameInv, NamingTypes
  <2>3. LayerDefs' = LayerDefs
    BY <1>5 DEF LayerDefs
  <2>4. AliasInv' /\ BoundaryInv' /\ AreaInv'
    BY <1>1, <1>3, <1>5, <2>1, <2>3 DEF NameInv, AliasInv, BoundaryInv, AreaInv
  <2> QED
    BY <1>1, <2>2, <2>4 DEF NameInv
<1> QED
  BY <1>4, <1>5 DEF ExtractLayerDef

LEMMA ExcessKeeps ==
    ASSUME IsNaming(naming), NameInv, CheckExcessive
    PROVE  NameInv'
<1>1. /\ severity' \in {"ok", "failed", "aborted", "crashed"}
      /\ Good' => Good
  BY DEF CheckExcessive, Give, Worst, WorstOf, NameInv, NamingTypes, Good
<1>2. /\ stage = "match" /\ stage' = "codes" /\ ~naming.takeAll /\ todo = <<>>
      /\ UNCHANGED <<naming, infos, todo, defs, aoi, skip>>
  BY DEF CheckExcessive
<1>3. NamingTypes' /\ LayerDefs' = LayerDefs
  BY <1>1, <1>2 DEF NameInv, NamingTypes, LayerDefs
<1>4. AliasInv' /\ BoundaryInv' /\ AreaInv'
  BY <1>1, <1>2, <1>3 DEF NameInv, AliasInv, BoundaryInv, AreaInv
<1> QED
  BY <1>2, <1>3, <1>4 DEF NameInv

(* The codes say one area of interest, the one the step goes on with.       *)
LEMMA CodesKeep ==
    ASSUME IsNaming(naming), NameInv, ExtractCodes
    PROVE  NameInv'
<1> DEFINE aoiVerdict == IF naming.aois # {} THEN CodesVerdict("aoi", naming.aois, AnyCase) ELSE "ok"
           epsgVerdict == IF naming.epsgs # {} THEN CodesVerdict("epsg", naming.epsgs, FALSE) ELSE "ok"
           infoVerdict == IF naming.wantsInfo THEN InfoVerdict ELSE "ok"
<1>1. /\ stage = "codes" /\ ~naming.takeAll /\ stage' \in {"named", "boundary"}
      /\ UNCHANGED <<naming, infos, todo, defs>>
      /\ aoi' = IF naming.aois # {} THEN LastCode("aoi", AnyCase) ELSE "none"
      /\ skip' = (~naming.raster /\ aoi' \in naming.excluded)
      /\ severity' = WorstOf({severity, aoiVerdict, epsgVerdict, infoVerdict})
  BY DEF ExtractCodes, NameInv, AllInv
<1>2. /\ aoiVerdict \in {"ok", "aborted"} /\ epsgVerdict \in {"ok", "aborted"}
      /\ infoVerdict \in {"ok", "aborted", "crashed"}
      /\ severity \in {"ok", "failed", "aborted", "crashed"}
  BY DEF CodesVerdict, InfoVerdict, NameInv, NamingTypes
<1>3. /\ severity' \in {"ok", "failed", "aborted", "crashed"}
      /\ Good' => Good /\ aoiVerdict = "ok"
  <2> HIDE DEF aoiVerdict, epsgVerdict, infoVerdict
  <2> QED
    BY <1>1, <1>2 DEF WorstOf, Good
<1>4. NamingTypes' /\ LayerDefs' = LayerDefs
  BY <1>1, <1>3 DEF NameInv, NamingTypes, LayerDefs
<1>5. AliasInv'
  BY <1>1, <1>3, <1>4 DEF NameInv, AliasInv
<1>6. "boundary" \notin DOMAIN defs /\ LayerDefs = DOMAIN defs
  BY <1>1 DEF NameInv, BoundaryInv, LayerDefs
<1>7. BoundaryInv'
  BY <1>1, <1>6 DEF BoundaryInv
<1>8. AreaInv'
  <2>1. SUFFICES ASSUME Good', naming.aois # {}
                 PROVE  /\ aoi' # "none"
                        /\ \A a \in LayerDefs : defs[a].aoi = aoi'
                        /\ AnyCase \/ aoi' \in naming.aois
    BY <1>1, <1>4 DEF AreaInv, AnyCase
  <2>2. CodesVerdict("aoi", naming.aois, AnyCase) = "ok" /\ AnyCase \in BOOLEAN
    BY <1>3, <2>1 DEF AnyCase
  <2>3. DOMAIN defs \subseteq ToSet(naming.aliases)
    BY <1>1, <1>6 DEF NameInv, AliasInv
  <2> QED
    BY <1>1, <1>6, <2>1, <2>2, <2>3, CodesAgree
<1> QED
  BY <1>1, <1>4, <1>5, <1>7, <1>8 DEF NameInv

LEMMA BoundaryKeeps ==
    ASSUME IsNaming(naming), NameInv, FindBoundary
    PROVE  NameInv'
<1>1. /\ severity' \in {"ok", "failed", "aborted", "crashed"}
      /\ Good' => Good
  BY DEF FindBoundary, Give, Worst, WorstOf, NameInv, NamingTypes, Good
<1>2. /\ stage = "boundary" /\ stage' = "named" /\ ~naming.takeAll
      /\ UNCHANGED <<naming, infos, todo, aoi, skip>>
      /\ "boundary" \notin DOMAIN defs
  BY DEF FindBoundary, NameInv, AllInv, BoundaryInv
<1>3. /\ LayerDefs' = LayerDefs
      /\ \A a \in LayerDefs : defs'[a] = defs[a]
      /\ "boundary" \in DOMAIN defs' =>
             BoundaryName \in naming.boundaries /\ defs'["boundary"].file = BoundaryName
  BY <1>2 DEF FindBoundary, LayerDefs
<1>4. NamingTypes'
  BY <1>1, <1>2 DEF NameInv, NamingTypes
<1>5. AliasInv' /\ AreaInv'
  BY <1>1, <1>2, <1>3 DEF NameInv, AliasInv, AreaInv, AnyCase
<1>6. BoundaryInv'
  BY <1>2, <1>3 DEF BoundaryInv, BoundaryName
<1> QED
  BY <1>2, <1>4, <1>5, <1>6 DEF NameInv

LEMMA RastersKeep ==
    ASSUME IsNaming(naming), NameInv, CheckRasters
    PROVE  NameInv'
<1>1. /\ severity' \in {"ok", "failed", "aborted", "crashed"}
      /\ Good' => Good
  BY DEF CheckRasters, Give, Worst, WorstOf, NameInv, NamingTypes, Good
<1>2. /\ stage = "boundary" /\ stage' = "named" /\ ~naming.takeAll
      /\ UNCHANGED <<naming, infos, todo, defs, aoi, skip>>
  BY DEF CheckRasters, NameInv, AllInv
<1>3. NamingTypes' /\ LayerDefs' = LayerDefs
  BY <1>1, <1>2 DEF NameInv, NamingTypes, LayerDefs
<1>4. AliasInv' /\ AreaInv' /\ BoundaryInv'
  BY <1>1, <1>2, <1>3 DEF NameInv, AliasInv, AreaInv, AnyCase, BoundaryInv
<1> QED
  BY <1>2, <1>3, <1>4 DEF NameInv

LEMMA NamingKeeps ==
    ASSUME IsNaming(naming), NameInv, NamingNext
    PROVE  NameInv' /\ naming' = naming
<1>1. naming' = naming
  BY DEF NamingNext, FindLayers, TakeAll, ExtractLayerDef, CheckExcessive, ExtractCodes, FindBoundary, CheckRasters
<1>2. NameInv'
  BY FindKeeps, TakeKeeps, ExtractKeeps, ExcessKeeps, CodesKeep, BoundaryKeeps, RastersKeep DEF NamingNext
<1> QED
  BY <1>1, <1>2

-----------------------------------------------------------------------------
(* Features: what a check finds, and what a layer it passes is like.        *)

\* A check whose verdict is the worst word for its tables.
ByTables(s) == s.check \notin {"epsg", "epsg_clc", "layer_area"}

\* The statuses with which a check has passed its layers: geometry and singlepart abort
\* if they find anything.
Passes(s, st) == st = "ok" \/ (st \in Mild /\ s.check \in {"geometry", "singlepart"})

LEMMA VerdictIsStatus ==
    ASSUME NEW s, NEW layer, NEW tables, NEW first
    PROVE  Verdict(s, layer, tables, first) \in Statuses
  BY DEF Verdict, Statuses, EpsgClc, LayerArea, WorstOf

(* A check that passes a layer has nothing in any of its tables of errors.  *)
LEMMA PassedIsEmpty ==
    ASSUME NEW s, NEW layer, NEW tables, NEW first, ByTables(s),
           Verdict(s, layer, tables, first) = "ok",
           NEW t \in DOMAIN tables, t \notin Told
    PROVE  tables[t] = {}
<1> DEFINE words == {Word(u, tables[u]) : u \in DOMAIN tables}
<1>1. WorstOf(words) = "ok"
  BY DEF Verdict, ByTables
<1>2. "failed" \notin words /\ "aborted" \notin words
  BY <1>1 DEF WorstOf
<1>3. Word(t, tables[t]) \notin {"failed", "aborted"}
  BY <1>2
<1> QED
  BY <1>3 DEF Word

LEMMA FatalIsEmpty ==
    ASSUME NEW s, NEW layer, NEW tables, NEW first, ByTables(s),
           Verdict(s, layer, tables, first) \in Mild,
           NEW t \in DOMAIN tables, t \in Fatal
    PROVE  tables[t] = {}
<1> DEFINE words == {Word(u, tables[u]) : u \in DOMAIN tables}
<1>1. WorstOf(words) \in Mild
  BY DEF Verdict, ByTables, Mild
<1>2. "aborted" \notin words
  BY <1>1 DEF WorstOf, Mild
<1>3. Word(t, tables[t]) # "aborted"
  BY <1>2
<1> QED
  BY <1>3 DEF Word, Told, Fatal

LEMMA MmuDivides ==
    ASSUME NEW layer
    PROVE  Divides(Mmu(layer), Fids(layer))
  BY DEF Divides, Mmu, Unjoined, Where

LEMMA MmwDivides ==
    ASSUME NEW layer
    PROVE  Divides(Mmw(layer), Fids(layer))
<1> DEFINE all == Fids(layer)
           general == Where(layer, [f \in all |-> Either(Feature(layer, f).says.general, Truth(Feature(layer, f).parts = 1))])
           exception == Where(layer, Clauses(layer, "exception"))
           left == {f \in all : f \notin general}
<1>1. Mmw(layer) = [general |-> general, exception |-> left \intersect exception,
                    warning |-> left \ (left \intersect exception)]
  BY DEF Mmw, Unjoined
<1>2. general \subseteq all
  BY DEF Where
<1> HIDE DEF all, general, exception
<1>3. Divides(Mmw(layer), all)
  BY <1>1, <1>2 DEF Divides
<1> QED
  BY <1>3 DEF all

LEMMA ChangeDivides ==
    ASSUME NEW s, NEW layer
    PROVE  Divides(Change(s, layer), Fids(layer))
<1> DEFINE all == Fids(layer)
           general == Where(layer, [f \in all |-> Changed(s, Feature(layer, f))])
           exception == Where(layer, [f \in all |-> Exempted(s, Feature(layer, f))])
           left == {f \in all : f \notin general}
<1>1. Change(s, layer) = [general |-> general, exception |-> left \intersect exception,
                          error |-> left \ (left \intersect exception)]
  BY DEF Change, Unjoined
<1>2. general \subseteq all
  BY DEF Where
<1> HIDE DEF all, general, exception
<1>3. Divides(Change(s, layer), all)
  BY <1>1, <1>2 DEF Divides
<1> QED
  BY <1>3 DEF all

(* The gap tables hold every gap the boundary shows, small ones if the      *)
(* tolerances are above the default.                                        *)
LEMMA GapDivides ==
    ASSUME NEW s, NEW layer, IsLayer(layer), NEW inside,
           NEW tables, tables \in {Gap(s, layer, inside), GapBufferzone(s, layer, inside)}
    PROVE  Divides([t \in DOMAIN tables \ {"du_error"} |-> tables[t]],
                   IF s.tolerant THEN Gaps(layer, inside) ELSE GapsWhere(layer, inside, {FALSE}, BOOLEAN))
<1> DEFINE some == [t \in DOMAIN tables \ {"du_error"} |-> tables[t]]
           part(x, y) == GapsWhere(layer, inside, x, y)
<1>1. \A g \in DOMAIN layer.gaps : layer.gaps[g].small \in BOOLEAN /\ layer.gaps[g].core \in BOOLEAN
  BY DEF IsLayer
<1>2. CASE tables = Gap(s, layer, inside)
  <2>1. some = [t \in {"gap_exception", "gap_error"} |->
                   IF t = "gap_error" THEN part({FALSE}, BOOLEAN)
                   ELSE IF s.tolerant THEN part({TRUE}, BOOLEAN) ELSE {}]
    BY <1>2 DEF Gap, Tolerated
  <2>2. /\ part({FALSE}, BOOLEAN) \union part({TRUE}, BOOLEAN) = Gaps(layer, inside)
        /\ part({FALSE}, BOOLEAN) \intersect part({TRUE}, BOOLEAN) = {}
    BY <1>1 DEF GapsWhere, Gaps
  <2> HIDE DEF some, part
  <2>3. CASE s.tolerant
    <3>1. Divides(some, Gaps(layer, inside))
      BY <2>1, <2>2, <2>3 DEF Divides
    <3> QED
      BY <3>1, <2>3 DEF some
  <2>4. CASE ~s.tolerant
    <3>1. Divides(some, part({FALSE}, BOOLEAN))
      BY <2>1, <2>4 DEF Divides
    <3> QED
      BY <3>1, <2>4 DEF some, part
  <2> QED
    BY <2>3, <2>4
<1>3. CASE tables = GapBufferzone(s, layer, inside)
  <2>1. some = [t \in {"interior_small", "bufferzone_small", "gap_error", "bufferzone_large"} |->
                   IF t = "gap_error" THEN part({FALSE}, {TRUE})
                   ELSE IF t = "bufferzone_large" THEN part({FALSE}, {FALSE})
                   ELSE IF ~s.tolerant THEN {}
                   ELSE IF t = "interior_small" THEN part({TRUE}, {TRUE}) ELSE part({TRUE}, {FALSE})]
    BY <1>3 DEF GapBufferzone, Tolerated
  <2>2. /\ part({FALSE}, {TRUE}) \union part({FALSE}, {FALSE}) = part({FALSE}, BOOLEAN)
        /\ part({FALSE}, BOOLEAN) \union part({TRUE}, {TRUE}) \union part({TRUE}, {FALSE}) = Gaps(layer, inside)
        /\ part({FALSE}, {TRUE}) \intersect part({FALSE}, {FALSE}) = {}
        /\ part({TRUE}, {TRUE}) \intersect part({TRUE}, {FALSE}) = {}
        /\ part({FALSE}, BOOLEAN) \intersect (part({TRUE}, {TRUE}) \union part({TRUE}, {FALSE})) = {}
    BY <1>1 DEF GapsWhere, Gaps
  <2> HIDE DEF some, part
  <2>3. CASE s.tolerant
    <3>1. Divides(some, Gaps(layer, inside))
      BY <2>1, <2>2, <2>3 DEF Divides
    <3> QED
      BY <3>1, <2>3 DEF some
  <2>4. CASE ~s.tolerant
    <3>1. Divides(some, part({FALSE}, BOOLEAN))
      BY <2>1, <2>2, <2>4 DEF Divides
    <3> QED
      BY <3>1, <2>4 DEF some, part
  <2> QED
    BY <2>3, <2>4
<1> QED
  BY <1>2, <1>3

(* For each check, what a layer without errors is like.                     *)
Clean(s, layer, inside, code) == Meets(s, layer, inside, code, Waivers)

LEMMA CleanMmu ==
    ASSUME NEW layer, Mmu(layer).error = {}
    PROVE  \A f \in Fids(layer) : \E c \in {"general", "exception", "warning"} : Feature(layer, f).says[c] = "T"
<1> TAKE f \in Fids(layer)
<1>1. \/ f \in Where(layer, Clauses(layer, "general"))
      \/ f \in Where(layer, Clauses(layer, "exception"))
      \/ f \in Where(layer, Clauses(layer, "warning"))
  BY DEF Mmu, Unjoined
<1>2. \A c : f \in Where(layer, Clauses(layer, c)) => Feature(layer, f).says[c] = "T"
  BY DEF Where, Clauses, Feature
<1> QED
  BY <1>1, <1>2

LEMMA CleanChange ==
    ASSUME NEW s, NEW layer, Change(s, layer).error = {}
    PROVE  \A f \in Fids(layer) : CodesAreDistinct(s, Feature(layer, f), Waivers)
<1> TAKE f \in Fids(layer)
<1>1. Changed(s, Feature(layer, f)) = "T" \/ Exempted(s, Feature(layer, f)) = "T"
  BY DEF Change, Unjoined, Where
<1>2. CASE Changed(s, Feature(layer, f)) = "T"
  BY <1>2 DEF Changed, Negate, Equal, Truth, Both, CodesAreDistinct
<1>3. CASE Exempted(s, Feature(layer, f)) = "T"
  <2>1. s.exempt /\ (Feature(layer, f).kind = "T" \/ Feature(layer, f).change = "exempt")
    BY <1>3 DEF Exempted, Either, Negate, Both, Truth
  <2> QED
    BY <2>1 DEF CodesAreDistinct, Waivers
<1> QED
  BY <1>1, <1>2, <1>3

LEMMA CleanEnum ==
    ASSUME NEW s, NEW layer, NEW first \in BOOLEAN, NEW column \in DOMAIN s.codes,
           Enum(s, layer, first)[column] = {}
    PROVE  \A f \in Fids(layer) : CodeIsListed(s, Feature(layer, f), column, Waivers)
<1> TAKE f \in Fids(layer)
<1> DEFINE v == Feature(layer, f)[column]
           listed == s.codes[column]
           counts == s.exclude = "none" \/ Feature(layer, f)[s.exclude] = Null
<1>1. Both(Illegal(listed \ {Null}, first /\ Null \in listed, v), Truth(counts)) # "T"
  BY DEF Enum, Where
<1>2. CASE ~counts
  BY <1>2 DEF CodeIsListed, Waivers
<1>3. CASE counts
  <2> HIDE DEF v, listed, counts
  <2>1. Illegal(listed \ {Null}, first /\ Null \in listed, v) # "T"
    BY <1>1, <1>3 DEF Both, Truth, Illegal, Either, Negate, Member
  <2>2. v \in listed
    BY <2>1 DEF Illegal, Either, Negate, Both, Member, Truth
  <2> QED
    BY <2>2 DEF v, listed, CodeIsListed, Waivers
<1> QED
  BY <1>2, <1>3

LEMMA CleanUnique ==
    ASSUME NEW layer, NEW column, Duplicates(layer, column) = {}
    PROVE  \A f, g \in Fids(layer) :
               /\ KeyIsTold(Feature(layer, f), column, Waivers)
               /\ f # g /\ Feature(layer, f)[column] # Null => Feature(layer, f)[column] # Feature(layer, g)[column]
  BY DEF Duplicates, Values, Feature, KeyIsTold, Waivers

(* There is a most frequent value, of these the least, which all have.      *)
LEMMA CleanConstant ==
    ASSUME NEW s, NEW layer, IsLayer(layer), NEW column \in s.keys, column \in {"x", "y", "z"},
           Constant(s, layer)[column] = {}
    PROVE  \A f, g \in Fids(layer) : Feature(layer, f)[column] = Feature(layer, g)[column]
<1> DEFINE v == Values(layer, column)
           told == {v[f] : f \in Fids(layer)} \ {Null}
           count(u) == Cardinality({f \in Fids(layer) : v[f] = u})
           ahead(u, w) == count(w) < count(u) \/ (count(w) = count(u) /\ u <= w)
           often == {u \in told : \A w \in told : ahead(u, w)}
           n == Len(layer.features)
<1>1. /\ n \in Nat /\ Fids(layer) = 1 .. n
      /\ \A f \in Fids(layer) : v[f] \in Int /\ v[f] = Feature(layer, f)[column]
  BY DEF IsLayer, IsSeq, Fids, Values, Feature
<1>2. \A u : count(u) \in Nat
  <2> TAKE u
  <2>1. IsFiniteSet(Fids(layer))
    BY <1>1, FS_Interval
  <2> QED
    BY <2>1, FS_Subset, FS_CardinalityType
<1>3. {f \in Fids(layer) : often # {} /\ v[f] \notin often} = {}
  BY DEF Constant
<1> HIDE DEF v, count, n
<1>4. told # {} => often # {}
  <2> DEFINE upTo(m) == {v[f] : f \in 1 .. m} \ {Null}
             first(m) == upTo(m) = {} \/ \E u \in upTo(m) : \A w \in upTo(m) : ahead(u, w)
             bad == {m \in 0 .. n : ~first(m)}
  <2>1. \A m \in 0 .. n : upTo(m) \subseteq Int
    BY <1>1
  <2>2. bad = {}
    <3> SUFFICES ASSUME bad # {}
                 PROVE  FALSE
      OBVIOUS
    <3>1. bad \subseteq Nat
      BY <1>1
    <3> HIDE DEF bad
    <3>2. PICK m \in bad : \A k \in bad : m <= k
      BY <3>1, HasLeast
    <3>3. m \in 0 .. n /\ ~first(m)
      BY DEF bad
    <3>4. m # 0
      BY <3>3
    <3>5. m - 1 \in 0 .. n /\ m - 1 \notin bad
      BY <3>2, <3>3, <3>4, <1>1
    <3>6. first(m - 1)
      BY <3>5 DEF bad
    <3>7. upTo(m) = upTo(m - 1) \union ({v[m]} \ {Null})
      BY <3>3, <3>4, <1>1
    <3>8. v[m] # Null
      BY <3>3, <3>6, <3>7
    <3>9. upTo(m) = upTo(m - 1) \union {v[m]} /\ v[m] \in Int /\ upTo(m - 1) \subseteq Int
      BY <3>3, <3>4, <3>5, <3>7, <3>8, <2>1, <1>1
    <3> HIDE DEF upTo
    <3>10. \A x \in Int : ahead(x, x)
      BY <1>2
    <3>11. CASE upTo(m - 1) = {}
      BY <3>3, <3>9, <3>10, <3>11
    <3>12. CASE \E u \in upTo(m - 1) : \A w \in upTo(m - 1) : ahead(u, w)
      <4>1. PICK u \in upTo(m - 1) : \A w \in upTo(m - 1) : ahead(u, w)
        BY <3>12
      <4>2. u \in Int /\ count(u) \in Nat /\ count(v[m]) \in Nat
        BY <1>2, <3>9
      <4>3. CASE ahead(u, v[m])
        BY <3>3, <3>9, <4>1, <4>3
      <4>4. CASE ~ahead(u, v[m])
        <5>1. \A w \in upTo(m - 1) : ahead(v[m], w)
          <6> TAKE w \in upTo(m - 1)
          <6>1. w \in Int /\ count(w) \in Nat /\ ahead(u, w)
            BY <1>2, <3>9, <4>1
          <6> QED
            BY <6>1, <4>2, <4>4, <3>9
        <5> QED
          BY <3>3, <3>9, <3>10, <5>1
      <4> QED
        BY <4>3, <4>4
    <3> QED
      BY <3>6, <3>11, <3>12
  <2>3. n \in 0 .. n /\ upTo(n) = told
    BY <1>1
  <2>4. first(n)
    BY <2>2, <2>3
  <2> HIDE DEF upTo, told
  <2>5. told = {} \/ \E u \in told : \A w \in told : ahead(u, w)
    BY <2>3, <2>4
  <2> QED
    BY <2>5
<1>5. \A u, w \in often : u = w
  <2> TAKE u, w \in often
  <2>1. u \in Int /\ w \in Int /\ ahead(u, w) /\ ahead(w, u) /\ count(u) \in Nat /\ count(w) \in Nat
    BY <1>1, <1>2
  <2> QED
    BY <2>1
<1>6. CASE often = {}
  <2>1. told = {}
    BY <1>4, <1>6
  <2>2. \A f \in Fids(layer) : v[f] = Null
    BY <2>1
  <2> QED
    BY <1>1, <2>2
<1>7. CASE often # {}
  <2>1. \A f \in Fids(layer) : v[f] \in often
    BY <1>3, <1>7
  <2> HIDE DEF often
  <2> QED
    BY <1>1, <1>5, <2>1
<1> QED
  BY <1>6, <1>7

LEMMA CleanNoData ==
    ASSUME NEW s, NEW layer, NoDataValue(s, layer).error = {}
    PROVE  \A f \in Fids(layer) : DependentsAgree(s, Feature(layer, f), Waivers)
<1> TAKE f \in Fids(layer)
<1>1. Feature(layer, f).x = s.nodata => Feature(layer, f)[s.deps[Len(s.deps)]] = s.dep
  BY DEF NoDataValue, DependsOn
<1> QED
  BY <1>1 DEF DependentsAgree, Waivers

LEMMA CleanArea ==
    ASSUME NEW s, s.tolerance \in Nat, NEW layer, IsLayer(layer), Area(s, layer).error = {},
           ~DividesByZero(s, layer)
    PROVE  \A f \in Fids(layer) : AreasCoincide(s, Feature(layer, f), Waivers)
<1> TAKE f \in Fids(layer)
<1> DEFINE a == Feature(layer, f).area
           d == Distance(a, Feature(layer, f).measured)
<1>1. AreaIsWrong(s, Feature(layer, f)) # "T" /\ (s.percent => a # 0)
  BY DEF Area, Where, DividesByZero
<1>2. a \in Int /\ d \in Int
  BY DEF IsLayer, Distance
<1>3. CASE a = Null \/ (s.percent /\ a < 0)
  BY <1>3 DEF AreasCoincide, Waivers
<1>4. CASE a # Null /\ ~(s.percent /\ a < 0)
  <2>1. IF s.percent THEN ~(a > 0 /\ 100 * d > s.tolerance * a) ELSE ~(d > s.tolerance)
    BY <1>1, <1>4 DEF AreaIsWrong, Truth
  <2>2. s.percent => a > 0
    BY <1>1, <1>2, <1>4
  <2>3. 100 * d \in Int /\ s.tolerance * a \in Int
    BY <1>2
  <2> HIDE DEF a, d
  <2>4. IF s.percent THEN 100 * d <= s.tolerance * a ELSE d <= s.tolerance
    BY <1>2, <2>1, <2>2, <2>3
  <2> QED
    BY <1>4, <2>4 DEF AreasCoincide, a, d
<1> QED
  BY <1>3, <1>4

(* What the opposite operator does not say, the operator does, but for NULLs *)
(* and for "!=", which has no opposite.                                      *)
LEMMA OppositeTells ==
    ASSUME NEW v \in Int, NEW w \in Int, NEW op \in Operators \ {"!="}, Compares(v, Opposite(op), w) # "T"
    PROVE  Compares(v, op, w) = "T" \/ Null \in {v, w}
<1>1. CASE op \in {"=", "<>"}
  BY <1>1 DEF Compares, Opposite, Negate, Equal, Truth
<1>2. CASE op \in {"<", ">="}
  BY <1>2 DEF Compares, Opposite, Negate, Less, Truth
<1>3. CASE op \in {">", "<="}
  BY <1>3 DEF Compares, Opposite, Negate, Less, Truth
<1>4. CASE op \in {"is null", "is not null"}
  BY <1>4 DEF Compares, Opposite, Truth
<1> QED
  BY <1>1, <1>2, <1>3, <1>4 DEF Operators

LEMMA CleanCondition ==
    ASSUME NEW layer, IsLayer(layer), NEW f \in Fids(layer), NEW rule, NEW c \in rule, c.op \in Operators,
           c.value \in Int, ~Violates(rule, Feature(layer, f))
    PROVE  ConditionHolds(c, Feature(layer, f), Waivers)
<1> DEFINE x == Feature(layer, f).x
           y == Feature(layer, f).y
<1> SUFFICES ASSUME c.given \in {Null, x}, c.op # "!="
             PROVE  Compares(y, c.op, c.value) = "T" \/ Null \in {y, c.value}
  BY DEF ConditionHolds, Waivers
<1>1. y \in Int
  BY DEF IsLayer
<1>2. Both(IF c.given = Null THEN "T" ELSE Equal(x, c.given), Compares(y, Opposite(c.op), c.value)) # "T"
  BY DEF Violates
<1>3. (IF c.given = Null THEN "T" ELSE Equal(x, c.given)) = "T"
  BY DEF Equal, Truth
<1>4. Compares(y, Opposite(c.op), c.value) # "T"
  BY <1>2, <1>3 DEF Both
<1> HIDE DEF x, y
<1> QED
  BY <1>1, <1>4, OppositeTells

LEMMA CleanNeighbour ==
    ASSUME NEW s, NEW layer, Neighbour(s, layer).error = {}
    PROVE  \A p \in AlikeNeighbours(s, layer) :
               Excepted(s, layer, p) \/ PairClause(s, layer, "error", p[1], p[2]) # "T"
<1> DEFINE pairs == SamePairs(s, layer, "error") \ SamePairs(s, layer, "exception")
<1>1. Ends(pairs) = {}
  BY DEF Neighbour, ErrorPairs
<1>2. pairs = {}
  BY <1>1 DEF Ends
<1> TAKE p \in AlikeNeighbours(s, layer)
<1>3. p \in layer.touching /\ SameCodes(s, layer, p[1], p[2])
  BY DEF AlikeNeighbours, SameCodes, Equal, Truth
<1>4. p \in SamePairs(s, layer, "error") => p \in SamePairs(s, layer, "exception")
  BY <1>2
<1> QED
  BY <1>3, <1>4 DEF SamePairs, Excepted

LEMMA CleanOverlap ==
    ASSUME NEW s, NEW layer, IsLayer(layer), Overlap(s, layer).error = {}
    PROVE  \A o \in layer.overlaps : "small overlap" \in Waivers /\ s.tolerant /\ ~o.large
<1> TAKE o \in layer.overlaps
<1>1. UNION {q.pair : q \in {r \in layer.overlaps : r.large \/ ~s.tolerant}} = {}
  BY DEF Overlap
<1>2. o.pair # {}
  BY DEF IsLayer
<1> QED
  BY <1>1, <1>2 DEF Waivers

LEMMA CleanGap ==
    ASSUME NEW s, NEW layer, IsLayer(layer), NEW inside \in Nat,
           s.buffer > 0 => GapBufferzone(s, layer, inside).gap_error = {},
           ~(s.buffer > 0) => Gap(s, layer, inside).gap_error = {}
    PROVE  \A g \in DOMAIN layer.gaps : GapIsWaived(s, layer.gaps[g], inside, Waivers)
<1> TAKE g \in DOMAIN layer.gaps
<1>1. layer.gaps[g].small \in BOOLEAN /\ layer.gaps[g].core \in BOOLEAN /\ layer.gaps[g].deep \in Int
  BY DEF IsLayer
<1>2. g \in Gaps(layer, inside) => layer.gaps[g].small \/ (s.buffer > 0 /\ ~layer.gaps[g].core)
  <2>1. CASE s.buffer > 0
    <3>1. g \notin GapsWhere(layer, inside, {FALSE}, {TRUE})
      BY <2>1 DEF GapBufferzone
    <3> QED
      BY <1>1, <2>1, <3>1 DEF GapsWhere
  <2>2. CASE ~(s.buffer > 0)
    <3>1. g \notin GapsWhere(layer, inside, {FALSE}, BOOLEAN)
      BY <2>2 DEF Gap
    <3> QED
      BY <1>1, <3>1 DEF GapsWhere
  <2> QED
    BY <2>1, <2>2
<1>3. g \notin Gaps(layer, inside) => layer.gaps[g].deep <= inside
  BY <1>1 DEF Gaps
<1> QED
  BY <1>2, <1>3 DEF GapIsWaived, Waivers

LEMMA CleanMxmu ==
    ASSUME NEW s, s.mxmu \in Nat, NEW layer, IsLayer(layer), Mxmu(s, layer).error = {}
    PROVE  \A f \in Fids(layer) : AreaIsBelow(s, Feature(layer, f), Waivers)
<1> TAKE f \in Fids(layer)
<1>1. Both(Feature(layer, f).says.error, Less(s.mxmu, Feature(layer, f).area)) # "T"
  BY DEF Mxmu, Where
<1>2. Feature(layer, f).area \in Int
  BY DEF IsLayer
<1>3. Feature(layer, f).says.error = "T" => Less(s.mxmu, Feature(layer, f).area) # "T"
  BY <1>1 DEF Both, Less, Truth
<1>4. Less(s.mxmu, Feature(layer, f).area) # "T" =>
          Feature(layer, f).area = Null \/ Feature(layer, f).area <= s.mxmu
  BY <1>2 DEF Less, Truth, Null
<1> QED
  BY <1>3, <1>4 DEF AreaIsBelow, Waivers

LEMMA CleanCompactness ==
    ASSUME NEW s, {s.threshold, s.linear, s.patchy} \subseteq Int \ {Null}, NEW layer, IsLayer(layer),
           Compactness(s, layer).linear_error = {}, Compactness(s, layer).patchy_error = {}
    PROVE  \A f \in Fids(layer) : IsCompact(s, Feature(layer, f), Waivers)
<1> TAKE f \in Fids(layer)
<1> DEFINE x == Feature(layer, f).x
           c == Feature(layer, f).compact
<1>1. /\ Both(Equal(x, s.linear), Less(s.threshold, c)) # "T"
      /\ Both(Equal(x, s.patchy), Negate(Less(s.threshold, c))) # "T"
  BY DEF Compactness, Where
<1>2. x \in Int /\ c \in Int
  BY DEF IsLayer
<1> HIDE DEF x, c
<1>3. c # Null => /\ x = s.linear => c <= s.threshold
                  /\ x = s.patchy => c > s.threshold
  BY <1>1, <1>2 DEF Both, Equal, Less, Negate, Truth
<1> QED
  BY <1>3 DEF x, c, IsCompact, Waivers

LEMMA CleanAttribute ==
    ASSUME NEW s, s.ignored \intersect DOMAIN s.required = {}, NEW layer, NEW types,
           Attribute(s, layer, types).missing = {}, Attribute(s, layer, types).extra = {}
    PROVE  {layer.fields[i].name : i \in DOMAIN layer.fields} \ s.ignored = DOMAIN s.required
<1>1. DOMAIN s.required \subseteq {layer.fields[i].name : i \in DOMAIN layer.fields}
  BY DEF Attribute
<1>2. \A i \in DOMAIN layer.fields : layer.fields[i].name \in s.ignored \union DOMAIN s.required
  BY DEF Attribute, ExtraFields
<1> QED
  BY <1>1, <1>2

\* The tables a check passes a layer with.
Empty(s, tables) ==
    \A t \in DOMAIN tables \ Told : tables[t] = {}

(* A layer that passes a check meets what it asks, but for the waivers.      *)
LEMMA PassedIsClean ==
    ASSUME NEW s, NEW aliases, IsStep(s, aliases), NEW layer, IsLayer(layer),
           NEW first \in BOOLEAN, NEW inside \in Nat,
           Verdict(s, layer, Tables(s, layer, first, inside), first) = "ok"
    PROVE  Clean(s, layer, inside, input.boundary)
<1> DEFINE tables == Tables(s, layer, first, inside)
           verdict == Verdict(s, layer, tables, first)
<1>1. verdict = "ok"
  OBVIOUS
<1>2. ByTables(s) => Empty(s, tables)
  BY <1>1, PassedIsEmpty DEF Empty
<1> HIDE DEF verdict, tables
<1>3. CASE s.check = "geometry"
  <2>1. tables = Geometry(layer)
    BY <1>3 DEF tables, Tables
  <2>2. Geometry(layer).invalid = {}
    BY <1>2, <1>3, <2>1 DEF ByTables, Empty, Told, Geometry
  <2>3. \A f \in Fids(layer) : Feature(layer, f).valid
    BY <2>2 DEF Geometry
  <2> QED
    BY <1>3, <2>3 DEF Clean, Meets
<1>4. CASE s.check = "singlepart"
  <2>1. tables = Singlepart(layer)
    BY <1>4 DEF tables, Tables
  <2>2. Singlepart(layer).multi = {}
    BY <1>2, <1>4, <2>1 DEF ByTables, Empty, Told, Singlepart
  <2>3. \A f \in Fids(layer) : Feature(layer, f).rings <= 1
    BY <2>2 DEF Singlepart, IsLayer
  <2> QED
    BY <1>4, <2>3 DEF Clean, Meets
<1>5. CASE s.check = "mmu"
  <2>1. tables = Mmu(layer)
    BY <1>5 DEF tables, Tables
  <2>2. Mmu(layer).error = {}
    BY <1>2, <1>5, <2>1 DEF ByTables, Empty, Told, Mmu
  <2> QED
    BY <1>5, <2>2, CleanMmu DEF Clean, Meets
<1>6. CASE s.check = "change"
  <2>1. tables = Change(s, layer)
    BY <1>6 DEF tables, Tables
  <2>2. Change(s, layer).error = {}
    BY <1>2, <1>6, <2>1 DEF ByTables, Empty, Told, Change
  <2> QED
    BY <1>6, <2>2, CleanChange DEF Clean, Meets
<1>7. CASE s.check = "enum"
  <2>1. tables = Enum(s, layer, first) /\ DOMAIN s.codes \subseteq {"x", "y", "z"}
    BY <1>7 DEF tables, Tables, IsStep
  <2>2. \A column \in DOMAIN s.codes : Enum(s, layer, first)[column] = {}
    BY <1>2, <1>7, <2>1 DEF ByTables, Empty, Told, Enum
  <2>3. \A f \in Fids(layer) : \A column \in DOMAIN s.codes : CodeIsListed(s, Feature(layer, f), column, Waivers)
    BY <2>2, CleanEnum
  <2> QED
    BY <1>7, <2>3 DEF Clean, Meets
<1>8. CASE s.check = "unique"
  <2>1. tables = Unique(s, layer) /\ s.keys \subseteq {"x", "y", "z"}
    BY <1>8 DEF tables, Tables, IsStep
  <2>2. \A column \in s.keys : Duplicates(layer, column) = {}
    BY <1>2, <1>8, <2>1 DEF ByTables, Empty, Told, Unique
  <2>3. \A f, g \in Fids(layer) : \A column \in s.keys :
            /\ KeyIsTold(Feature(layer, f), column, Waivers)
            /\ f # g /\ Feature(layer, f)[column] # Null => Feature(layer, f)[column] # Feature(layer, g)[column]
    BY <2>2, CleanUnique
  <2> QED
    BY <1>8, <2>3 DEF Clean, Meets
<1>9. CASE s.check = "constant"
  <2>1. tables = Constant(s, layer) /\ s.keys \subseteq {"x", "y", "z"}
    BY <1>9 DEF tables, Tables, IsStep
  <2>2. \A column \in s.keys : Constant(s, layer)[column] = {}
    BY <1>2, <1>9, <2>1 DEF ByTables, Empty, Told, Constant
  <2>3. \A f, g \in Fids(layer) : \A column \in s.keys : Feature(layer, f)[column] = Feature(layer, g)[column]
    BY <2>1, <2>2, CleanConstant
  <2> QED
    BY <1>9, <2>3 DEF Clean, Meets
<1>10. CASE s.check = "nodata"
  <2>1. tables = NoDataValue(s, layer)
    BY <1>10 DEF tables, Tables
  <2>2. NoDataValue(s, layer).error = {}
    BY <1>2, <1>10, <2>1 DEF ByTables, Empty, Told, NoDataValue
  <2> QED
    BY <1>10, <2>2, CleanNoData DEF Clean, Meets
<1>11. CASE s.check = "area"
  <2>1. tables = Area(s, layer) /\ s.tolerance \in Nat
    BY <1>11 DEF tables, Tables, IsStep
  <2>2. Area(s, layer).error = {}
    BY <1>2, <1>11, <2>1 DEF ByTables, Empty, Told, Area
  <2>3. ~DividesByZero(s, layer)
    BY <1>1, <1>11 DEF verdict, Verdict, Crashes
  <2>4. \A f \in Fids(layer) : AreasCoincide(s, Feature(layer, f), Waivers)
    BY <2>1, <2>2, <2>3, CleanArea
  <2> QED
    BY <1>11, <2>4 DEF Clean, Meets
<1>12. CASE s.check = "condition"
  <2>1. /\ tables = Condition(s, layer)
        /\ DOMAIN s.rules \intersect Told = {}
        /\ \A r \in DOMAIN s.rules : \A c \in s.rules[r] : c.value \in Int /\ c.op \in Operators
    BY <1>12 DEF tables, Tables, IsStep
  <2>2. \A r \in DOMAIN s.rules : Condition(s, layer)[r] = {}
    BY <1>2, <1>12, <2>1 DEF ByTables, Empty, Condition
  <2>3. \A f \in Fids(layer) : \A r \in DOMAIN s.rules : ~Violates(s.rules[r], Feature(layer, f))
    BY <2>2 DEF Condition
  <2>4. \A f \in Fids(layer) : \A r \in DOMAIN s.rules : \A c \in s.rules[r] :
            ConditionHolds(c, Feature(layer, f), Waivers)
    BY <2>1, <2>3, CleanCondition
  <2> QED
    BY <1>12, <2>4 DEF Clean, Meets
<1>13. CASE s.check = "neighbour"
  <2>1. tables = Neighbour(s, layer)
    BY <1>13 DEF tables, Tables
  <2>2. Neighbour(s, layer).error = {}
    BY <1>2, <1>13, <2>1 DEF ByTables, Empty, Told, Neighbour
  <2> QED
    BY <1>13, <2>2, CleanNeighbour DEF Clean, Meets
<1>14. CASE s.check = "overlap"
  <2>1. tables = Overlap(s, layer)
    BY <1>14 DEF tables, Tables
  <2>2. Overlap(s, layer).error = {}
    BY <1>2, <1>14, <2>1 DEF ByTables, Empty, Told, Overlap
  <2> QED
    BY <1>14, <2>2, CleanOverlap DEF Clean, Meets
<1>15. CASE s.check = "gap"
  <2>1. tables = IF s.buffer > 0 THEN GapBufferzone(s, layer, inside) ELSE Gap(s, layer, inside)
    BY <1>15 DEF tables, Tables
  <2>2. s.buffer > 0 => GapBufferzone(s, layer, inside).gap_error = {}
    BY <1>2, <1>15, <2>1 DEF ByTables, Empty, Told, GapBufferzone
  <2>3. ~(s.buffer > 0) => Gap(s, layer, inside).gap_error = {} /\ Gap(s, layer, inside).du_error = {}
    BY <1>2, <1>15, <2>1 DEF ByTables, Empty, Told, Gap
  <2>4. \A g \in DOMAIN layer.gaps : GapIsWaived(s, layer.gaps[g], inside, Waivers)
    BY <2>2, <2>3, CleanGap
  <2>5. s.buffer = 0 /\ s.du => layer.strangers = {}
    BY <2>3 DEF Gap
  <2> QED
    BY <1>15, <2>4, <2>5 DEF Clean, Meets
<1>16. CASE s.check = "mxmu"
  <2>1. tables = Mxmu(s, layer)
    BY <1>16 DEF tables, Tables
  <2>2. Mxmu(s, layer).error = {}
    BY <1>2, <1>16, <2>1 DEF ByTables, Empty, Told, Mxmu
  <2>3. s.mxmu \in Nat
    BY <1>16 DEF IsStep
  <2> QED
    BY <1>16, <2>2, <2>3, CleanMxmu DEF Clean, Meets
<1>17. CASE s.check = "compactness"
  <2>1. tables = Compactness(s, layer)
    BY <1>17 DEF tables, Tables
  <2>2. Compactness(s, layer).linear_error = {} /\ Compactness(s, layer).patchy_error = {}
    BY <1>2, <1>17, <2>1 DEF ByTables, Empty, Told, Compactness
  <2>3. {s.threshold, s.linear, s.patchy} \subseteq Int \ {Null}
    BY <1>17 DEF IsStep
  <2> QED
    BY <1>17, <2>2, <2>3, CleanCompactness DEF Clean, Meets
<1>18. CASE s.check = "attribute"
  <2>1. tables = Attribute(s, layer, AttributeTypes)
    BY <1>18 DEF tables, Tables
  <2>2. Attribute(s, layer, AttributeTypes).missing = {} /\ Attribute(s, layer, AttributeTypes).extra = {}
    BY <1>2, <1>18, <2>1 DEF ByTables, Empty, Told, Attribute
  <2>3. s.ignored \intersect DOMAIN s.required = {}
    BY <1>18 DEF IsStep
  <2> QED
    BY <1>18, <2>2, <2>3, CleanAttribute DEF Clean, Meets
<1>19. CASE s.check = "attribute_csv"
  <2>1. tables = Attribute(s, layer, CsvTypes)
    BY <1>19 DEF tables, Tables
  <2>2. Attribute(s, layer, CsvTypes).missing = {} /\ Attribute(s, layer, CsvTypes).extra = {}
    BY <1>2, <1>19, <2>1 DEF ByTables, Empty, Told, Attribute
  <2>3. s.ignored \intersect DOMAIN s.required = {}
    BY <1>19 DEF IsStep
  <2> QED
    BY <1>19, <2>2, <2>3, CleanAttribute DEF Clean, Meets
<1>20. CASE s.check = "epsg_clc"
  <2>1. EpsgClc(layer, IF "boundary" \in DOMAIN defs THEN input.boundary ELSE "none") = "ok"
    BY <1>1, <1>20 DEF verdict, Verdict
  <2>2. layer.srs.code = input.boundary
    BY <2>1 DEF EpsgClc
  <2> QED
    BY <1>20, <2>2 DEF Clean, Meets
<1>21. CASE s.check = "epsg"
  <2>1. ~EpsgIsWrong(s, layer)
    BY <1>1, <1>21 DEF verdict, Verdict
  <2>2. \/ layer.srs.authority = "EPSG" /\ layer.srs.code = s.epsg
        \/ s.auto /\ layer.srs.same
    BY <2>1 DEF EpsgIsWrong, IsLayer
  <2> QED
    BY <1>21, <2>2 DEF Clean, Meets, Waivers
<1>22. CASE s.check \notin {"geometry", "singlepart", "mmu", "change", "enum", "unique", "constant", "nodata", "area",
                           "condition", "neighbour", "overlap", "gap", "mxmu", "compactness", "attribute",
                           "attribute_csv", "epsg_clc", "epsg"}
  BY <1>22 DEF Clean, Meets
<1> QED
  BY <1>3, <1>4, <1>5, <1>6, <1>7, <1>8, <1>9, <1>10, <1>11, <1>12, <1>13, <1>14, <1>15, <1>16, <1>17, <1>18, <1>19,
     <1>20, <1>21, <1>22

(* A layer on which geometry or singlepart does not abort is clean.         *)
LEMMA AbortsOrClean ==
    ASSUME NEW s, s.check \in {"geometry", "singlepart"}, NEW layer, IsLayer(layer),
           NEW first \in BOOLEAN, NEW inside \in Nat,
           Verdict(s, layer, Tables(s, layer, first, inside), first) \in Mild
    PROVE  Clean(s, layer, inside, input.boundary)
<1> DEFINE tables == Tables(s, layer, first, inside)
<1>1. \A t \in DOMAIN tables : t \in Fatal => tables[t] = {}
  BY FatalIsEmpty DEF ByTables
<1>2. CASE s.check = "geometry"
  <2>1. tables = Geometry(layer)
    BY <1>2 DEF Tables
  <2> HIDE DEF tables
  <2>2. Geometry(layer).invalid = {}
    BY <1>1, <2>1 DEF Fatal, Geometry
  <2>3. \A f \in Fids(layer) : Feature(layer, f).valid
    BY <2>2 DEF Geometry
  <2> QED
    BY <1>2, <2>3 DEF Clean, Meets
<1>3. CASE s.check = "singlepart"
  <2>1. tables = Singlepart(layer)
    BY <1>3 DEF Tables
  <2> HIDE DEF tables
  <2>2. Singlepart(layer).multi = {}
    BY <1>1, <2>1 DEF Fatal, Singlepart
  <2>3. \A f \in Fids(layer) : Feature(layer, f).rings <= 1
    BY <2>2 DEF Singlepart, IsLayer
  <2> QED
    BY <1>3, <2>3 DEF Clean, Meets
<1> QED
  BY <1>2, <1>3

(* The boundary only gets smaller, and a layer stays clean.                 *)
LEMMA CleanStays ==
    ASSUME NEW s, NEW layer, IsLayer(layer), NEW inside \in Nat, NEW later \in Nat, NEW code, inside <= later,
           Clean(s, layer, inside, code)
    PROVE  Clean(s, layer, later, code)
<1>1. CASE s.check = "gap"
  <2>1. \A g \in DOMAIN layer.gaps : GapIsWaived(s, layer.gaps[g], later, Waivers)
    <3> TAKE g \in DOMAIN layer.gaps
    <3>1. layer.gaps[g].deep <= inside => layer.gaps[g].deep <= later
      BY DEF IsLayer
    <3>2. GapIsWaived(s, layer.gaps[g], inside, Waivers)
      BY <1>1 DEF Clean, Meets
    <3> QED
      BY <3>1, <3>2 DEF GapIsWaived
  <2>2. s.buffer = 0 /\ s.du => layer.strangers = {}
    BY <1>1 DEF Clean, Meets
  <2> QED
    BY <1>1, <2>1, <2>2 DEF Clean, Meets
<1>2. CASE s.check # "gap"
  BY <1>2 DEF Clean, Meets
<1> QED
  BY <1>1, <1>2

-----------------------------------------------------------------------------
(* Jobs.                                                                    *)

\* The names have been accepted.
Settled == \E n \in DOMAIN outcomes : input.steps[n].check = "naming" /\ outcomes[n] \in Mild

TypeInv ==
    /\ input \in VectorInput /\ naming = input.naming
    /\ step \in 1 .. Len(input.steps) + 1
    /\ layerNr \in Nat \ {0}
    /\ status \in {"ok", "failed", "cancelled", "aborted"}
    /\ outcomes \in Seq(Statuses) /\ Len(outcomes) <= Len(input.steps)
    /\ Running => Len(outcomes) = step - 1 /\ \A k \in DOMAIN outcomes : outcomes[k] \in Mild
    /\ \A k \in DOMAIN outcomes : k < Len(outcomes) => outcomes[k] \in Mild
    /\ ~Running => Len(outcomes) = Len(input.steps) \/ \E k \in DOMAIN outcomes : outcomes[k] \notin Mild
    /\ shrunk \in Nat
    /\ hash \in {"none", "delivery", "archive", "directory"}

NamedInv ==
    /\ NameInv
    /\ \A k \in DOMAIN outcomes : input.steps[k].check = "naming" => NamingDone /\ outcomes[k] = severity

ImportInv ==
    /\ imported.whole \subseteq imported.named /\ imported.named \subseteq DOMAIN defs
    /\ imported.named # {} => Settled
    /\ Running /\ (Step.check # "import" \/ status \in Mild) => imported.whole = imported.named
    /\ Running /\ Step.check = "import" /\ status = "ok" =>
           \A i \in 1 .. layerNr - 1 : i \in DOMAIN Layers => Layers[i] \in imported.whole
    /\ \A k \in DOMAIN outcomes : input.steps[k].check = "import" /\ outcomes[k] = "ok" /\ ~skip =>
           imported.whole = DOMAIN defs

\* The running check has looked at the layers before layerNr, and those of the steps before.
CheckedInv ==
    Running /\ PerLayer /\ Passes(Step, status) =>
        \A i \in 1 .. layerNr - 1 :
            i \in LookedAt(Step, Layers) => Clean(Step, Content(Layers[i]), shrunk, input.boundary)

PastInv ==
    \A k \in DOMAIN outcomes : OfLayers(input.steps[k]) /\ ~skip /\ Passes(input.steps[k], outcomes[k]) =>
        \A i \in LookedAt(input.steps[k], LayersOf(input.steps[k])) :
            Clean(input.steps[k], Content(LayersOf(input.steps[k])[i]), shrunk, input.boundary)

FoundInv ==
    /\ found # {} => Running /\ PerLayer
    /\ \A f \in found : Step.check \notin OfFiles => f.layer \in imported.whole

JobInv ==
    /\ TypeInv /\ NamedInv /\ ImportInv /\ CheckedInv /\ PastInv /\ FoundInv
    /\ ExcludedIsSkipped /\ DividedOnce

(* The steps of a product: the layers are named once, and before any check. *)
LEMMA OneNaming ==
    ASSUME TypeInv
    PROVE  /\ IsNaming(naming)
           /\ input.steps \in Seq(ToSet(input.steps))
           /\ Len(input.steps) \in Nat /\ DOMAIN input.steps = 1 .. Len(input.steps)
           /\ \A k \in DOMAIN input.steps : IsStep(input.steps[k], ToSet(naming.aliases))
           /\ \E n \in DOMAIN input.steps :
                  /\ \A k \in DOMAIN input.steps : input.steps[k].check = "naming" <=> k = n
                  /\ \A k \in DOMAIN input.steps : OfLayers(input.steps[k]) =>
                         n < k /\ (naming.excluded # {} => input.steps[k].check \in SkipAware)
<1>1. IsVectorJob(input) /\ naming = input.naming
  BY VectorAssumption DEF TypeInv
<1>2. input.steps \in Seq(ToSet(input.steps))
  BY <1>1 DEF IsVectorJob, IsSeq
<1>3. Len(input.steps) \in Nat /\ DOMAIN input.steps = 1 .. Len(input.steps)
  BY <1>2
<1>4. \A k \in DOMAIN input.steps : IsStep(input.steps[k], ToSet(naming.aliases))
  BY <1>1 DEF IsVectorJob
<1>5. \E n \in DOMAIN input.steps :
          /\ \A k \in DOMAIN input.steps : input.steps[k].check = "naming" <=> k = n
          /\ \A k \in DOMAIN input.steps : OfLayers(input.steps[k]) =>
                 n < k /\ (naming.excluded # {} => input.steps[k].check \in SkipAware)
  BY <1>1 DEF IsVectorJob
<1>6. IsNaming(naming)
  BY <1>1 DEF IsVectorJob
<1> QED
  BY <1>2, <1>3, <1>4, <1>5, <1>6

LEMMA SettledBefore ==
    ASSUME TypeInv, Running, OfLayers(Step)
    PROVE  Settled
<1>1. PICK n \in DOMAIN input.steps :
          /\ \A k \in DOMAIN input.steps : input.steps[k].check = "naming" <=> k = n
          /\ \A k \in DOMAIN input.steps : OfLayers(input.steps[k]) => n < k
  BY OneNaming
<1>2. step \in DOMAIN input.steps /\ DOMAIN input.steps = 1 .. Len(input.steps) /\ Len(input.steps) \in Nat
  BY OneNaming DEF TypeInv, Running
<1>3. n < step /\ Len(outcomes) = step - 1 /\ DOMAIN outcomes = 1 .. Len(outcomes)
  BY <1>1, <1>2 DEF Step, TypeInv
<1>4. n \in DOMAIN outcomes
  BY <1>2, <1>3
<1> QED
  BY <1>1, <1>4 DEF Settled, TypeInv

(* Once the names have been accepted, they do not change.                   *)
LEMMA SettledStays ==
    ASSUME TypeInv, Settled, Running
    PROVE  Step.check # "naming"
<1>1. PICK n \in DOMAIN input.steps : \A k \in DOMAIN input.steps : input.steps[k].check = "naming" <=> k = n
  BY OneNaming
<1>2. PICK k \in DOMAIN outcomes : input.steps[k].check = "naming"
  BY DEF Settled
<1>3. /\ step \in DOMAIN input.steps /\ DOMAIN input.steps = 1 .. Len(input.steps) /\ Len(input.steps) \in Nat
      /\ DOMAIN outcomes = 1 .. step - 1
  BY OneNaming DEF TypeInv, Running
<1>4. k \in DOMAIN input.steps /\ k # step
  BY <1>2, <1>3
<1> QED
  BY <1>1, <1>2, <1>3, <1>4 DEF Step

(* The elements of a finite set in some order are all of them.              *)
LEMMA InOrder ==
    ASSUME NEW D, IsFiniteSet(D)
    PROVE  SetToSeq(D) \in Seq(D) /\ D \subseteq ToSet(SetToSeq(D))
<1> DEFINE n == Cardinality(D)
           q == SetToSeq(D)
<1>1. n \in Nat /\ ExistsBijection(1 .. n, D)
  BY FS_CardinalityType
<1>2. \E f \in [1 .. n -> D] : IsInjective(f)
  BY <1>1, Fun_ExistsBij DEF Bijection, Injection
<1>3. q \in [1 .. n -> D] /\ IsInjective(q)
  BY <1>2 DEF SetToSeq
<1> HIDE DEF q
<1>4. q \in Seq(D)
  BY <1>1, <1>3
<1>5. ExistsBijection(1 .. n, Range(q))
  BY <1>3, Fun_InjMeansBijImage, Fun_ExistsBij DEF Injection
<1>6. IsFiniteSet(1 .. n) /\ Cardinality(1 .. n) = n
  BY <1>1, FS_Interval
<1>7. Cardinality(Range(q)) = n
  BY <1>5, <1>6, FS_Bijection
<1>8. Range(q) \subseteq D
  BY <1>3 DEF Range
<1>9. Range(q) = D
  BY <1>7, <1>8, FS_Subset
<1> QED
  BY <1>4, <1>9 DEF Range, ToSet, q

(* The layers of a step are layers of the delivery, and the import is of    *)
(* all of them.                                                             *)
LEMMA LayersAreNamed ==
    ASSUME TypeInv, NamedInv, Settled, NEW k \in DOMAIN input.steps, OfLayers(input.steps[k])
    PROVE  /\ LayersOf(input.steps[k]) \in Seq(DOMAIN defs)
           /\ input.steps[k].check = "import" => DOMAIN defs \subseteq ToSet(LayersOf(input.steps[k]))
           /\ \A a \in DOMAIN defs : IsLayer(Content(a))
<1> DEFINE s == input.steps[k]
           aliases == naming.aliases
<1>1. NamingDone /\ Good
  BY DEF Settled, NamedInv, NameInv, NamingTypes, Mild, Good
<1>2. IsNaming(naming) /\ IsStep(s, ToSet(aliases))
  BY OneNaming
<1>3. aliases \in Seq(ToSet(aliases)) /\ naming.files \in Seq(ToSet(naming.files))
  BY <1>2 DEF IsNaming, IsSeq
<1>4. ~naming.takeAll => /\ LayerDefs = ToSet(aliases)
                         /\ "boundary" \in DOMAIN defs => defs["boundary"].file \in naming.boundaries
  <2>1. ~naming.takeAll => AliasInv /\ BoundaryInv
    BY DEF NamedInv, NameInv
  <2>2. todo = <<>> => ToSet(todo) = {}
    BY DEF ToSet
  <2> QED
    BY <1>1, <2>1, <2>2 DEF AliasInv, BoundaryInv, NamingDone
<1>5. naming.takeAll => AllInv /\ aliases = <<>>
  BY <1>2 DEF NamedInv, NameInv, IsNaming
<1>6. \A a \in DOMAIN defs : defs[a].file \in DOMAIN input.contents
  <2>1. naming.boundaries \union {naming.files[j].file : j \in DOMAIN naming.files} \subseteq DOMAIN input.contents
    BY VectorAssumption DEF TypeInv, IsVectorJob
  <2>2. \A a \in DOMAIN defs : \/ \E j \in DOMAIN naming.files : defs[a] = naming.files[j]
                               \/ defs[a].file \in naming.boundaries
    <3>1. CASE naming.takeAll
      BY <1>5, <3>1 DEF AllInv
    <3>2. CASE ~naming.takeAll
      BY <1>4, <3>2 DEF NamedInv, NameInv, AliasInv, LayerDefs
    <3> QED
      BY <3>1, <3>2
  <2> QED
    BY <2>1, <2>2
<1>7. \A a \in DOMAIN defs : IsLayer(Content(a))
  BY <1>6, VectorAssumption DEF TypeInv, IsVectorJob, Content
<1>8. CASE "layers" \in DOMAIN s
  <2>1. s.layers \in Seq(ToSet(s.layers)) /\ ToSet(s.layers) \subseteq ToSet(aliases) /\ s.check # "import"
    BY <1>2, <1>8 DEF IsStep, IsSeq
  <2>2. ToSet(aliases) \subseteq DOMAIN defs
    BY <1>4, <1>5 DEF LayerDefs, ToSet
  <2>3. s.layers \in Seq(DOMAIN defs)
    BY <2>1, <2>2, SeqMonotonic
  <2> QED
    BY <1>7, <1>8, <2>1, <2>3 DEF LayersOf
<1>9. CASE "layers" \notin DOMAIN s /\ naming.takeAll
  <2> DEFINE D == DOMAIN defs
             q == SetToSeq(D)
  <2>1. IsFiniteSet(D)
    <3>1. DOMAIN naming.files = 1 .. Len(naming.files) /\ Len(naming.files) \in Nat
      BY <1>3
    <3>2. IsFiniteSet(1 .. Len(naming.files))
      <4> HIDE DEF D, q
      <4>1. Len(naming.files) \in Int /\ 1 \in Int
        BY <3>1
      <4> QED
        BY <4>1, FS_Interval
    <3>3. IsFiniteSet(DOMAIN naming.files)
      BY <3>1, <3>2
    <3>4. D \subseteq DOMAIN naming.files
      BY <1>5, <1>9 DEF AllInv
    <3> QED
      BY <3>3, <3>4, FS_Subset
  <2>2. q \in Seq(D) /\ D \subseteq ToSet(q)
    BY <2>1, InOrder
  <2>3. LayersOf(s) = q
    BY <1>9 DEF LayersOf
  <2> QED
    BY <1>7, <2>2, <2>3
<1>10. CASE "layers" \notin DOMAIN s /\ ~naming.takeAll
  <2>1. CASE "boundary" \in DOMAIN defs
    <3>1. LayersOf(s) = Append(aliases, "boundary")
      BY <1>10, <2>1 DEF LayersOf
    <3>2. aliases \in Seq(DOMAIN defs)
      BY <1>3, <1>4, <1>10, SeqMonotonic DEF LayerDefs
    <3>3. LayersOf(s) \in Seq(DOMAIN defs)
      BY <2>1, <3>1, <3>2
    <3>4. \A a \in DOMAIN defs : a \in ToSet(LayersOf(s))
      <4> TAKE a \in DOMAIN defs
      <4>1. CASE a = "boundary"
        <5>1. LayersOf(s)[Len(aliases) + 1] = a /\ Len(aliases) + 1 \in DOMAIN LayersOf(s)
          BY <3>1, <3>2, <4>1
        <5> QED
          BY <5>1 DEF ToSet
      <4>2. CASE a # "boundary"
        <5>1. PICK i \in DOMAIN aliases : aliases[i] = a
          BY <1>4, <1>10, <4>2 DEF LayerDefs, ToSet
        <5>2. LayersOf(s)[i] = a /\ i \in DOMAIN LayersOf(s)
          BY <3>1, <3>2, <5>1
        <5> QED
          BY <5>2 DEF ToSet
      <4> QED
        BY <4>1, <4>2
    <3> QED
      BY <1>7, <3>3, <3>4
  <2>2. CASE "boundary" \notin DOMAIN defs
    <3>1. LayersOf(s) = aliases /\ DOMAIN defs = ToSet(aliases)
      BY <1>4, <1>10, <2>2 DEF LayersOf, LayerDefs
    <3> QED
      BY <1>3, <1>7, <3>1
  <2> QED
    BY <2>1, <2>2
<1> QED
  BY <1>8, <1>9, <1>10

(* After a step of layers that has ended, the names have been accepted.     *)
LEMMA SettledPast ==
    ASSUME TypeInv, NEW k \in DOMAIN outcomes, OfLayers(input.steps[k])
    PROVE  Settled /\ k \in DOMAIN input.steps
<1>1. PICK n \in DOMAIN input.steps :
          /\ \A j \in DOMAIN input.steps : input.steps[j].check = "naming" <=> j = n
          /\ \A j \in DOMAIN input.steps : OfLayers(input.steps[j]) => n < j
  BY OneNaming
<1>2. /\ DOMAIN outcomes = 1 .. Len(outcomes) /\ Len(outcomes) \in Nat /\ Len(outcomes) <= Len(input.steps)
      /\ DOMAIN input.steps = 1 .. Len(input.steps) /\ Len(input.steps) \in Nat
      /\ \A j \in DOMAIN outcomes : j < Len(outcomes) => outcomes[j] \in Mild
  BY OneNaming DEF TypeInv
<1>3. k \in DOMAIN input.steps
  BY <1>2
<1>4. n < k /\ n \in DOMAIN outcomes /\ n < Len(outcomes)
  BY <1>1, <1>2, <1>3
<1> QED
  BY <1>1, <1>2, <1>3, <1>4 DEF Settled

(* A delivery that is skipped is of a product all of whose checks are.      *)
LEMMA SkippedIsExcluded ==
    ASSUME TypeInv, NamedInv, Running, OfLayers(Step), skip
    PROVE  Excluded
<1>1. naming.excluded # {}
  BY DEF NamedInv, NameInv
<1>2. step \in DOMAIN input.steps
  BY OneNaming DEF TypeInv, Running
<1>3. Step.check \in SkipAware
  BY <1>1, <1>2, OneNaming DEF Step
<1> QED
  BY <1>3 DEF Excluded

LEMMA NamesStay ==
    ASSUME NameInv, UNCHANGED namingVars
    PROVE  NameInv'
<1>1. /\ naming' = naming /\ stage' = stage /\ infos' = infos /\ todo' = todo /\ defs' = defs
      /\ severity' = severity /\ aoi' = aoi /\ skip' = skip
  BY DEF namingVars
<1>2. NamingTypes'
  BY <1>1 DEF NameInv, NamingTypes
<1>3. naming.takeAll => AllInv'
  BY <1>1 DEF NameInv, AllInv
<1>4. ~naming.takeAll => (AliasInv /\ BoundaryInv /\ AreaInv)'
  BY <1>1 DEF NameInv, AliasInv, BoundaryInv, AreaInv, LayerDefs, Good, AnyCase
<1> QED
  BY <1>1, <1>2, <1>3, <1>4 DEF NameInv

(* What the steps before have found clean stays so.                         *)
LEMMA PastStays ==
    ASSUME JobInv, UNCHANGED <<input, namingVars>>, shrunk' \in Nat, shrunk <= shrunk',
           NEW k \in DOMAIN outcomes, OfLayers(input.steps[k]), ~skip, Passes(input.steps[k], outcomes[k])
    PROVE  \A i \in LookedAt(input.steps[k], LayersOf(input.steps[k])) :
               Clean(input.steps[k], Content(LayersOf(input.steps[k])[i]), shrunk', input.boundary)
<1> DEFINE s == input.steps[k]
           layers == LayersOf(s)
<1>1. Settled /\ k \in DOMAIN input.steps
  BY SettledPast DEF JobInv
<1>2. layers \in Seq(DOMAIN defs) /\ \A a \in DOMAIN defs : IsLayer(Content(a))
  BY <1>1, LayersAreNamed DEF JobInv
<1>3. shrunk \in Nat
  BY DEF JobInv, TypeInv
<1> SUFFICES ASSUME NEW i \in LookedAt(s, layers)
             PROVE  Clean(s, Content(layers[i]), shrunk', input.boundary)
  OBVIOUS
<1>4. Clean(s, Content(layers[i]), shrunk, input.boundary)
  BY DEF JobInv, PastInv
<1>5. i \in DOMAIN layers
  BY DEF LookedAt
<1>6. IsLayer(Content(layers[i]))
  BY <1>2, <1>5
<1> HIDE DEF s, layers
<1> QED
  BY <1>3, <1>4, <1>6, CleanStays

(* The layers of a step are the same ones as long as the names are.         *)
LEMMA LayersStay ==
    ASSUME UNCHANGED <<input, namingVars>>
    PROVE  /\ \A s : LayersOf(s)' = LayersOf(s)
           /\ \A a : Content(a)' = Content(a)
           /\ \A s, layers : LookedAt(s, layers)' = LookedAt(s, layers)
<1>1. input' = input /\ naming' = naming /\ defs' = defs
  BY DEF namingVars
<1> QED
  BY <1>1 DEF LayersOf, Content, LookedAt

(* A step that ends: its outcome is added, and the next one starts.         *)
LEMMA StepEnds ==
    ASSUME JobInv, Running, NEW st \in Statuses, EndStep(st),
           UNCHANGED <<input, imported, namingVars>>,
           shrunk' \in Nat, shrunk <= shrunk', hash' \in {"none", "delivery", "archive", "directory"},
           Step.check = "naming" => NamingDone /\ st = severity,
           OfLayers(Step) /\ ~skip /\ Passes(Step, st) =>
               \A i \in LookedAt(Step, Layers) : Clean(Step, Content(Layers[i]), shrunk', input.boundary),
           Step.check = "import" /\ st = "ok" /\ ~skip => imported.whole = DOMAIN defs,
           st \in Mild => imported.whole = imported.named,
           skip /\ st = "crashed" => Step.check = "naming"
    PROVE  JobInv'
<1>1. /\ step \in DOMAIN input.steps /\ DOMAIN input.steps = 1 .. Len(input.steps) /\ Len(input.steps) \in Nat
      /\ outcomes \in Seq(Statuses) /\ Len(outcomes) = step - 1
      /\ \A k \in DOMAIN outcomes : outcomes[k] \in Mild
  BY OneNaming DEF JobInv, TypeInv, Running
<1>2. /\ outcomes' = Append(outcomes, st)
      /\ step' = IF st \in {"aborted", "crashed"} THEN Len(input.steps) + 1 ELSE step + 1
      /\ layerNr' = 1 /\ status' = "ok" /\ found' = {}
      /\ input' = input /\ naming' = naming /\ defs' = defs /\ imported' = imported /\ skip' = skip
      /\ severity' = severity /\ stage' = stage
  BY DEF EndStep, namingVars
<1>3. /\ outcomes' \in Seq(Statuses) /\ Len(outcomes') = step
      /\ DOMAIN outcomes' = DOMAIN outcomes \union {step}
      /\ \A k \in DOMAIN outcomes : outcomes'[k] = outcomes[k] /\ k < step
      /\ outcomes'[step] = st
  BY <1>1, <1>2
<1>4. st \in Mild <=> st \notin {"aborted", "crashed"}
  BY DEF Mild, Statuses
<1>5. Running' => st \in Mild /\ step' = step + 1
  BY <1>1, <1>2, <1>4 DEF Running
<1>6. TypeInv'
  <2>1. step' \in 1 .. Len(input.steps) + 1
    BY <1>1, <1>2
  <2>2. ~Running' => Len(outcomes') = Len(input.steps) \/ \E k \in DOMAIN outcomes' : outcomes'[k] \notin Mild
    <3>1. CASE st \in Mild
      BY <1>1, <1>2, <1>3, <1>4, <3>1 DEF Running
    <3>2. CASE st \notin Mild
      BY <1>3, <3>2
    <3> QED
      BY <3>1, <3>2
  <2>3. \A k \in DOMAIN outcomes' : k < Len(outcomes') => outcomes'[k] \in Mild
    BY <1>1, <1>3
  <2>4. Running' => Len(outcomes') = step' - 1 /\ \A k \in DOMAIN outcomes' : outcomes'[k] \in Mild
    BY <1>1, <1>3, <1>5
  <2>5. input' \in VectorInput /\ naming' = input'.naming
    BY <1>2 DEF JobInv, TypeInv
  <2>6. Len(outcomes') <= Len(input'.steps)
    BY <1>1, <1>2, <1>3
  <2> QED
    BY <1>2, <1>3, <2>1, <2>2, <2>3, <2>4, <2>5, <2>6 DEF TypeInv
<1>7. NamedInv'
  <2>1. NameInv'
    BY NamesStay DEF JobInv, NamedInv
  <2>2. \A k \in DOMAIN outcomes' : input.steps[k].check = "naming" => NamingDone /\ outcomes'[k] = severity
    BY <1>3 DEF JobInv, NamedInv, Step
  <2> QED
    BY <1>2, <2>1, <2>2 DEF NamedInv, NamingDone
<1>8. ImportInv'
  <2>1. Settled => Settled'
    BY <1>2, <1>3 DEF Settled
  <2>2. 1 .. layerNr' - 1 = {}
    BY <1>2
  <2>3. \A k \in DOMAIN outcomes' : input.steps[k].check = "import" /\ outcomes'[k] = "ok" /\ ~skip =>
            imported.whole = DOMAIN defs
    BY <1>3 DEF JobInv, ImportInv, Step
  <2> QED
    BY <1>2, <1>5, <2>1, <2>2, <2>3 DEF JobInv, ImportInv
<1>9. CheckedInv'
  <2>1. 1 .. layerNr' - 1 = {}
    BY <1>2
  <2> QED
    BY <2>1 DEF CheckedInv
<1>10. PastInv'
  <2>1. SUFFICES ASSUME NEW k \in DOMAIN outcomes', OfLayers(input.steps[k]), ~skip, Passes(input.steps[k], outcomes'[k])
                 PROVE  \A i \in LookedAt(input.steps[k], LayersOf(input.steps[k])) :
                            Clean(input.steps[k], Content(LayersOf(input.steps[k])[i]), shrunk', input.boundary)
    <3>1. /\ \A s : LayersOf(s)' = LayersOf(s)
          /\ \A a : Content(a)' = Content(a)
          /\ \A s, layers : LookedAt(s, layers)' = LookedAt(s, layers)
      BY LayersStay
    <3> QED
      BY <1>2, <3>1 DEF PastInv, LayersOf, Content, LookedAt
  <2>2. CASE k \in DOMAIN outcomes
    BY <1>3, <2>1, <2>2, PastStays
  <2>3. CASE k = step
    BY <1>3, <2>1, <2>3 DEF Step, Layers
  <2> QED
    BY <1>3, <2>2, <2>3
<1>11. FoundInv' /\ DividedOnce'
  BY <1>2 DEF FoundInv, DividedOnce
<1>12. ExcludedIsSkipped'
  <2>1. \A k \in DOMAIN outcomes' : skip /\ outcomes'[k] = "crashed" => input.steps[k].check = "naming"
    BY <1>3 DEF JobInv, ExcludedIsSkipped, Step
  <2> QED
    BY <1>2, <2>1 DEF JobInv, ExcludedIsSkipped
<1> QED
  BY <1>6, <1>7, <1>8, <1>9, <1>10, <1>11, <1>12 DEF JobInv
LEMMA JobStarts ==
    ASSUME VectorInit
    PROVE  JobInv
<1>1. IsVectorJob(input) /\ naming = input.naming /\ input \in VectorInput
  BY VectorAssumption DEF VectorInit, NamingInit
<1>2. input.steps \in Seq(ToSet(input.steps)) /\ IsNaming(naming)
  BY <1>1 DEF IsVectorJob, IsSeq
<1>3. Len(input.steps) \in Nat /\ DOMAIN input.steps = 1 .. Len(input.steps) /\ DOMAIN input.steps # {}
  BY <1>1, <1>2 DEF IsVectorJob
<1>4. NameInv
  BY <1>1, <1>2, NamingStarts DEF VectorInit
<1>5. DOMAIN outcomes = {} /\ Len(outcomes) = 0 /\ outcomes \in Seq(Statuses)
  BY DEF VectorInit
<1>6. step = 1 /\ Running
  BY <1>3 DEF VectorInit, Running
<1>7. TypeInv
  BY <1>1, <1>3, <1>5, <1>6 DEF TypeInv, VectorInit
<1>8. NamedInv /\ PastInv
  BY <1>4, <1>5 DEF NamedInv, PastInv
<1>9. 1 .. layerNr - 1 = {}
  BY DEF VectorInit
<1>10. ImportInv
  BY <1>5, <1>9 DEF ImportInv, VectorInit, NamingInit, NoDefs
<1>11. CheckedInv
  BY <1>9 DEF CheckedInv
<1>12. FoundInv /\ DividedOnce /\ ExcludedIsSkipped
  BY <1>5 DEF FoundInv, DividedOnce, ExcludedIsSkipped, VectorInit, NamingInit
<1> QED
  BY <1>7, <1>8, <1>10, <1>11, <1>12 DEF JobInv

(* A step without layers that ends mildly keeps the job's facts.            *)
LEMMA UnzipKeeps ==
    ASSUME JobInv, Unzip
    PROVE  JobInv'
<1>1. PICK st \in {"ok", "aborted"} : EndStep(st)
  BY DEF Unzip
<1>2. Running /\ Step.check = "unzip" /\ UNCHANGED <<input, imported, shrunk, hash, namingVars>>
  BY DEF Unzip
<1>3. imported.whole = imported.named
  BY <1>2 DEF JobInv, ImportInv
<1> QED
  BY <1>1, <1>2, <1>3, StepEnds DEF JobInv, TypeInv, Statuses, OfLayers

LEMMA DownloadKeeps ==
    ASSUME JobInv, S3Download
    PROVE  JobInv'
<1>1. PICK st \in {"ok", "aborted"} : EndStep(st)
  BY DEF S3Download
<1>2. Running /\ Step.check = "s3_download" /\ UNCHANGED <<input, imported, shrunk, namingVars>>
  BY DEF S3Download
<1>3. hash' \in {hash, "directory", "archive"}
  BY DEF S3Download
<1>4. imported.whole = imported.named
  BY <1>2 DEF JobInv, ImportInv
<1> QED
  BY <1>1, <1>2, <1>3, <1>4, StepEnds DEF JobInv, TypeInv, Statuses, OfLayers

LEMMA NamingEndsKeep ==
    ASSUME JobInv, NamingEnds
    PROVE  JobInv'
<1>1. severity \in Statuses
  BY DEF JobInv, NamedInv, NameInv, NamingTypes, Statuses
<1>2. /\ Running /\ Step.check = "naming" /\ NamingDone /\ EndStep(severity)
      /\ UNCHANGED <<input, imported, shrunk, hash, namingVars>>
  BY DEF NamingEnds
<1>3. imported.whole = imported.named
  BY <1>2 DEF JobInv, ImportInv
<1> QED
  BY <1>1, <1>2, <1>3, StepEnds DEF JobInv, TypeInv, OfLayers

LEMMA DocumentsKeep ==
    ASSUME JobInv, CheckDocuments
    PROVE  JobInv'
<1>1. PICK st \in {"ok", "failed"} : EndStep(st)
  BY DEF CheckDocuments
<1>2. Running /\ Step.check = "document" /\ UNCHANGED <<input, imported, shrunk, hash, namingVars>>
  BY DEF CheckDocuments
<1>3. imported.whole = imported.named
  BY <1>2 DEF JobInv, ImportInv
<1> QED
  BY <1>1, <1>2, <1>3, StepEnds DEF JobInv, TypeInv, Statuses, OfLayers

(* A step whose last layer has been looked at knows them all.               *)
LEMMA LayersEnd ==
    ASSUME JobInv, LayersChecked
    PROVE  JobInv'
<1> DEFINE st == IF ~Excluded /\ NoBoundary THEN "cancelled" ELSE status
<1>1. /\ Running /\ OfLayers(Step) /\ EndStep(st)
      /\ Excluded \/ NoBoundary \/ layerNr > Len(Layers)
      /\ UNCHANGED <<input, imported, shrunk, hash, namingVars>>
  BY DEF LayersChecked
<1>2. st \in Statuses /\ st # "crashed"
  BY DEF JobInv, TypeInv, Statuses
<1>3. Step.check # "naming"
  BY <1>1 DEF OfLayers
<1>4. step \in DOMAIN input.steps /\ Settled
  BY <1>1, OneNaming, SettledBefore DEF JobInv, TypeInv, Running
<1>5. Layers \in Seq(DOMAIN defs) /\ (Step.check = "import" => DOMAIN defs \subseteq ToSet(Layers))
  BY <1>1, <1>4, LayersAreNamed DEF Step, Layers, JobInv
<1>6. DOMAIN Layers = 1 .. Len(Layers) /\ Len(Layers) \in Nat /\ layerNr \in Nat
  BY <1>5 DEF JobInv, TypeInv
<1>7. ASSUME ~skip, Passes(Step, st)
      PROVE  layerNr > Len(Layers) /\ st = status
  BY <1>1, <1>7 DEF Excluded, NoBoundary, Passes
<1>8. ASSUME ~skip, Passes(Step, st), NEW i \in LookedAt(Step, Layers)
      PROVE  Clean(Step, Content(Layers[i]), shrunk', input.boundary)
  <2>1. i \in 1 .. layerNr - 1
    BY <1>6, <1>7, <1>8 DEF LookedAt
  <2>2. CASE Step.check = "import"
    BY <2>2 DEF Clean, Meets
  <2>3. CASE Step.check # "import"
    BY <1>1, <1>7, <1>8, <2>1, <2>3 DEF JobInv, CheckedInv, PerLayer
  <2> QED
    BY <2>2, <2>3
<1>9. ASSUME Step.check = "import", st = "ok", ~skip
      PROVE  imported.whole = DOMAIN defs
  <2>1. layerNr > Len(Layers) /\ status = "ok"
    BY <1>7, <1>9 DEF Passes
  <2>2. \A i \in DOMAIN Layers : Layers[i] \in imported.whole
    BY <1>1, <1>6, <1>9, <2>1 DEF JobInv, ImportInv
  <2>3. DOMAIN defs \subseteq imported.whole
    BY <1>5, <1>9, <2>2 DEF ToSet
  <2> QED
    BY <2>3 DEF JobInv, ImportInv
<1>10. st \in Mild => imported.whole = imported.named
  <2>1. Step.check = "import" => st = status
    BY DEF NoBoundary
  <2> QED
    BY <1>1, <2>1 DEF JobInv, ImportInv
<1> HIDE DEF st
<1> QED
  BY <1>1, <1>2, <1>3, <1>8, <1>9, <1>10, StepEnds DEF JobInv, TypeInv
(* As long as the names are looked at no layer is, so none can change.      *)
LEMMA NamesKeep ==
    ASSUME JobInv, NamingStep
    PROVE  JobInv'
<1>1. Running /\ Step.check = "naming" /\ NamingNext /\ UNCHANGED jobVars
  BY DEF NamingStep
<1>2. ~Settled
  BY <1>1, SettledStays DEF JobInv
<1>3. NameInv' /\ naming' = naming
  BY <1>1, NamingKeeps, OneNaming DEF JobInv, NamedInv
<1>4. imported.named = {} /\ imported.whole = {} /\ found = {}
  BY <1>1, <1>2 DEF JobInv, ImportInv, FoundInv, PerLayer, OfLayers
<1>5. /\ input' = input /\ step' = step /\ layerNr' = layerNr /\ status' = status /\ found' = found
      /\ outcomes' = outcomes /\ imported' = imported /\ shrunk' = shrunk /\ hash' = hash
  BY <1>1 DEF jobVars
<1>6. \A k \in DOMAIN outcomes : outcomes[k] \in Mild /\ outcomes[k] # "crashed"
  BY <1>1 DEF JobInv, TypeInv, Mild
<1>7. \A k \in DOMAIN outcomes : ~OfLayers(input.steps[k])
  BY <1>2, SettledPast DEF JobInv
<1>8. \A k \in DOMAIN outcomes : input.steps[k].check # "naming"
  BY <1>2, <1>6 DEF Settled
<1>9. \A k \in DOMAIN outcomes : input.steps[k].check # "import"
  BY <1>7 DEF OfLayers
<1>10. TypeInv'
  BY <1>3, <1>5 DEF JobInv, TypeInv, Running
<1>11. NamedInv'
  BY <1>3, <1>5, <1>8 DEF NamedInv
<1>12. ImportInv'
  BY <1>1, <1>4, <1>5, <1>9 DEF ImportInv, Step
<1>13. CheckedInv'
  BY <1>1, <1>5 DEF CheckedInv, PerLayer, Step, OfLayers
<1>14. PastInv'
  BY <1>5, <1>7 DEF PastInv, OfLayers
<1>15. FoundInv' /\ DividedOnce'
  BY <1>4, <1>5 DEF FoundInv, DividedOnce
<1>16. ExcludedIsSkipped'
  BY <1>4, <1>5, <1>6 DEF ExcludedIsSkipped
<1> QED
  BY <1>10, <1>11, <1>12, <1>13, <1>14, <1>15, <1>16 DEF JobInv

(* What the layers of the steps before are like is kept by whatever goes    *)
(* on with the running step.                                                *)
LEMMA PastKeeps ==
    ASSUME JobInv, UNCHANGED <<input, outcomes, namingVars>>, shrunk' \in Nat, shrunk <= shrunk'
    PROVE  PastInv'
<1>1. /\ \A s : LayersOf(s)' = LayersOf(s)
      /\ \A a : Content(a)' = Content(a)
      /\ \A s, layers : LookedAt(s, layers)' = LookedAt(s, layers)
  BY LayersStay
<1>2. SUFFICES ASSUME NEW k \in DOMAIN outcomes, OfLayers(input.steps[k]), ~skip, Passes(input.steps[k], outcomes[k])
               PROVE  \A i \in LookedAt(input.steps[k], LayersOf(input.steps[k])) :
                          Clean(input.steps[k], Content(LayersOf(input.steps[k])[i]), shrunk', input.boundary)
  BY <1>1 DEF PastInv, LayersOf, Content, LookedAt, namingVars
<1> QED
  BY <1>2, PastStays

(* An imported layer is one of the delivery; if it is not imported entirely *)
(* the job is aborted.                                                      *)
LEMMA ImportKeeps ==
    ASSUME JobInv, ImportLayer
    PROVE  JobInv'
<1> DEFINE alias == Layers[layerNr]
           loads == Content(alias).loads
           new   == IF loads = "all" THEN "ok" ELSE "aborted"
<1>1. /\ Running /\ Step.check = "import" /\ ~Excluded /\ layerNr <= Len(Layers)
      /\ layerNr' = layerNr + 1 /\ UNCHANGED <<input, step, found, outcomes, shrunk, hash, namingVars>>
  BY DEF ImportLayer
<1>2. /\ status' = Worst(status, new)
      /\ imported' = [named |-> imported.named \union IF loads \in {"all", "part"} THEN {alias} ELSE {},
                      whole |-> imported.whole \union IF loads = "all" THEN {alias} ELSE {}]
  BY DEF ImportLayer
<1>3. ~skip /\ Settled
  BY <1>1, SkippedIsExcluded, SettledBefore DEF JobInv, OfLayers
<1>4. Layers \in Seq(DOMAIN defs)
  BY <1>1, <1>3, LayersAreNamed, OneNaming DEF JobInv, TypeInv, OfLayers, Layers, Step, Running
<1>5. layerNr \in Nat \ {0} /\ alias \in DOMAIN defs
  BY <1>1, <1>4 DEF JobInv, TypeInv
<1>6. /\ status \in {"ok", "failed", "cancelled", "aborted"} /\ status' \in {"ok", "failed", "cancelled", "aborted"}
      /\ status' = "ok" => status = "ok" /\ loads = "all"
      /\ status' \in Mild => status \in Mild /\ loads = "all"
  BY <1>2 DEF JobInv, TypeInv, Worst, WorstOf, Mild
<1> HIDE DEF alias, loads, new
<1>7. /\ input' = input /\ step' = step /\ found' = found /\ outcomes' = outcomes /\ shrunk' = shrunk /\ hash' = hash
      /\ naming' = naming /\ defs' = defs /\ skip' = skip /\ stage' = stage /\ severity' = severity
  BY <1>1 DEF namingVars
<1>8. TypeInv'
  BY <1>1, <1>5, <1>6, <1>7 DEF JobInv, TypeInv, Running
<1>9. NamedInv'
  BY <1>1, <1>7, NamesStay DEF JobInv, NamedInv, NamingDone
<1>10. /\ imported'.whole \subseteq imported'.named /\ imported'.named \subseteq DOMAIN defs
       /\ imported.whole \subseteq imported'.whole
       /\ loads = "all" => imported'.whole = imported.whole \union {alias}
                           /\ imported'.named = imported.named \union {alias}
  BY <1>2, <1>5 DEF JobInv, ImportInv
<1>11. \A k \in DOMAIN outcomes : input.steps[k].check = "import" /\ outcomes[k] = "ok" =>
           imported'.whole = DOMAIN defs
  BY <1>3, <1>10 DEF JobInv, ImportInv
<1>12. Layers' = Layers /\ Step' = Step /\ Settled' = Settled /\ Running' = Running
  BY <1>7 DEF Layers, LayersOf, Step, Settled, Running
<1>13. status' \in Mild => imported'.whole = imported'.named
  BY <1>1, <1>6, <1>10 DEF JobInv, ImportInv
<1>14. ASSUME status' = "ok", NEW i \in 1 .. layerNr' - 1, i \in DOMAIN Layers
       PROVE  Layers[i] \in imported'.whole
  <2>1. i = layerNr \/ i \in 1 .. layerNr - 1
    BY <1>1, <1>5
  <2>2. CASE i = layerNr
    BY <1>6, <1>10, <1>14, <2>2 DEF alias
  <2>3. CASE i \in 1 .. layerNr - 1
    BY <1>1, <1>6, <1>10, <1>14, <2>3 DEF JobInv, ImportInv
  <2> QED
    BY <2>1, <2>2, <2>3
<1>15. ImportInv'
  BY <1>1, <1>3, <1>7, <1>10, <1>11, <1>12, <1>13, <1>14 DEF ImportInv
<1>16. CheckedInv' /\ FoundInv' /\ DividedOnce'
  <2>1. found = {}
    BY <1>1 DEF JobInv, FoundInv, PerLayer
  <2> QED
    BY <1>1, <1>7, <1>12, <2>1 DEF CheckedInv, FoundInv, DividedOnce, PerLayer
<1>17. PastInv'
  BY <1>1, PastKeeps DEF JobInv, TypeInv
<1>18. ExcludedIsSkipped'
  BY <1>3, <1>7 DEF ExcludedIsSkipped
<1> QED
  BY <1>8, <1>9, <1>15, <1>16, <1>17, <1>18 DEF JobInv
(* What a check finds is divided, whatever layer it looks at.               *)
LEMMA FoundIsDivided ==
    ASSUME NEW s, NEW layer, IsLayer(layer), NEW first, NEW inside
    PROVE  /\ s.check \in {"mmu", "mmw", "change"} => Divides(Tables(s, layer, first, inside), Fids(layer))
           /\ s.check = "gap" =>
                  Divides([t \in DOMAIN Tables(s, layer, first, inside) \ {"du_error"} |-> Tables(s, layer, first, inside)[t]],
                          IF s.tolerant THEN Gaps(layer, inside) ELSE GapsWhere(layer, inside, {FALSE}, BOOLEAN))
<1>1. CASE s.check = "mmu"
  BY <1>1, MmuDivides DEF Tables
<1>2. CASE s.check = "mmw"
  BY <1>2, MmwDivides DEF Tables
<1>3. CASE s.check = "change"
  BY <1>3, ChangeDivides DEF Tables
<1>4. CASE s.check = "gap"
  <2>1. Tables(s, layer, first, inside) \in {Gap(s, layer, inside), GapBufferzone(s, layer, inside)}
    BY <1>4 DEF Tables
  <2> QED
    BY <1>4, <2>1, GapDivides
<1> QED
  BY <1>1, <1>2, <1>3, <1>4

(* A check looks at a layer that the delivery has and, unless it reads the  *)
(* file, that is imported entirely.                                         *)
LEMMA CheckMeets ==
    ASSUME JobInv, CheckLayer
    PROVE  /\ ~skip
           /\ shrunk' \in Nat /\ shrunk <= shrunk'
           /\ IsStep(Step, ToSet(naming.aliases))
           /\ Layers \in Seq(DOMAIN defs) /\ layerNr \in DOMAIN Layers
           /\ \A a \in DOMAIN defs : IsLayer(Content(a))
           /\ imported.whole = imported.named
<1>1. Running /\ PerLayer /\ ~Excluded /\ layerNr <= Len(Layers)
  BY DEF CheckLayer
<1>2. ~skip /\ Settled
  BY <1>1, SkippedIsExcluded, SettledBefore DEF JobInv, PerLayer
<1>3. step \in DOMAIN input.steps
  BY <1>1, OneNaming DEF JobInv, TypeInv, Running
<1>4. Layers \in Seq(DOMAIN defs) /\ \A a \in DOMAIN defs : IsLayer(Content(a))
  BY <1>1, <1>2, <1>3, LayersAreNamed DEF JobInv, PerLayer, Layers, Step
<1>5. IsStep(Step, ToSet(naming.aliases))
  BY <1>3, OneNaming DEF JobInv, Step
<1>6. layerNr \in DOMAIN Layers
  BY <1>1, <1>4 DEF JobInv, TypeInv
<1>7. shrunk' \in Nat /\ shrunk <= shrunk'
  <2>1. Shrinks => Step.boundaryTolerance \in Nat
    BY <1>5 DEF Shrinks, IsStep
  <2>2. shrunk' = IF Shrinks THEN shrunk + Step.boundaryTolerance ELSE shrunk
    BY DEF CheckLayer
  <2>3. shrunk \in Nat
    BY DEF JobInv, TypeInv
  <2> QED
    BY <2>1, <2>2, <2>3
<1>8. imported.whole = imported.named
  BY <1>1 DEF JobInv, ImportInv, PerLayer
<1> QED
  BY <1>2, <1>4, <1>5, <1>6, <1>7, <1>8

(* A check either crashes and ends the job, or knows one layer more.        *)
LEMMA CheckKeeps ==
    ASSUME JobInv, CheckLayer
    PROVE  JobInv'
<1> DEFINE alias   == Layers[layerNr]
           layer   == Content(alias)
           first   == layerNr = 1
           tables  == Tables(Step, layer, first, shrunk')
           verdict == Verdict(Step, layer, tables, first)
           one     == [layer |-> alias, tables |-> tables, shrunk |-> shrunk']
<1>1. Running /\ PerLayer /\ UNCHANGED <<input, imported, hash, namingVars>>
  BY DEF CheckLayer
<1>2. /\ ~skip
      /\ shrunk' \in Nat /\ shrunk <= shrunk'
      /\ IsStep(Step, ToSet(naming.aliases))
      /\ Layers \in Seq(DOMAIN defs) /\ layerNr \in DOMAIN Layers
      /\ \A a \in DOMAIN defs : IsLayer(Content(a))
      /\ imported.whole = imported.named
  BY CheckMeets
<1>3. CASE EndStep("crashed")
  <2>1. "crashed" \in Statuses /\ ~("crashed" \in Mild) /\ ~Passes(Step, "crashed") /\ Step.check # "naming"
    BY <1>1 DEF Statuses, Mild, Passes, PerLayer, OfLayers
  <2> QED
    BY <1>1, <1>2, <1>3, <2>1, StepEnds DEF JobInv, TypeInv
<1>4. CASE /\ verdict # "crashed" /\ (Step.check \in OfFiles \/ alias \in imported.named)
           /\ status' = Worst(status, verdict)
           /\ found' = found \union {one}
           /\ layerNr' = IF Returns(Step, layer, verdict) THEN Len(Layers) + 1 ELSE layerNr + 1
           /\ UNCHANGED <<step, outcomes>>
  <2>1. IsLayer(layer) /\ first \in BOOLEAN /\ verdict \in Statuses /\ alias \in DOMAIN defs
    BY <1>2, VerdictIsStatus
  <2>2. one.layer = alias /\ one.tables = tables /\ one.shrunk = shrunk' /\ layer = Content(alias)
    OBVIOUS
  <2>3. alias = Layers[layerNr]
    OBVIOUS
  <2> HIDE DEF alias, layer, first, tables, verdict, one
  <2>4. /\ status \in {"ok", "failed", "cancelled", "aborted"}
        /\ status' \in {"ok", "failed", "cancelled", "aborted"}
        /\ Passes(Step, status') => Passes(Step, status) /\ Passes(Step, verdict)
    <3>1. status \in {"ok", "failed", "cancelled", "aborted"} /\ status \in Statuses
      BY DEF JobInv, TypeInv, Statuses
    <3>2. /\ Worst(status, verdict) \in {status, verdict}
          /\ Worst(status, verdict) = "ok" => status = "ok" /\ verdict = "ok"
          /\ Worst(status, verdict) \in Mild => status \in Mild /\ verdict \in Mild
      BY <2>1, <3>1, WorstIsWorst
    <3> QED
      BY <1>4, <2>1, <3>1, <3>2 DEF Passes, Statuses
  <2>5. Passes(Step, verdict) => Clean(Step, layer, shrunk', input.boundary)
    BY <1>2, <2>1, PassedIsClean, AbortsOrClean DEF Passes, verdict, tables
  <2>6. Step.check \in {"mmu", "mmw", "change"} => Divides(tables, Fids(layer))
    BY <2>1, FoundIsDivided DEF tables
  <2>7. Step.check = "gap" =>
            Divides([t \in DOMAIN tables \ {"du_error"} |-> tables[t]],
                    IF Step.tolerant THEN Gaps(layer, shrunk') ELSE GapsWhere(layer, shrunk', {FALSE}, BOOLEAN))
    BY <2>1, FoundIsDivided DEF tables
  <2>8. DOMAIN Layers = 1 .. Len(Layers) /\ Len(Layers) \in Nat /\ layerNr \in Nat /\ layerNr' \in Nat \ {0}
    BY <1>2, <1>4
  <2>9. ASSUME Returns(Step, layer, verdict), Passes(Step, verdict)
        PROVE  Step.check \in {"neighbour", "overlap"} /\ NoFeature(layer)
    BY <2>9 DEF Returns, Passes
  <2>10. /\ input' = input /\ step' = step /\ outcomes' = outcomes /\ imported' = imported /\ hash' = hash
         /\ naming' = naming /\ defs' = defs /\ skip' = skip /\ stage' = stage /\ severity' = severity
    BY <1>1, <1>4 DEF namingVars
  <2>11. /\ Layers' = Layers /\ Step' = Step /\ Settled' = Settled /\ Running' = Running /\ PerLayer' = PerLayer
         /\ \A a : Content(a)' = Content(a)
         /\ \A s, layers : LookedAt(s, layers)' = LookedAt(s, layers)
    BY <1>1, <2>10, LayersStay DEF Layers, LayersOf, Step, Settled, Running, PerLayer
  <2>12. TypeInv'
    BY <1>2, <2>4, <2>8, <2>10, <2>11 DEF JobInv, TypeInv
  <2>13. NamedInv'
    BY <1>1, <2>10, NamesStay DEF JobInv, NamedInv, NamingDone
  <2>14. ImportInv'
    BY <1>1, <1>2, <2>10, <2>11 DEF JobInv, ImportInv, PerLayer
  <2>15. ASSUME Passes(Step, status'), NEW i \in 1 .. layerNr' - 1, i \in LookedAt(Step, Layers)
         PROVE  Clean(Step, Content(Layers[i]), shrunk', input.boundary)
    <3>1. i \in DOMAIN Layers
      BY <2>15 DEF LookedAt
    <3>2. i <= layerNr
      <4>1. CASE Returns(Step, layer, verdict)
        <5>1. Step.check \in {"neighbour", "overlap"} /\ NoFeature(Content(Layers[layerNr]))
          BY <2>2, <2>3, <2>4, <2>9, <2>15, <4>1
        <5>2. \A j \in 1 .. i - 1 : ~NoFeature(Content(Layers[j]))
          BY <2>15, <5>1 DEF LookedAt
        <5> QED
          BY <1>2, <2>8, <3>1, <5>1, <5>2
      <4>2. CASE ~Returns(Step, layer, verdict)
        BY <1>4, <2>8, <4>2
      <4> QED
        BY <4>1, <4>2
    <3>3. CASE i = layerNr
      BY <2>2, <2>3, <2>4, <2>5, <2>15, <3>3
    <3>4. CASE i < layerNr
      <4>1. Clean(Step, Content(Layers[i]), shrunk, input.boundary)
        BY <1>1, <2>4, <2>8, <2>15, <3>1, <3>4 DEF JobInv, CheckedInv
      <4>2. IsLayer(Content(Layers[i]))
        BY <1>2, <3>1
      <4> QED
        BY <1>2, <4>1, <4>2, CleanStays DEF JobInv, TypeInv
    <3> QED
      BY <2>8, <3>1, <3>2, <3>3, <3>4
  <2>16. CheckedInv'
    BY <2>10, <2>11, <2>15 DEF CheckedInv, Content
  <2>17. PastInv'
    BY <1>1, <1>2, <1>4, PastKeeps
  <2>18. FoundInv'
    <3>1. \A f \in found' : Step.check \notin OfFiles => f.layer \in imported.whole
      BY <1>2, <1>4, <2>2 DEF JobInv, FoundInv
    <3> QED
      BY <1>1, <2>10, <2>11, <3>1 DEF FoundInv
  <2>19. DividedOnce'
    <3>1. \A f \in found' :
              /\ Step.check \in {"mmu", "mmw", "change"} => Divides(f.tables, Fids(Content(f.layer)))
              /\ Step.check = "gap" =>
                     Divides([t \in DOMAIN f.tables \ {"du_error"} |-> f.tables[t]],
                             IF Step.tolerant THEN Gaps(Content(f.layer), f.shrunk)
                             ELSE GapsWhere(Content(f.layer), f.shrunk, {FALSE}, BOOLEAN))
      <4> TAKE f \in found'
      <4>1. CASE f \in found
        BY <4>1 DEF JobInv, DividedOnce
      <4>2. CASE f = one
        BY <2>2, <2>6, <2>7, <4>2
      <4> QED
        BY <1>4, <4>1, <4>2
    <3> QED
      BY <2>10, <2>11, <3>1 DEF DividedOnce, Content
  <2>20. ExcludedIsSkipped'
    BY <1>2, <2>10 DEF ExcludedIsSkipped
  <2> QED
    BY <2>12, <2>13, <2>14, <2>16, <2>17, <2>18, <2>19, <2>20 DEF JobInv
<1> QED
  BY <1>3, <1>4 DEF CheckLayer

LEMMA JobStays ==
    ASSUME JobInv, UNCHANGED vectorVars
    PROVE  JobInv'
<1>1. /\ input' = input /\ step' = step /\ layerNr' = layerNr /\ status' = status /\ found' = found
      /\ outcomes' = outcomes /\ imported' = imported /\ shrunk' = shrunk /\ hash' = hash
      /\ naming' = naming /\ defs' = defs /\ skip' = skip /\ stage' = stage /\ severity' = severity
      /\ UNCHANGED namingVars
  BY DEF vectorVars, jobVars, namingVars
<1>2. /\ Layers' = Layers /\ Step' = Step /\ Settled' = Settled /\ Running' = Running /\ PerLayer' = PerLayer
      /\ \A a : Content(a)' = Content(a)
      /\ \A s, layers : LookedAt(s, layers)' = LookedAt(s, layers)
  BY <1>1, LayersStay DEF Layers, LayersOf, Step, Settled, Running, PerLayer
<1>3. TypeInv'
  BY <1>1, <1>2 DEF JobInv, TypeInv
<1>4. NamedInv'
  BY <1>1, NamesStay DEF JobInv, NamedInv, NamingDone
<1>5. ImportInv'
  BY <1>1, <1>2 DEF JobInv, ImportInv
<1>6. CheckedInv'
  BY <1>1, <1>2 DEF JobInv, CheckedInv, Content
<1>7. PastInv'
  BY <1>1, PastKeeps DEF JobInv, TypeInv
<1>8. FoundInv'
  BY <1>1, <1>2 DEF JobInv, FoundInv
<1>9. DividedOnce'
  BY <1>1, <1>2 DEF JobInv, DividedOnce, Content
<1>10. ExcludedIsSkipped'
  BY <1>1 DEF JobInv, ExcludedIsSkipped
<1> QED
  BY <1>3, <1>4, <1>5, <1>6, <1>7, <1>8, <1>9, <1>10 DEF JobInv

LEMMA JobKeeps ==
    ASSUME JobInv, [VectorNext]_vectorVars
    PROVE  JobInv'
<1>1. CASE UNCHANGED vectorVars
  BY <1>1, JobStays
<1>2. CASE VectorNext
  BY <1>1, <1>2, UnzipKeeps, DownloadKeeps, NamesKeep, NamingEndsKeep, ImportKeeps, CheckKeeps, DocumentsKeep, LayersEnd
     DEF VectorNext, Ended
<1> QED
  BY <1>1, <1>2

(* The inductive invariant of the jobs of vector products holds: names and  *)
(* layers go together, what is imported is known, and every step that has   *)
(* passed has left its layers clean (worker/dispatch.py, helper.py).        *)
THEOREM JobIsConsistent == VectorSpec => []JobInv
<1>1. VectorInit => JobInv
  BY JobStarts
<1>2. JobInv /\ [VectorNext]_vectorVars => JobInv'
  BY JobKeeps
<1> QED
  BY <1>1, <1>2, PTL DEF VectorSpec
-----------------------------------------------------------------------------
(* Theorems, from the invariant of the jobs.                                *)

(* The variables of a job of a vector product have their types: a job that  *)
(* goes on has an outcome for every step before the running one, and only   *)
(* layers of the delivery are imported.                                     *)
THEOREM JobHasItsTypes == VectorSpec => []VectorTypes
<1>1. JobInv => VectorTypes
  BY DEF JobInv, TypeInv, NamedInv, NameInv, ImportInv, VectorTypes, Statuses
<1> QED
  BY <1>1, JobIsConsistent, PTL

(* vector/naming.py and helper.py: a delivery that goes on has a layer of   *)
(* its own for each alias of the product, one that fits it, and all tell    *)
(* the area of interest the boundary and the exclusion are chosen by.       *)
THEOREM NamesStayClear == VectorSpec => []NamesAreClear
<1>1. JobInv => NamesAreClear
  BY NameInvHolds, OneNaming DEF JobInv, NamedInv
<1> QED
  BY <1>1, JobIsConsistent, PTL

(* mmu.py, mmw.py, change.py, gap.py: every feature, or gap, of a layer is  *)
(* in exactly one of the tables of the check, whatever is NULL in it.       *)
THEOREM NothingIsLost == VectorSpec => []DividedOnce
<1>1. JobInv => DividedOnce
  BY DEF JobInv
<1> QED
  BY <1>1, JobIsConsistent, PTL

(* A check that has ended mildly has left the layers it is about clean.     *)
LEMMA EarlierIsClean ==
    ASSUME JobInv, Running, NEW check \in {"geometry", "singlepart"}, Earlier(check), NEW f \in found
    PROVE  \E s : s.check = check /\ Clean(s, Content(f.layer), shrunk, input.boundary)
<1>1. PICK k \in 1 .. step - 1 : /\ input.steps[k].check = check
                                 /\ \A h \in found : h.layer \in ToSet(LayersOf(input.steps[k]))
  BY DEF Earlier
<1>2. DOMAIN outcomes = 1 .. step - 1 /\ k \in DOMAIN outcomes /\ outcomes[k] \in Mild
  BY <1>1 DEF JobInv, TypeInv
<1>3. OfLayers(input.steps[k]) /\ Passes(input.steps[k], outcomes[k]) /\ ~skip
  BY <1>1, <1>2 DEF OfLayers, Passes, JobInv, ExcludedIsSkipped
<1>4. PICK i \in DOMAIN LayersOf(input.steps[k]) : LayersOf(input.steps[k])[i] = f.layer
  BY <1>1 DEF ToSet
<1>5. i \in LookedAt(input.steps[k], LayersOf(input.steps[k]))
  BY <1>1, <1>4 DEF LookedAt
<1>6. Clean(input.steps[k], Content(LayersOf(input.steps[k])[i]), shrunk, input.boundary)
  BY <1>2, <1>3, <1>5 DEF JobInv, PastInv
<1> QED
  BY <1>1, <1>4, <1>6

(* No check meets a layer it cannot deal with: one of an excluded delivery, *)
(* one that is not imported entirely, and, if the product has them checked  *)
(* before, one with an invalid geometry or a multipolygon.                  *)
THEOREM ChecksMeetSoundLayers == VectorSpec => []LayersAreSound
<1>1. JobInv => SpatialOnSound
  <2>1. SUFFICES ASSUME JobInv, Running, Step.check \in Spatial, NEW f \in found, NEW g \in Fids(Content(f.layer))
                 PROVE  /\ f.layer \in imported.whole
                        /\ Earlier("geometry") => Feature(Content(f.layer), g).valid
                        /\ Earlier("singlepart") => Feature(Content(f.layer), g).rings <= 1
    BY DEF SpatialOnSound
  <2>2. f.layer \in imported.whole
    BY <2>1 DEF JobInv, FoundInv, Spatial, OfFiles
  <2>3. Earlier("geometry") => Feature(Content(f.layer), g).valid
    BY <2>1, EarlierIsClean DEF Clean, Meets
  <2>4. Earlier("singlepart") => Feature(Content(f.layer), g).rings <= 1
    BY <2>1, EarlierIsClean DEF Clean, Meets
  <2> QED
    BY <2>2, <2>3, <2>4
<1>2. JobInv => LayersAreSound
  BY <1>1 DEF JobInv, LayersAreSound
<1> QED
  BY <1>2, JobIsConsistent, PTL

(* A job all of whose steps end ok leaves layers that are imported entirely *)
(* and meet what the documentation of each step asks, but for the waivers:  *)
(* no error gets lost on the way from a row to a table, to a layer's        *)
(* verdict, to the step's and to the job's.                                 *)
THEOREM AcceptedJobsAreClean == VectorSpec => []AcceptedIsClean
<1>1. ASSUME JobInv, ~Running, ~skip, ToSet(outcomes) = {"ok"}
      PROVE  /\ (\E k \in DOMAIN input.steps : input.steps[k].check = "import") => imported.whole = DOMAIN defs
             /\ \A k \in DOMAIN input.steps : OfLayers(input.steps[k]) =>
                    \A i \in LookedAt(input.steps[k], LayersOf(input.steps[k])) :
                        Clean(input.steps[k], Content(LayersOf(input.steps[k])[i]), shrunk, input.boundary)
  <2>1. \A k \in DOMAIN outcomes : outcomes[k] = "ok"
    BY <1>1 DEF ToSet
  <2>2. Len(outcomes) = Len(input.steps) /\ outcomes \in Seq(Statuses)
    BY <1>1, <2>1 DEF JobInv, TypeInv, Mild
  <2>3. DOMAIN outcomes = DOMAIN input.steps
    BY <1>1, <2>2, OneNaming DEF JobInv
  <2>4. \A k \in DOMAIN input.steps : Passes(input.steps[k], outcomes[k])
    BY <2>1, <2>3 DEF Passes
  <2>5. \A k \in DOMAIN input.steps : OfLayers(input.steps[k]) =>
            \A i \in LookedAt(input.steps[k], LayersOf(input.steps[k])) :
                Clean(input.steps[k], Content(LayersOf(input.steps[k])[i]), shrunk, input.boundary)
    BY <1>1, <2>3, <2>4 DEF JobInv, PastInv
  <2>6. \A k \in DOMAIN input.steps : input.steps[k].check = "import" => imported.whole = DOMAIN defs
    BY <1>1, <2>1, <2>3 DEF JobInv, ImportInv
  <2> QED
    BY <2>5, <2>6
<1>2. JobInv => AcceptedIsClean
  <2>1. \A s : AskedOf(s, Waivers) = LookedAt(s, LayersOf(s))
    BY DEF AskedOf, Waivers
  <2> QED
    BY <1>1, <2>1 DEF AcceptedIsClean, AcceptedMeets, Clean
<1> QED
  BY <1>2, JobIsConsistent, PTL

=============================================================================

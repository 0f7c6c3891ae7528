------------------------------- MODULE Naming -------------------------------
(***************************************************************************)
(* The naming checks (vector/naming.py, raster/naming.py and their helpers *)
(* in vector/helper.py): the layers found in a delivery are matched to the *)
(* product's aliases by regular expressions, and the codes in their names  *)
(* choose the boundary and exclude deliveries without any object.  A name  *)
(* is a record: fits are the aliases whose expression is found in it,      *)
(* starts those found at its start, lower those found at the start of the  *)
(* name in lower case; aoi, epsg and info are the groups of the expression *)
(* ("none" if it has no such group).                                       *)
(***************************************************************************)
EXTENDS Integers, Sequences, FiniteSets, SequencesExt

VARIABLES
    naming,         \* the input: see MCVectorJob
    stage,          \* "find", "match", "codes", "boundary", "named"
    infos,          \* layer_infos: the layers not matched yet, by their number in naming.files
    todo,           \* the aliases not matched yet
    defs,           \* layer_defs: a layer for each alias
    severity,       \* the status of the check
    aoi,            \* aoi_code
    skip            \* skip_vector_checks

namingVars == <<naming, stage, infos, todo, defs, severity, aoi, skip>>

WorstOf(S) ==
    IF "crashed" \in S THEN "crashed"
    ELSE IF "aborted" \in S THEN "aborted"
    ELSE IF "failed" \in S THEN "failed"
    ELSE IF "cancelled" \in S THEN "cancelled"
    ELSE "ok"

Worst(s, t) == WorstOf({s, t})

NoDefs == [a \in {} |-> 0]

NamingInit(n) ==
    /\ naming = n
    /\ stage = "find"
    /\ infos = {}
    /\ todo = n.aliases
    /\ defs = NoDefs
    /\ severity = "ok"
    /\ aoi = "none"
    /\ skip = FALSE

Give(s) == severity' = Worst(severity, s)

-----------------------------------------------------------------------------
(* Files of other formats are not looked at; one that cannot be opened      *)
(* aborts, yet the others are read on.                                      *)
Readable == {i \in DOMAIN naming.files : naming.files[i].format \in naming.formats /\ naming.files[i].opens}

Unreadable == {i \in DOMAIN naming.files : naming.files[i].format \in naming.formats /\ ~naming.files[i].opens}

ReadableGdbs == {i \in Readable : naming.files[i].format = ".gdb"}

Geodatabases == Cardinality({naming.files[i].file : i \in ReadableGdbs})

(* gdal opens rasters at the end only.                                      *)
Found == IF naming.raster THEN {i \in DOMAIN naming.files : naming.files[i].format = ".tif"} ELSE Readable

FindLayers ==
    /\ stage = "find"
    /\ infos' = Found
    /\ LET opened == IF Unreadable # {} /\ ~naming.raster THEN "aborted" ELSE "ok"
           none == Found = {}
           count == naming.geodatabases # 0 /\ Geodatabases # naming.geodatabases /\ ~naming.raster
       IN  /\ Give(IF none \/ count THEN "aborted" ELSE opened)
           /\ stage' = IF none \/ count THEN "named" ELSE "match"
    /\ UNCHANGED <<naming, todo, defs, aoi, skip>>

(* Without layer_names all layers are taken and the check is over.          *)
TakeAll ==
    /\ stage = "match"
    /\ naming.takeAll
    /\ defs' = [i \in infos |-> naming.files[i]]
    /\ stage' = "named"
    /\ UNCHANGED <<naming, infos, todo, severity, aoi, skip>>

Matches(alias) == {i \in infos : alias \in naming.files[i].fits}

\* The layer stays in the list (a mutant).
Kept(alias) == infos

Popped(alias) == infos \ Matches(alias)

(* extract_layer_def: exactly one layer may match an alias.                 *)
ExtractLayerDef ==
    /\ stage = "match"
    /\ ~naming.takeAll
    /\ todo # <<>>
    /\ todo' = Tail(todo)
    /\ LET alias == Head(todo)
       IN  \/ \E i \in infos :
                 /\ Matches(alias) = {i}
                 /\ defs' = [a \in DOMAIN defs \union {alias} |-> IF a = alias THEN naming.files[i] ELSE defs[a]]
                 /\ infos' = Popped(alias)
                 /\ UNCHANGED severity
           \/ /\ \A i \in infos : Matches(alias) # {i}
              /\ Give("aborted")
              /\ UNCHANGED <<defs, infos>>
    /\ UNCHANGED <<naming, stage, aoi, skip>>

CheckExcessive ==
    /\ stage = "match"
    /\ ~naming.takeAll
    /\ todo = <<>>
    /\ Give(IF infos # {} /\ ~naming.excessiveAllowed THEN "failed" ELSE "ok")
    /\ stage' = "codes"
    /\ UNCHANGED <<naming, infos, todo, defs, aoi, skip>>

-----------------------------------------------------------------------------
\* The aliases whose layers tell a code: with preserved case the expression is
\* matched without regard to case, else with the name in lower case.
Coded(code, anyCase) ==
    {a \in DOMAIN defs : a \in (IF anyCase THEN defs[a].starts ELSE defs[a].lower) /\ defs[a][code] # "none"}

\* The code of the layer that comes last.
LastCode(code, anyCase) ==
    LET told == {k \in DOMAIN naming.aliases : naming.aliases[k] \in Coded(code, anyCase)}
    IN  IF told = {} THEN "none" ELSE defs[naming.aliases[Max(told)]][code]

\* extract_aoi_code, extract_epsg_code: every layer tells an allowed code, all the same.
CodesVerdict(code, allowed, anyCase) ==
    LET coded == Coded(code, anyCase)
        codes == {defs[a][code] : a \in coded}
    IN  IF coded # DOMAIN defs \/ (\A c \in codes : codes # {c}) \/ ~(anyCase \/ codes \subseteq allowed)
        THEN "aborted" ELSE "ok"

\* extract_name_info: returns a variable that no layer may have set.
InfoVerdict ==
    LET told == Coded("info", FALSE)
    IN  IF told = {} THEN "crashed" ELSE IF told # DOMAIN defs THEN "aborted" ELSE "ok"

AnyCase == "*" \in naming.aois

ExtractCodes ==
    /\ stage = "codes"
    /\ aoi' = IF naming.aois # {} THEN LastCode("aoi", AnyCase) ELSE "none"
    /\ skip' = (~naming.raster /\ aoi' \in naming.excluded)
    /\ severity' = WorstOf({severity,
                            IF naming.aois # {} THEN CodesVerdict("aoi", naming.aois, AnyCase) ELSE "ok",
                            IF naming.epsgs # {} THEN CodesVerdict("epsg", naming.epsgs, FALSE) ELSE "ok",
                            IF naming.wantsInfo THEN InfoVerdict ELSE "ok"})
    /\ stage' = IF severity' = "crashed" THEN "named" ELSE "boundary"
    /\ UNCHANGED <<naming, infos, todo, defs>>

(* The name of the geodatabase must fit; the code in it is never compared.  *)
GdbMisnamed ==
    naming.gdbName /\ \E i \in ReadableGdbs : ~naming.files[i].named

BoundaryName ==
    IF naming.boundary = "by aoi" /\ aoi # "none" THEN aoi ELSE naming.boundary

FindBoundary ==
    /\ stage = "boundary"
    /\ ~naming.raster
    /\ Give(IF GdbMisnamed THEN "aborted" ELSE "ok")
    /\ defs' = IF BoundaryName \in naming.boundaries
               THEN [a \in DOMAIN defs \union {"boundary"} |->
                        IF a = "boundary" THEN [file |-> BoundaryName] ELSE defs[a]]
               ELSE defs
    /\ stage' = "named"
    /\ UNCHANGED <<naming, infos, todo, aoi, skip>>

(* One band, and a file beside it for each extension, or one of its forms.  *)
CheckRasters ==
    /\ stage = "boundary"
    /\ naming.raster
    /\ Give(IF \A a \in DOMAIN defs : /\ defs[a].opens /\ defs[a].bands = 1
                                      /\ \A forms \in naming.extensions : defs[a].beside \cap forms # {}
            THEN "ok" ELSE "aborted")
    /\ stage' = "named"
    /\ UNCHANGED <<naming, infos, todo, defs, aoi, skip>>

NamingNext ==
    \/ FindLayers \/ TakeAll \/ ExtractLayerDef \/ CheckExcessive
    \/ ExtractCodes \/ FindBoundary \/ CheckRasters

NamingDone == stage = "named"

-----------------------------------------------------------------------------
(* Types.                                                                   *)
NamingTypes ==
    /\ stage \in {"find", "match", "codes", "boundary", "named"}
    /\ todo \in Seq(ToSet(naming.aliases))
    /\ infos \subseteq DOMAIN naming.files
    /\ severity \in {"ok", "failed", "aborted", "crashed"}
    /\ skip \in BOOLEAN

LayerDefs == DOMAIN defs \ {"boundary"}

Accepted == NamingDone /\ severity \in {"ok", "failed"} /\ ~naming.takeAll

(* A delivery that goes on has a layer of its own for each alias of the     *)
(* product, also if several expressions fit one name, and the layer fits.   *)
AliasesAreDistinct ==
    Accepted =>
        /\ LayerDefs = ToSet(naming.aliases)
        /\ \A a, b \in LayerDefs : a # b => defs[a] # defs[b]
        /\ \A a \in LayerDefs : a \in defs[a].fits

(* It is of one area of interest: all its layers tell it, a listed one, and *)
(* it is the one the boundary and the exclusion are chosen by.              *)
OneAreaOfInterest ==
    Accepted /\ naming.aois # {} =>
        /\ \A a \in LayerDefs : defs[a].aoi = aoi
        /\ AnyCase \/ aoi \in naming.aois
        /\ skip => aoi \in naming.excluded
        /\ "boundary" \in DOMAIN defs /\ naming.boundary = "by aoi" => defs["boundary"].file = aoi

(* What the names say of a delivery that goes on is clear.                  *)
NamesAreClear == AliasesAreDistinct /\ OneAreaOfInterest

=============================================================================

---------------------------- MODULE RecipeLoader ----------------------------
(***************************************************************************)
(* The recipe table of the Recipe plugin: Recipe::initialize loads every   *)
(* file of the recipes directory, and Recipe::onTimer rescans it (more     *)
(* than 5 seconds after the last scan) for files whose name is not loaded  *)
(* yet.  Files are written by a process outside the plugin, one line at a  *)
(* time, while the plugin runs.  The 5 second period is left out: the      *)
(* writer's speed is arbitrary, so a scan may fall between any two of its  *)
(* steps.                                                                  *)
(***************************************************************************)
EXTENDS RecipeDescriptor

CONSTANTS
  Names,       \* file names in the recipes directory
  Lines,       \* lines a writer may put in a recipe file
  MaxLines,    \* bound on the lines of one file
  MaxInvalid   \* bound on m_stats.invalidRecipeCount

VARIABLES
  dir,                 \* the files of the directory: name -> lines written
  writing,             \* the files still being written
  recipes,             \* m_recipes: name -> the parsed descriptor
  invalidRecipeCount,  \* m_stats.invalidRecipeCount
  crashed,             \* an exception escaped fromFile: the process is gone
  signExtends          \* the build's outcome for concreteTargetEIP

vars == <<dir, writing, recipes, invalidRecipeCount, crashed, signExtends>>

-----------------------------------------------------------------------------
(* The writer.                                                            *)

CreateFile(n) ==
  /\ n \notin DOMAIN dir
  /\ dir' = dir @@ (n :> <<>>)
  /\ writing' = writing \cup {n}
  /\ UNCHANGED <<recipes, invalidRecipeCount, crashed, signExtends>>

WriteLine(n, l) ==
  /\ n \in writing /\ Len(dir[n]) < MaxLines
  /\ dir' = [dir EXCEPT ![n] = Append(@, l)]
  /\ UNCHANGED <<writing, recipes, invalidRecipeCount, crashed, signExtends>>

CloseFile(n) ==
  /\ n \in writing
  /\ writing' = writing \ {n}
  /\ UNCHANGED <<dir, recipes, invalidRecipeCount, crashed, signExtends>>

-----------------------------------------------------------------------------
(* The plugin.                                                            *)

\* The files a scan parses: those whose name is not in m_recipes.
ToLoad == DOMAIN dir \ DOMAIN recipes

\* Recipe::loadRecipesFromDirectory, run by initialize and onTimer: each
\* file not loaded yet is parsed; a NULL descriptor is counted and the
\* file is tried again at the next scan.  An exception thrown while
\* parsing a file ends the process.
LoadRecipesFromDirectory ==
  /\ ~crashed
  /\ \E res \in {[n \in ToLoad |-> FromFile(dir[n], signExtends)]} :
       LET ok == {n \in DOMAIN res : res[n].st = "ok"}
           bad == {n \in DOMAIN res : res[n].st = "err"}
       IN  IF \E n \in DOMAIN res : res[n].st = "crash"
           THEN /\ crashed' = TRUE
                /\ UNCHANGED <<recipes, invalidRecipeCount>>
           ELSE /\ invalidRecipeCount + Cardinality(bad) <= MaxInvalid
                /\ recipes' = [n \in ok |-> res[n]] @@ recipes
                /\ invalidRecipeCount' = invalidRecipeCount + Cardinality(bad)
                /\ UNCHANGED crashed
  /\ UNCHANGED <<dir, writing, signExtends>>

Init ==
  /\ dir = <<>>
  /\ writing = {}
  /\ recipes = <<>>
  /\ invalidRecipeCount = 0
  /\ crashed = FALSE
  /\ signExtends \in BOOLEAN

Next ==
  \/ \E n \in Names : CreateFile(n) \/ CloseFile(n) \/ \E l \in Lines : WriteLine(n, l)
  \/ LoadRecipesFromDirectory

Spec == Init /\ [][Next]_vars

-----------------------------------------------------------------------------
(* Properties.                                                            *)

TypeOK ==
  /\ DOMAIN recipes \subseteq DOMAIN dir /\ DOMAIN dir \subseteq Names
  /\ writing \subseteq DOMAIN dir
  /\ \A n \in DOMAIN dir : Len(dir[n]) <= MaxLines /\ Range(dir[n]) \subseteq Lines
  /\ \A n \in DOMAIN recipes : recipes[n].st = "ok" /\ recipes[n].eipType \in {"CONCRETE", "SYMBOLIC"}
  /\ invalidRecipeCount \in 0..MaxInvalid
  /\ crashed \in BOOLEAN /\ signExtends \in BOOLEAN

\* The EIP byte preconditions of a descriptor.
EipPreconditions(r) == SelectSeq(r.preconds, IsEipByte)

\* The value a descriptor's CONCRETE precondition gives byte b of EIP.
EipByte(r, b) ==
  LetBe(EipPreconditions(r), LAMBDA e : e[CHOOSE i \in DOMAIN e : e[i].left.idx = b].right.value)

AllFourConcrete(r) ==
  LetBe(EipPreconditions(r), LAMBDA e :
    /\ Len(e) = 4
    /\ \A i \in DOMAIN e : e[i].right.type = "CONCRETE"
    /\ {e[i].left.idx : i \in DOMAIN e} = 0..3)

\* fromFile's EIP category of a loaded recipe: concrete exactly when its
\* EIP preconditions are the four bytes 0..3, all CONCRETE, and then the
\* target's low four bytes are those values in little-endian order; no
\* loaded recipe has more than four EIP preconditions.
EipClassification ==
  \A n \in DOMAIN recipes :
    /\ Len(EipPreconditions(recipes[n])) <= 4
    /\ recipes[n].eipType = "CONCRETE" <=> AllFourConcrete(recipes[n])
    /\ recipes[n].eipType = "CONCRETE" =>
         \A b \in 0..3 : recipes[n].target[b + 1] = EipByte(recipes[n], b)

\* The loaded recipe of a file that has been written in full is the parse
\* of its contents.
LoadedMatchesFile ==
  \A n \in DOMAIN recipes \ writing : recipes[n] = FromFile(dir[n], signExtends)

=============================================================================

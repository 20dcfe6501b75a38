------------------------- MODULE BuildProgramProofs -------------------------
(***************************************************************************)
(* A finished build is of the tree as it is, for every number of shaders,  *)
(* fragments, extensions, compilers and changes.                           *)
(*                                                                         *)
(* A reused run of the program listed the files that are there now,        *)
(* because their sets are declared (RunOK with IsReused).  A shader was    *)
(* made with all the fragments there were, and its edge recorded those     *)
(* that were listed (ShaderOK): as these are the same sets, an edge that   *)
(* has nothing to do has an output of all the fragments there are.         *)
(***************************************************************************)
EXTENDS BuildProgram, TLAPS

Listing(files) == [f \in Present(files) |-> files[f]]

ShaderOK(s) ==
    /\ s.inputs = [generator |-> s.generator, comp |-> s.comp,
                   fragments |-> Listing(s.included)]
    /\ s.included \in [Fragments -> Contents]

(* What a run of the program is worth, whenever it was.                    *)
RunOK(run) ==
    /\ run = [features |-> run.features, read |-> run.read,
              defines |-> run.defines, comps |-> run.comps,
              fragments |-> run.fragments, merged |-> run.merged,
              assembled |-> run.assembled, probed |-> run.probed]
    /\ Vulkan(run.features) =>
          /\ run.comps = Present(run.read.vulkan[2])
          /\ run.fragments = Present(run.read.vulkan[3])
    /\ Metal(run.features) => run.merged = run.read.metal
    /\ run.defines.generator = run.defines.backend
    /\ run.defines.backend \subseteq Accepts[run.probed]
    /\ Metal(run.features) /\ run.assembled => built.metal = run.merged

IsReused ==
    /\ RunOK(program)
    /\ program.features = features /\ program.read = Declared(features)

BuildInv ==
    /\ tree = [gen |-> tree.gen, metal |-> tree.metal, tests |-> tree.tests,
               comps |-> tree.comps, fragments |-> tree.fragments]
    /\ tree.fragments \in [Fragments -> Contents]
    /\ built = [generator |-> built.generator, header |-> built.header,
                backend |-> built.backend, shader |-> built.shader,
                metal |-> built.metal]
    /\ DOMAIN built.shader = Comps
    /\ \A c \in Comps : built.shader[c] = Absent \/ ShaderOK(built.shader[c])
    /\ DOMAIN tree.comps = Comps
    /\ phase \in {"idle", "program", "edges", "done"}
    /\ program = Absent \/ RunOK(program)
    /\ phase \in {"edges", "done"} => IsReused
    /\ phase = "done" /\ Vulkan(features) => VulkanIsBuilt
    /\ phase = "done" /\ Metal(features) => program.assembled

-----------------------------------------------------------------------------
(* Two trees with the same listing have the same files.                    *)
LEMMA ListingDetermines ==
    ASSUME NEW a \in [Fragments -> Contents], NEW b \in [Fragments -> Contents],
           Listing(a) = Listing(b)
    PROVE  a = b
<1>1. Present(a) = Present(b)
  <2>1. DOMAIN Listing(a) = Present(a) /\ DOMAIN Listing(b) = Present(b)
    BY DEF Listing
  <2> QED
    BY <2>1
<1>2. ASSUME NEW f \in Fragments PROVE a[f] = b[f]
  <2>1. CASE f \in Present(a)
    <3>1. Listing(a)[f] = a[f] /\ Listing(b)[f] = b[f]
      BY <1>1, <2>1 DEF Listing
    <3> QED
      BY <3>1
  <2>2. CASE f \notin Present(a)
    BY <1>1, <2>2 DEF Present
  <2> QED
    BY <2>1, <2>2
<1> QED
  BY <1>2

(* A reused run has listed what is there.                                  *)
LEMMA ReusedRunIsOfTheTree ==
    ASSUME IsReused
    PROVE  /\ Vulkan(features) => /\ program.comps = Present(tree.comps)
                                  /\ program.fragments = Present(tree.fragments)
           /\ Metal(features) => program.merged = tree.metal
  BY DEF IsReused, RunOK, Declared

-----------------------------------------------------------------------------
(* At first nothing is built and there is no run.                          *)
LEMMA BuildInvInit == Init => BuildInv
  BY DEF Init, BuildInv, Contents

(* The probes are answered once, for the generator and the backend, and    *)
(* only a shader that compiled is an answer.                               *)
LEMMA RunProgramKeepsBuildInv == BuildInv /\ RunProgram => BuildInv'
<1> SUFFICES ASSUME BuildInv, RunProgram PROVE BuildInv'
  OBVIOUS
<1>1. /\ phase' = "edges" /\ UNCHANGED <<features, tree, built>>
  BY DEF RunProgram
<1>2. PICK first \in [Extensions -> {"compiled", "refused", "broken", "missing"}],
           second \in [Extensions -> {"compiled", "refused", "broken", "missing"}] :
          /\ \A x \in Extensions : first[x] \in Answers(x) /\ second[x] \in Answers(x)
          /\ program' =
               [features |-> features, read |-> Declared(features),
                defines |-> Defines({x \in Extensions : Supports(first[x])},
                                    {x \in Extensions : Supports(second[x])}),
                comps |-> Present(tree.comps),
                fragments |-> Present(tree.fragments),
                merged |-> tree.metal, assembled |-> FALSE,
                probed |-> glslc]
  BY DEF RunProgram
<1> DEFINE D == {x \in Extensions : Supports(first[x])}
<1>3. D \subseteq Accepts[glslc]
  BY <1>2 DEF Supports, Answers
<1>4. program'.defines = [generator |-> D, backend |-> D]
  BY <1>2 DEF Defines
<1> HIDE DEF D
<1>5. /\ program' = [features |-> features, read |-> Declared(features),
                     defines |-> program'.defines, comps |-> Present(tree.comps),
                     fragments |-> Present(tree.fragments), merged |-> tree.metal,
                     assembled |-> FALSE, probed |-> glslc]
  BY <1>2
<1>6. RunOK(program)'
  BY <1>3, <1>4, <1>5 DEF RunOK, Declared
<1>7. IsReused'
  BY <1>1, <1>5, <1>6 DEF IsReused, Declared
<1> QED
  BY <1>1, <1>6, <1>7 DEF BuildInv, ShaderOK

(* An edge makes its output of the tree as it is.                          *)
LEMMA EdgeKeepsBuildInv == BuildInv /\ Edge => BuildInv'
<1> SUFFICES ASSUME BuildInv, Edge PROVE BuildInv'
  OBVIOUS
<1>1. /\ phase = "edges" /\ phase' = "edges" /\ IsReused
      /\ UNCHANGED <<features, tree, glslc>>
  BY DEF Edge, BuildInv
<1>2. CASE BuildGenerator
  BY <1>1, <1>2 DEF BuildGenerator, BuildInv, IsReused, RunOK, Declared
<1>3. CASE BuildHeader
  BY <1>1, <1>3 DEF BuildHeader, BuildInv, IsReused, RunOK, Declared
<1>4. CASE BuildBackend
  BY <1>1, <1>4 DEF BuildBackend, BuildInv, IsReused, RunOK, Declared
<1>5. CASE Vulkan(features) /\ \E c \in Comps : BuildShader(c)
  <2>1. PICK c \in Comps : BuildShader(c)
    BY <1>5
  <2> DEFINE s == [inputs |-> ShaderInputs(c), generator |-> built.generator,
                   comp |-> tree.comps[c], included |-> tree.fragments]
  <2>2. built' = [built EXCEPT !.shader[c] = s] /\ program' = program
    BY <2>1 DEF BuildShader
  <2>3. ShaderOK(s)
    <3>1. program.fragments = Present(tree.fragments)
      BY <1>1, <1>5, ReusedRunIsOfTheTree
    <3> QED
      BY <3>1 DEF ShaderOK, ShaderInputs, Listing, BuildInv
  <2> HIDE DEF s
  <2>4. /\ built' = [generator |-> built.generator, header |-> built.header,
                     backend |-> built.backend, metal |-> built.metal,
                     shader |-> [built.shader EXCEPT ![c] = s]]
    BY <2>2 DEF BuildInv
  <2>5. \A d \in Comps : built'.shader[d] = Absent \/ ShaderOK(built'.shader[d])
    BY <2>3, <2>4 DEF BuildInv
  <2> QED
    BY <1>1, <2>2, <2>4, <2>5 DEF BuildInv, IsReused, RunOK, Declared, ShaderOK
<1>6. CASE MetalEdge
  <2>1. /\ program' = [features |-> program.features, read |-> program.read,
                       defines |-> program.defines, comps |-> program.comps,
                       fragments |-> program.fragments, merged |-> program.merged,
                       assembled |-> TRUE, probed |-> program.probed]
    BY <1>1, <1>6 DEF MetalEdge, IsReused, RunOK
  <2>2. built' = [generator |-> built.generator, header |-> built.header,
                  backend |-> built.backend, metal |-> program.merged,
                  shader |-> built.shader]
    BY <1>6 DEF MetalEdge, BuildInv
  <2>3. RunOK(program)'
    BY <1>1, <2>1, <2>2 DEF IsReused, RunOK
  <2>4. IsReused'
    BY <1>1, <2>1, <2>3 DEF IsReused, Declared
  <2> QED
    BY <1>1, <2>2, <2>3, <2>4 DEF BuildInv, ShaderOK
<1> QED
  BY <1>2, <1>3, <1>4, <1>5, <1>6 DEF Edge, VulkanEdge

(* Builds, runs and changes keep the invariant.                            *)
LEMMA BuildInvKept == BuildInv /\ [Next]_vars => BuildInv'
<1> SUFFICES ASSUME BuildInv, [Next]_vars PROVE BuildInv'
  OBVIOUS
<1> USE DEF BuildInv
<1>1. CASE RunProgram
  BY <1>1, RunProgramKeepsBuildInv
<1>2. CASE ProgramFails
  BY <1>2 DEF ProgramFails, ShaderOK
<1>3. CASE StartBuild
  <2>1. UNCHANGED <<tree, built, program>> /\ phase' \in {"edges", "program"}
    BY <1>3 DEF StartBuild
  <2>2. phase' = "edges" => IsFresh(features')
    BY <1>3 DEF StartBuild
  <2>3. RunOK(program) => RunOK(program)'
    BY <2>1 DEF RunOK
  <2>4. IsFresh(features') => IsReused'
    BY <2>1, <2>3 DEF IsFresh, IsReused, Declared
  <2> QED
    BY <2>1, <2>2, <2>3, <2>4 DEF ShaderOK
<1>4. CASE Edge
  BY <1>4, EdgeKeepsBuildInv
<1>5. CASE FinishBuild
  <2>1. UNCHANGED <<features, tree, built, program>> /\ phase' = "done" /\ phase = "edges"
    BY <1>5 DEF FinishBuild
  <2>2. (RunOK(program) => RunOK(program)') /\ IsReused'
    BY <2>1 DEF RunOK, IsReused, Declared
  <2>3. (Vulkan(features) => VulkanIsBuilt)' /\ (Metal(features) => program.assembled)'
    BY <1>5, <2>1 DEF FinishBuild, VulkanIsBuilt, Generator, Backend, IsCurrent, ShaderInputs
  <2> QED
    BY <2>1, <2>2, <2>3 DEF ShaderOK
<1>6. CASE StopBuild
  BY <1>6 DEF StopBuild, RunOK, ShaderOK
<1>7. CASE Change
  <2>1. UNCHANGED <<built, program>> /\ phase' = "idle"
    BY <1>7 DEF Change
  <2>2. RunOK(program) => RunOK(program)'
    BY <2>1 DEF RunOK
  <2>3. /\ tree' = [gen |-> tree'.gen, metal |-> tree'.metal, tests |-> tree'.tests,
                    comps |-> tree'.comps, fragments |-> tree'.fragments]
        /\ tree'.fragments \in [Fragments -> Contents]
        /\ DOMAIN tree'.comps = Comps
    BY <1>7 DEF Change, ChangeTree, ChangeCompiler, Contents
  <2> QED
    BY <2>1, <2>2, <2>3 DEF ShaderOK, Contents
<1>8. CASE UNCHANGED vars
  BY <1>8 DEF vars, RunOK, IsReused, Declared, ShaderOK, VulkanIsBuilt, Generator,
              Backend, IsCurrent, ShaderInputs
<1> QED
  BY <1>1, <1>2, <1>3, <1>4, <1>5, <1>6, <1>7, <1>8 DEF Next

(* The invariant holds of every history of builds and changes.             *)
LEMMA BuildInvAlways == Spec => []BuildInv
  BY BuildInvInit, BuildInvKept, PTL DEF Spec

-----------------------------------------------------------------------------
(* A run that is reused was not refused.                                   *)
RunsAreAccepted == program # Absent => ~Refuses(program.features)

(* A run of the program records what it read and found.                    *)
LEMMA RunProgramKeepsType ==
    ASSUME TypeOK, RunProgram
    PROVE  TypeOK' /\ RunsAreAccepted'
<1>1. PICK first \in [Extensions -> {"compiled", "refused", "broken", "missing"}],
           second \in [Extensions -> {"compiled", "refused", "broken", "missing"}] :
          program' =
               [features |-> features, read |-> Declared(features),
                defines |-> Defines({x \in Extensions : Supports(first[x])},
                                    {x \in Extensions : Supports(second[x])}),
                comps |-> Present(tree.comps),
                fragments |-> Present(tree.fragments),
                merged |-> tree.metal, assembled |-> FALSE,
                probed |-> glslc]
  BY DEF RunProgram
<1>2. /\ phase' = "edges" /\ ~Refuses(features)
      /\ UNCHANGED <<target, features, tree, glslc, built>>
  BY DEF RunProgram
<1>3. features \in SUBSET KnownFeatures
  BY <1>2 DEF Refuses
<1>4. Declared(features) \in
        [vulkan : {<<>>} \cup
            Versions \X [Comps -> Contents] \X [Fragments -> Contents],
         metal : Contents]
  BY DEF Declared, TypeOK, Contents
<1> DEFINE D == {x \in Extensions : Supports(first[x])}
<1>5. program'.defines = [generator |-> D, backend |-> D] /\ D \in SUBSET Extensions
  BY <1>1 DEF Defines
<1> HIDE DEF D
<1>6. Present(tree.comps) \in SUBSET Comps /\ Present(tree.fragments) \in SUBSET Fragments
  BY DEF Present, TypeOK
<1>7. program' = [features |-> features, read |-> Declared(features),
                  defines |-> program'.defines, comps |-> Present(tree.comps),
                  fragments |-> Present(tree.fragments), merged |-> tree.metal,
                  assembled |-> FALSE, probed |-> glslc]
  BY <1>1
<1>8. program' \in Runs
  <2>1. tree.metal \in Versions /\ glslc \in Compilers
    BY DEF TypeOK
  <2>2. program'.defines \in [generator : SUBSET Extensions, backend : SUBSET Extensions]
    BY <1>5
  <2> DEFINE R == [vulkan : {<<>>} \cup
                      Versions \X [Comps -> Contents] \X [Fragments -> Contents],
                   metal : Contents]
             P == [generator : SUBSET Extensions, backend : SUBSET Extensions]
  <2>3. Declared(features) \in R /\ program'.defines \in P
    BY <1>4, <2>2
  <2>4. Runs = [features : SUBSET KnownFeatures, read : R, defines : P,
                comps : SUBSET Comps, fragments : SUBSET Fragments,
                merged : Versions, assembled : BOOLEAN, probed : Compilers]
    BY DEF Runs
  <2> HIDE DEF R, P
  <2>5. ASSUME NEW f \in SUBSET KnownFeatures, NEW r \in R, NEW p \in P,
               NEW c \in SUBSET Comps, NEW g \in SUBSET Fragments,
               NEW m \in Versions, NEW by \in Compilers
        PROVE  [features |-> f, read |-> r, defines |-> p, comps |-> c,
                fragments |-> g, merged |-> m, assembled |-> FALSE,
                probed |-> by] \in Runs
    BY <2>4
  <2> QED
    BY <1>3, <1>6, <1>7, <2>1, <2>3, <2>5
<1>9. IsFresh(features)' /\ ~Refuses(features)'
  BY <1>2, <1>7, <1>8, AbsentAssumption DEF IsFresh, Declared, Refuses
<1> QED
  BY <1>2, <1>7, <1>8, <1>9 DEF TypeOK, RunsAreAccepted, Refuses

(* An edge makes a generator, or an output of one.                         *)
LEMMA EdgeKeepsType ==
    ASSUME BuildInv, TypeOK, RunsAreAccepted, Edge
    PROVE  TypeOK' /\ RunsAreAccepted'
<1>1. /\ phase = "edges" /\ phase' = "edges" /\ program \in Runs /\ IsFresh(features)
      /\ ~Refuses(features)
      /\ UNCHANGED <<target, features, tree, glslc>>
  BY DEF Edge, TypeOK, IsFresh
<1>2. Generator \in Generators /\ Generator # Absent
  BY <1>1, AbsentAssumption DEF Generator, Generators, Runs, TypeOK
<1>3. built = [generator |-> built.generator, header |-> built.header,
               backend |-> built.backend, shader |-> built.shader,
               metal |-> built.metal]
      /\ DOMAIN built.shader = Comps
  BY DEF BuildInv
<1>4. ASSUME program' = program, built'.generator \in Generators \cup {Absent},
             \A c \in Comps : built'.shader[c] # Absent =>
                                  built'.shader[c].generator # Absent
      PROVE  TypeOK' /\ RunsAreAccepted'
  BY <1>1, <1>4 DEF TypeOK, RunsAreAccepted, IsFresh, Declared, Refuses
<1>5. CASE BuildGenerator
  BY <1>2, <1>3, <1>4, <1>5 DEF BuildGenerator, TypeOK
<1>6. CASE BuildHeader
  BY <1>3, <1>4, <1>6 DEF BuildHeader, TypeOK
<1>7. CASE BuildBackend
  BY <1>3, <1>4, <1>7 DEF BuildBackend, TypeOK
<1>8. ASSUME NEW c \in Comps, BuildShader(c) PROVE TypeOK' /\ RunsAreAccepted'
  <2> DEFINE s == [inputs |-> ShaderInputs(c), generator |-> built.generator,
                   comp |-> tree.comps[c], included |-> tree.fragments]
  <2>1. built' = [built EXCEPT !.shader[c] = s] /\ program' = program
    BY <1>8 DEF BuildShader
  <2>2. s.generator # Absent
    BY <1>2, <1>8 DEF BuildShader
  <2> HIDE DEF s
  <2>3. built' = [generator |-> built.generator, header |-> built.header,
                  backend |-> built.backend, metal |-> built.metal,
                  shader |-> [built.shader EXCEPT ![c] = s]]
    BY <1>3, <2>1
  <2> QED
    BY <1>3, <1>4, <2>1, <2>2, <2>3 DEF TypeOK
<1>9. CASE MetalEdge
  <2>1. /\ program' = [program EXCEPT !.assembled = TRUE]
        /\ built'.generator = built.generator /\ built'.shader = built.shader
    BY <1>3, <1>9 DEF MetalEdge
  <2>2. /\ program' \in Runs /\ program'.features = program.features
        /\ program'.read = program.read
    BY <1>1, <2>1 DEF Runs
  <2>3. program # Absent /\ program' # Absent
    BY <1>1, <2>2, AbsentAssumption
  <2> QED
    BY <1>1, <2>1, <2>2, <2>3
       DEF TypeOK, RunsAreAccepted, IsFresh, Declared, Refuses
<1> QED
  BY <1>5, <1>6, <1>7, <1>8, <1>9 DEF Edge, VulkanEdge

(* Builds and changes keep the shape of what there is.                     *)
LEMMA TypeKept ==
    ASSUME BuildInv, TypeOK, RunsAreAccepted, [Next]_vars
    PROVE  TypeOK' /\ RunsAreAccepted'
<1>1. CASE RunProgram
  BY <1>1, RunProgramKeepsType
<1>2. CASE ProgramFails
  BY <1>2 DEF ProgramFails, TypeOK, RunsAreAccepted
<1>3. CASE StartBuild
  <2>1. /\ UNCHANGED <<target, tree, glslc, program, built>>
        /\ phase' \in {"program", "edges"}
        /\ phase' = "edges" => IsFresh(features')
    BY <1>3 DEF StartBuild
  <2>2. IsFresh(features') => IsFresh(features)' /\ ~Refuses(features)'
    BY <2>1 DEF IsFresh, Declared, RunsAreAccepted, Refuses
  <2> QED
    BY <2>1, <2>2 DEF TypeOK, RunsAreAccepted, Refuses
<1>4. CASE Edge
  BY <1>4, EdgeKeepsType
<1>5. CASE FinishBuild
  BY <1>5 DEF FinishBuild, TypeOK, RunsAreAccepted, IsFresh, Declared, Refuses
<1>6. CASE StopBuild
  BY <1>6 DEF StopBuild, TypeOK, RunsAreAccepted, Refuses
<1>7. CASE Change
  <2>1. UNCHANGED <<target, program, built>> /\ phase' = "idle"
    BY <1>7 DEF Change
  <2>2. /\ tree' \in [gen : Versions, metal : Versions, tests : SUBSET Extensions,
                      comps : [Comps -> Contents],
                      fragments : [Fragments -> Contents]]
        /\ glslc' \in Compilers
    BY <1>7 DEF Change, ChangeTree, ChangeCompiler, TypeOK
  <2> QED
    BY <2>1, <2>2 DEF TypeOK, RunsAreAccepted, Refuses
<1>8. CASE UNCHANGED vars
  BY <1>8 DEF vars, TypeOK, RunsAreAccepted, IsFresh, Declared, Refuses
<1> QED
  BY <1>1, <1>2, <1>3, <1>4, <1>5, <1>6, <1>7, <1>8 DEF Next

(* A build goes on only with a run for its features, of the files there    *)
(* are, that was not refused; no shader is made without a generator        *)
(* (validate_features, and mcpp's reuse of a run).                         *)
THEOREM TypeCorrect == Spec => []TypeOK
<1>1. Init => TypeOK /\ RunsAreAccepted
  BY DEF Init, TypeOK, RunsAreAccepted, Contents
<1> QED
  BY <1>1, BuildInvInit, BuildInvKept, TypeKept, PTL DEF Spec

-----------------------------------------------------------------------------
(* A build that finishes has its outputs from the files as they are, over  *)
(* any history of changes and of builds that stopped (build.mcpp's         *)
(* declared globs and edges).                                              *)
THEOREM FinishedBuildsAreCurrent == Spec => []OutputsAreCurrent
<1>1. BuildInv => OutputsAreCurrent
  <2> SUFFICES ASSUME BuildInv, phase = "done"
               PROVE  /\ Vulkan(features) =>
                            /\ built.generator.source = tree.gen
                            /\ built.header = built.generator
                            /\ program.comps = Present(tree.comps)
                            /\ \A c \in program.comps :
                                  /\ built.shader[c].generator = built.generator
                                  /\ built.shader[c].comp = tree.comps[c]
                                  /\ built.shader[c].included = tree.fragments
                      /\ Metal(features) => built.metal = tree.metal
    BY DEF OutputsAreCurrent
  <2>1. IsReused
    BY DEF BuildInv
  <2>2. CASE Vulkan(features)
    <3>1. /\ VulkanIsBuilt
          /\ program.comps = Present(tree.comps)
          /\ program.fragments = Present(tree.fragments)
      BY <2>1, <2>2, ReusedRunIsOfTheTree DEF BuildInv
    <3>2. built.generator.source = tree.gen /\ built.header = built.generator
      BY <3>1 DEF VulkanIsBuilt, Generator
    <3>3. ASSUME NEW c \in program.comps
          PROVE  /\ built.shader[c].generator = built.generator
                 /\ built.shader[c].comp = tree.comps[c]
                 /\ built.shader[c].included = tree.fragments
      <4> DEFINE s == built.shader[c]
      <4>1. c \in Comps
        BY <3>1, <3>3 DEF Present, BuildInv
      <4>2. ShaderOK(s) /\ s.inputs = ShaderInputs(c)
        BY <3>1, <4>1 DEF VulkanIsBuilt, IsCurrent, BuildInv
      <4>3. s.inputs = [generator |-> built.generator, comp |-> tree.comps[c],
                        fragments |-> Listing(tree.fragments)]
        BY <3>1, <4>2 DEF ShaderInputs, Listing
      <4>4. /\ s.generator = built.generator /\ s.comp = tree.comps[c]
            /\ Listing(s.included) = Listing(tree.fragments)
        BY <4>2, <4>3 DEF ShaderOK
      <4>5. s.included = tree.fragments
        BY <4>2, <4>4, ListingDetermines DEF ShaderOK, BuildInv
      <4> QED
        BY <4>4, <4>5
    <3>4. Metal(features) => built.metal = tree.metal
      BY <2>1, ReusedRunIsOfTheTree DEF BuildInv, IsReused, RunOK
    <3> QED
      BY <3>1, <3>2, <3>3, <3>4
  <2>3. CASE ~Vulkan(features)
    BY <2>1, <2>3, ReusedRunIsOfTheTree DEF BuildInv, IsReused, RunOK
  <2> QED
    BY <2>2, <2>3
<1> QED
  BY <1>1, BuildInvAlways, PTL

(* No build claims an extension that the probed compiler does not have     *)
(* (glslc_supports).                                                       *)
THEOREM NoClaimIsUnverified == Spec => []ClaimsAreVerified
<1>1. BuildInv => ClaimsAreVerified
  BY DEF BuildInv, ClaimsAreVerified, IsReused, RunOK, VulkanIsBuilt, Backend
<1> QED
  BY <1>1, BuildInvAlways, PTL

(* The backend and every shader are built for the same variants (one       *)
(* probe, two readers).                                                    *)
THEOREM BackendAndShadersAgree == Spec => []VariantsAgree
<1>1. BuildInv => VariantsAgree
  <2> SUFFICES ASSUME BuildInv, phase = "done", Vulkan(features)
               PROVE  /\ built.backend.header.defines = built.backend.defines
                      /\ \A c \in program.comps :
                            built.shader[c].generator.defines = built.backend.defines
    BY DEF VariantsAgree
  <2>1. /\ IsReused /\ VulkanIsBuilt
        /\ program.comps \subseteq Comps
    BY ReusedRunIsOfTheTree DEF BuildInv, Present
  <2>2. /\ built.backend.header = built.generator
        /\ built.generator.defines = built.backend.defines
    BY <2>1 DEF VulkanIsBuilt, Generator, Backend, IsReused, RunOK
  <2>3. ASSUME NEW c \in program.comps
        PROVE  built.shader[c].generator = built.generator
    <3>1. ShaderOK(built.shader[c]) /\ built.shader[c].inputs = ShaderInputs(c)
      BY <2>1 DEF VulkanIsBuilt, IsCurrent, BuildInv
    <3> QED
      BY <3>1 DEF ShaderInputs, ShaderOK
  <2> QED
    BY <2>2, <2>3
<1> QED
  BY <1>1, BuildInvAlways, PTL
=============================================================================

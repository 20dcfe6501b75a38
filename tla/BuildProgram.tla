---------------------------- MODULE BuildProgram ----------------------------
(***************************************************************************)
(* build.mcpp and the builds it serves.  A run of the build program probes *)
(* the shader compiler, declares the files whose change runs it again, and *)
(* submits one edge for the shader generator, one for the header and one   *)
(* for each shader.  mcpp (external) runs the program when there is no run *)
(* to reuse, and then every edge whose command or inputs changed.          *)
(*                                                                         *)
(* The tree and the compiler change between builds, and a build may stop   *)
(* anywhere.  A content is a version number; a file that is not there is   *)
(* Absent.                                                                 *)
(***************************************************************************)
EXTENDS Naturals, FiniteSets

CONSTANTS Comps,         \* names of .comp files
          Fragments,     \* names of .glsl files
          Versions,      \* contents of a file
          Extensions,    \* what kProbes asks about
          Compilers,     \* builds of glslc that can stand at its path
          Accepts,       \* Accepts[g]: the extensions of compiler g
          Absent,
          MaxChanges     \* bound: changes of the tree and of the compiler

VARIABLES target,    \* target_os
          features,  \* MCPP_FEATURES of the build, {} between builds
          tree,      \* the files that build.mcpp reads
          glslc,     \* the compiler at bin/glslc
          program,   \* the run of the build program that builds reuse
          built,     \* the outputs of the edges and the objects
          phase,     \* "idle", "program", "edges" or "done"
          changes

vars == <<target, features, tree, glslc, program, built, phase, changes>>

Present(files) == {f \in DOMAIN files : files[f] # Absent}
KnownFeatures == {"backend-cpu", "backend-metal", "backend-vulkan"}
Metal(asked) == "backend-metal" \in asked
Vulkan(asked) == "backend-vulkan" \in asked

Contents == Versions \cup {Absent}

(* The generators and the runs of the program that there can be.           *)
Generators == [source : Versions, defines : SUBSET Extensions]
Runs == [features : SUBSET KnownFeatures,
         read : [vulkan : {<<>>} \cup
                    Versions \X [Comps -> Contents] \X [Fragments -> Contents],
                 metal : Contents],
         defines : [generator : SUBSET Extensions, backend : SUBSET Extensions],
         comps : SUBSET Comps, fragments : SUBSET Fragments,
         merged : Versions, assembled : BOOLEAN, probed : Compilers]

ASSUME AbsentAssumption == Absent \notin Versions \cup Generators \cup Runs

Init ==
    /\ target \in {"linux", "macos"}
    /\ features = {}
    /\ \E v \in Versions :
          tree = [gen |-> v, metal |-> v, tests |-> Extensions,
                  comps |-> [c \in Comps |-> v],
                  fragments |-> [f \in Fragments |-> v]]
    /\ glslc \in Compilers
    /\ program = Absent
    /\ built = [generator |-> Absent, header |-> Absent, backend |-> Absent,
                shader |-> [c \in Comps |-> Absent], metal |-> Absent]
    /\ phase = "idle"
    /\ changes = 0

-----------------------------------------------------------------------------
(* The build program.                                                      *)

(* Mutant: what did not say it is unsupported is supported.                *)
SupportsUnlessRefused(answer) == answer # "refused"

(* glslc_supports: compiling is the answer.                                *)
Supports(answer) == answer = "compiled"

(* What a probe of the extension can come to: there may be no test for it, *)
(* and a probe may fail for any reason of its own.                         *)
Answers(x) == IF x \notin tree.tests THEN {"missing"}
              ELSE {"broken", IF x \in Accepts[glslc] THEN "compiled" ELSE "refused"}

(* validate_features and the refusals of emit_metal and emit_vulkan.       *)
Refuses(asked) == \/ ~(asked \subseteq KnownFeatures)
                  \/ Metal(asked) /\ target # "macos"
                  \/ Vulkan(asked) /\ target # "linux"

(* Mutant: the set of fragments is not declared.                           *)
DeclaredWithoutFragments(asked) ==
    [vulkan |-> IF Vulkan(asked)
                THEN <<tree.gen, tree.comps, [f \in Fragments |-> Absent]>> ELSE <<>>,
     metal |-> IF Metal(asked) THEN tree.metal ELSE Absent]

(* rerun_if_changed and rerun_if_changed_glob.                             *)
Declared(asked) ==
    [vulkan |-> IF Vulkan(asked) THEN <<tree.gen, tree.comps, tree.fragments>>
                ELSE <<>>,
     metal |-> IF Metal(asked) THEN tree.metal ELSE Absent]

(* Mutant: the backend's defines are probed for a second time.             *)
DefinesOf(first, second) == [generator |-> first, backend |-> second]

(* One probe, two readers.                                                 *)
Defines(first, second) == [generator |-> first, backend |-> first]

(* emit_metal writes its two files during the run; emit_vulkan probes and  *)
(* then submits the edges of the shaders it finds.                         *)
RunProgram ==
    /\ phase = "program" /\ ~Refuses(features)
    /\ Vulkan(features) => Present(tree.comps) # {}
    /\ \E first, second \in [Extensions -> {"compiled", "refused", "broken", "missing"}] :
          /\ \A x \in Extensions : first[x] \in Answers(x) /\ second[x] \in Answers(x)
          /\ program' =
               [features |-> features, read |-> Declared(features),
                defines |-> Defines({x \in Extensions : Supports(first[x])},
                                    {x \in Extensions : Supports(second[x])}),
                comps |-> Present(tree.comps),
                fragments |-> Present(tree.fragments),
                merged |-> tree.metal, assembled |-> FALSE,
                probed |-> glslc]
    /\ phase' = "edges"
    /\ UNCHANGED <<target, features, tree, glslc, built, changes>>

(* The program returns 2 or 1, and mcpp has no run to reuse.               *)
ProgramFails ==
    /\ phase = "program"
    /\ program' = Absent
    /\ phase' = "idle" /\ features' = {}
    /\ UNCHANGED <<target, tree, glslc, built, changes>>

-----------------------------------------------------------------------------
(* A build of mcpp.                                                        *)

IsFresh(asked) ==
    /\ program # Absent
    /\ program.features = asked /\ program.read = Declared(asked)

StartBuild ==
    /\ phase \in {"idle", "done"}
    /\ features' \in SUBSET {"backend-metal", "backend-vulkan", "misspelt"}
    /\ phase' = IF IsFresh(features') THEN "edges" ELSE "program"
    /\ UNCHANGED <<target, tree, glslc, program, built, changes>>

(* The output of build_generator: the source and the command line.         *)
Generator == [source |-> tree.gen, defines |-> program.defines.generator]

BuildGenerator ==
    /\ built.generator # Generator
    /\ built' = [built EXCEPT !.generator = Generator]
    /\ UNCHANGED program

(* build_header: its input is the generator.                               *)
BuildHeader ==
    /\ built.generator = Generator
    /\ built.header # built.generator
    /\ built' = [built EXCEPT !.header = built.generator]
    /\ UNCHANGED program

(* The inputs of a shader's edge; the compiler is only named by its path.  *)
ShaderInputs(c) ==
    [generator |-> built.generator, comp |-> tree.comps[c],
     fragments |-> [f \in program.fragments |-> tree.fragments[f]]]

IsCurrent(c) ==
    built.shader[c] # Absent /\ built.shader[c].inputs = ShaderInputs(c)

(* Mutant: the generator is not an input of the shaders.                   *)
BuildShaderUnordered(c) ==
    /\ c \in program.comps
    /\ ~IsCurrent(c)
    /\ built' = [built EXCEPT !.shader[c] =
                   [inputs |-> ShaderInputs(c), generator |-> built.generator,
                    comp |-> tree.comps[c], included |-> tree.fragments]]
    /\ UNCHANGED program

(* The generator compiles the shader with whatever it includes.            *)
BuildShader(c) ==
    /\ c \in program.comps
    /\ built.generator = Generator
    /\ ~IsCurrent(c)
    /\ built' = [built EXCEPT !.shader[c] =
                   [inputs |-> ShaderInputs(c), generator |-> built.generator,
                    comp |-> tree.comps[c], included |-> tree.fragments]]
    /\ UNCHANGED program

(* ggml-vulkan.cpp, with the defines and the header.                       *)
Backend == [defines |-> program.defines.backend, header |-> built.header]

BuildBackend ==
    /\ built.generator = Generator /\ built.header = built.generator
    /\ built.backend # Backend
    /\ built' = [built EXCEPT !.backend = Backend]
    /\ UNCHANGED program

VulkanEdge ==
    /\ Vulkan(features)
    /\ BuildGenerator \/ BuildHeader \/ BuildBackend \/ \E c \in Comps : BuildShader(c)

(* The assembly embeds the merged source by its path: it is assembled when *)
(* the program has written it again.                                       *)
MetalEdge ==
    /\ Metal(features) /\ ~program.assembled
    /\ program' = [program EXCEPT !.assembled = TRUE]
    /\ built' = [built EXCEPT !.metal = program.merged]

Edge ==
    /\ phase = "edges"
    /\ VulkanEdge \/ MetalEdge
    /\ UNCHANGED <<target, features, tree, glslc, phase, changes>>

VulkanIsBuilt ==
    /\ built.generator = Generator /\ built.header = built.generator
    /\ built.backend = Backend
    /\ \A c \in program.comps : IsCurrent(c)

FinishBuild ==
    /\ phase = "edges"
    /\ Vulkan(features) => VulkanIsBuilt
    /\ Metal(features) => program.assembled
    /\ phase' = "done"
    /\ UNCHANGED <<target, features, tree, glslc, program, built, changes>>

(* An edge fails or the build is interrupted; what was built stays.        *)
StopBuild ==
    /\ phase = "edges"
    /\ phase' = "idle" /\ features' = {}
    /\ UNCHANGED <<target, tree, glslc, program, built, changes>>

-----------------------------------------------------------------------------
(* What happens between builds: an import replaces files, adds them and    *)
(* removes them, and a package update replaces the compiler in its place.  *)

ChangeTree ==
    /\ tree' \in {[tree EXCEPT !.gen = v] : v \in Versions}
                 \cup {[tree EXCEPT !.metal = v] : v \in Versions}
                 \cup {[tree EXCEPT !.comps[c] = v] : c \in Comps, v \in Contents}
                 \cup {[tree EXCEPT !.fragments[f] = v] : f \in Fragments, v \in Contents}
                 \cup {[tree EXCEPT !.tests = tests] : tests \in SUBSET Extensions}
    /\ tree' # tree
    /\ UNCHANGED glslc

ChangeCompiler ==
    /\ glslc' \in Compilers \ {glslc}
    /\ UNCHANGED tree

Change ==
    /\ phase \in {"idle", "done"} /\ changes < MaxChanges
    /\ ChangeTree \/ ChangeCompiler
    /\ phase' = "idle" /\ features' = {}
    /\ changes' = changes + 1
    /\ UNCHANGED <<target, program, built>>

Next == RunProgram \/ ProgramFails \/ StartBuild \/ Edge \/ FinishBuild
        \/ StopBuild \/ Change

Spec == Init /\ [][Next]_vars

-----------------------------------------------------------------------------
(* Properties.                                                             *)

(* A build goes on only with a run of the program for its features, and an *)
(* output is from a generator.                                             *)
TypeOK ==
    /\ tree \in [gen : Versions, metal : Versions, tests : SUBSET Extensions,
                 comps : [Comps -> Contents], fragments : [Fragments -> Contents]]
    /\ glslc \in Compilers
    /\ phase \in {"idle", "program", "edges", "done"}
    /\ program \in Runs \cup {Absent}
    /\ phase \in {"edges", "done"} => IsFresh(features) /\ ~Refuses(features)
    /\ built.generator \in Generators \cup {Absent}
    /\ \A c \in Comps :
          built.shader[c] # Absent => built.shader[c].generator # Absent

(* A build that finishes has its generator, its header, exactly the        *)
(* shaders of the tree and its Metal source from the files as they are     *)
(* now, whatever was added, removed or changed since the outputs were made *)
(* and wherever earlier builds stopped (the declared globs, the edges'     *)
(* inputs and emit_metal's own files together).                            *)
OutputsAreCurrent ==
    phase = "done" =>
        /\ Vulkan(features) =>
              /\ built.generator.source = tree.gen
              /\ built.header = built.generator
              /\ program.comps = Present(tree.comps)
              /\ \A c \in program.comps :
                    /\ built.shader[c].generator = built.generator
                    /\ built.shader[c].comp = tree.comps[c]
                    /\ built.shader[c].included = tree.fragments
        /\ Metal(features) => built.metal = tree.metal

(* The backend looks for the variants that every shader was generated      *)
(* with, even when a probe answered differently in another run ("ONE       *)
(* probe, two readers", build.mcpp:363).                                   *)
VariantsAgree ==
    phase = "done" /\ Vulkan(features) =>
        /\ built.backend.header.defines = built.backend.defines
        /\ \A c \in program.comps :
              built.shader[c].generator.defines = built.backend.defines

(* A finished build claims an extension only if the compiler has it,       *)
(* unless the compiler was replaced since it was probed (glslc_supports:   *)
(* a probe that did not answer the question is "not supported").           *)
ClaimsAreVerified ==
    phase = "done" /\ Vulkan(features) /\ program.probed = glslc =>
        built.backend.defines \subseteq Accepts[glslc]
=============================================================================

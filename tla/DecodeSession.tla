--------------------------- MODULE DecodeSession ---------------------------
(***************************************************************************)
(* One run of a chat example (examples/chat-*/src/main.cpp) or of a decode *)
(* test (tests/*_decode.cpp).                                              *)
(*                                                                         *)
(* Each program is a straight line of stages.  A stage acquires a resource *)
(* of llama.cpp or checks something; when it is refused the program frees  *)
(* what that exit path names, one call after another, and exits with the   *)
(* path's code.  The chat examples end in a loop that decodes a prompt and *)
(* then the tokens it sampled, in a context sized for exactly these.       *)
(***************************************************************************)
EXTENDS Naturals, Sequences

CONSTANTS MaxGenerated,   \* max_generated_tokens: 32
          MaxPrompt       \* bound: tokens of a prompt

ASSUME SizesAssumption == MaxGenerated \in Nat \ {0} /\ MaxPrompt \in Nat

Chats == {"chat-cpu", "chat-metal", "chat-vulkan"}
Tests == {"cpu_decode", "metal_decode", "vulkan_decode"}
Programs == Chats \cup Tests

NoExit == 99                   \* no exit code yet

VARIABLES
    program,    \* which program runs
    prompt,     \* tokens of its prompt
    stage,      \* the stage it is in
    live,       \* resources acquired and not freed
    freeing,    \* resources the current path has left to free
    code,       \* the exit code, or NoExit
    offloaded,  \* did the last model load put layers on the device
    logs,       \* does the captured log say that a load did
    used,       \* tokens in the context
    batch,      \* tokens of the next decode
    generated,  \* passes of the generation loop
    sampling    \* a decode succeeded and its token is to be sampled

sessionVars == <<program, prompt, stage, live, freeing, code, offloaded, logs,
                 used, batch, generated, sampling>>

-----------------------------------------------------------------------------
(* Stages: what is acquired (or nothing), and the exit when it is refused. *)

Stage(name, takes, exit, frees) ==
    [name |-> name, takes |-> takes, exit |-> exit, frees |-> frees]

Take(resource, exit, frees) == Stage(resource, <<resource>>, exit, frees)
Check(name, exit, frees) == Stage(name, <<>>, exit, frees)
(* Frees in the middle of a program, then goes on.                         *)
GiveBack(frees) == Stage("give_back", <<>>, NoExit, frees)
(* llama_backend_init and llama_sampler_chain_init are not checked.        *)
TakeUnchecked(resource) == Stage("unchecked", <<resource>>, NoExit, <<>>)

(* Mutant: the log of what ran before stays.                               *)
LogsKept == Stage("keep_logs", <<>>, NoExit, <<>>)

(* logs.clear()                                                            *)
ClearLogs == Stage("clear_logs", <<>>, NoExit, <<>>)

B == <<"backend">>
MB == <<"model", "backend">>
CMB == <<"context", "model", "backend">>
SCMB == <<"sampler", "context", "model", "backend">>

(* After the load: did the model reach the device it was asked for.        *)
OffloadChecked(device) ==
    CASE device = "cpu" -> <<>>
      [] device = "metal" -> <<Check("offload", 9, MB)>>
      [] device = "vulkan" -> <<Check("offload", 4, MB)>>

(* Mutant: this exit path forgets the context.                             *)
ComputeBufferLeaking(device) ==
    IF device = "metal" THEN <<Check("compute_buffer", 10, MB)>> ELSE <<>>

ComputeBufferChecked(device) ==
    IF device = "metal" THEN <<Check("compute_buffer", 10, CMB)>> ELSE <<>>

ChatStages(device) ==
    <<TakeUnchecked("backend")>>
    \o (IF device = "cpu" THEN <<>> ELSE <<Check("registry", 3, B)>>)
    \o <<Take("model", 4, B)>>
    \o OffloadChecked(device)
    \o <<Check("measure", 5, MB), Check("tokenize", 5, MB),
         Take("context", 6, MB)>>
    \o ComputeBufferChecked(device)
    \o <<TakeUnchecked("sampler"), Check("generate", 7, SCMB)>>

CpuTestStages ==
    <<Check("environment", 1, <<>>), Check("model_file", 2, <<>>),
      TakeUnchecked("backend"), Take("model", 3, B), Take("context", 4, MB),
      Check("decode", 5, CMB), TakeUnchecked("sampler"),
      Check("vocabulary", 6, SCMB), GiveBack(SCMB)>>

(* run_device_add_probe, run_metal_add_probe and the check of the answer.  *)
ProbeStages ==
    <<Take("device", 1, B), Take("graph_context", 1, <<"device">> \o B),
      Take("buffer", 1, <<"graph_context", "device">> \o B),
      Check("tensors", 1, <<"buffer", "graph_context", "device">> \o B),
      GiveBack(<<"buffer", "graph_context", "device">>),
      Check("probe_answer", 1, B)>>

MetalTestStages ==
    <<Check("environment", 1, <<>>), TakeUnchecked("backend"),
      Check("registry", 1, B), Check("GPU_device", 1, B),
      Check("embedded_library", 1, B), Check("offload_support", 1, B)>>
    \o ProbeStages
    \o <<Check("embedded_library_used", 1, B), ClearLogs, Take("model", 1, B),
         Check("offload", 1, MB), Check("model_buffer", 1, MB),
         Take("context", 1, MB), Check("compute_buffer", 1, CMB),
         Check("decode", 1, CMB), TakeUnchecked("sampler"),
         Check("vocabulary", 1, SCMB), GiveBack(SCMB)>>

(* Mutant: the model is freed before the context that runs on it.          *)
DecodeOnceDisordered ==
    <<Take("model", 1, B), Take("context", 1, MB), Check("decode", 1, CMB),
      TakeUnchecked("sampler"), GiveBack(<<"sampler", "model", "context">>),
      Check("vocabulary", 1, B)>>

(* decode_once and the check of its result: the backend stays.             *)
DecodeOnce ==
    <<Take("model", 1, B), Take("context", 1, MB), Check("decode", 1, CMB),
      TakeUnchecked("sampler"), GiveBack(<<"sampler", "context", "model">>),
      Check("vocabulary", 1, B)>>

VulkanTestStages ==
    <<Check("environment", 1, <<>>), TakeUnchecked("backend"),
      Check("registry", 1, B), Check("device_count", 1, B),
      Check("device_handle", 1, B)>>
    \o ProbeStages
    \o <<Check("offload_support", 1, B)>>
    \o <<ClearLogs>> \o DecodeOnce \o <<ClearLogs>> \o DecodeOnce
    \o <<Check("offload", 1, B), Check("same_token", 1, B), GiveBack(B)>>

Stages == CASE program = "chat-cpu" -> ChatStages("cpu")
            [] program = "chat-metal" -> ChatStages("metal")
            [] program = "chat-vulkan" -> ChatStages("vulkan")
            [] program = "cpu_decode" -> CpuTestStages
            [] program = "metal_decode" -> MetalTestStages
            [] program = "vulkan_decode" -> VulkanTestStages

OnDevice == {"chat-metal", "chat-vulkan", "metal_decode", "vulkan_decode"}

-----------------------------------------------------------------------------
SessionInit ==
    /\ program \in Programs
    /\ prompt \in IF program \in Chats THEN 0..MaxPrompt ELSE {0}
    /\ stage = 1
    /\ live = {}
    /\ freeing = <<>>
    /\ code = NoExit
    /\ offloaded = FALSE
    /\ logs = FALSE
    /\ used = 0
    /\ batch = 0
    /\ generated = 0
    /\ sampling = FALSE

loopVars == <<used, batch, generated, sampling>>
deviceVars == <<offloaded, logs>>

At(name) == /\ code = NoExit /\ freeing = <<>>
            /\ stage <= Len(Stages)
            /\ Stages[stage].name = name

Leave(exit, frees) == code' = exit /\ freeing' = frees

(* What the program can see for itself; llama.cpp may refuse anything      *)
(* else.  Of the device it sees only what is in the log by then.           *)
MayPass(name) == /\ name = "offload" => logs
                 /\ name = "measure" => prompt > 0
MayRefuse(name) == /\ name = "offload" => ~logs
                   /\ name = "measure" => prompt = 0

(* The log callback appends; whether a load puts layers on a device is up  *)
(* to llama.cpp, also for the load that vulkan_decode asks for the host.   *)
Log(name) ==
    /\ offloaded' \in IF name # "model" THEN {offloaded}
                      ELSE IF program \in OnDevice THEN BOOLEAN ELSE {FALSE}
    /\ logs' = /\ name # "clear_logs"
               /\ logs \/ (name = "model" /\ offloaded')

PassStage ==
    /\ code = NoExit /\ freeing = <<>> /\ stage <= Len(Stages)
    /\ LET s == Stages[stage]
       IN  /\ s.name \notin {"generate", "give_back"}
           /\ MayPass(s.name)
           /\ live' = live \cup {s.takes[i] : i \in DOMAIN s.takes}
           /\ Log(s.name)
           /\ batch' = IF s.name = "context" THEN prompt ELSE batch
    /\ stage' = stage + 1
    /\ UNCHANGED <<program, prompt, freeing, code, used, generated, sampling>>

RefuseStage ==
    /\ code = NoExit /\ freeing = <<>> /\ stage <= Len(Stages)
    /\ LET s == Stages[stage]
       IN  /\ s.name # "generate"
           /\ s.exit # NoExit
           /\ MayRefuse(s.name)
           /\ Leave(s.exit, s.frees)
    /\ UNCHANGED <<program, prompt, stage, live, deviceVars, loopVars>>

StartGivingBack ==
    /\ At("give_back")
    /\ freeing' = Stages[stage].frees
    /\ stage' = stage + 1
    /\ UNCHANGED <<program, prompt, live, code, deviceVars, loopVars>>

Free ==
    /\ freeing # <<>>
    /\ live' = live \ {Head(freeing)}
    /\ freeing' = Tail(freeing)
    /\ UNCHANGED <<program, prompt, stage, code, deviceVars, loopVars>>

ReturnZero ==
    /\ code = NoExit /\ freeing = <<>> /\ stage > Len(Stages)
    /\ code' = 0
    /\ UNCHANGED <<program, prompt, stage, live, freeing, deviceVars, loopVars>>

-----------------------------------------------------------------------------
(* The generation loop.                                                    *)

(* Mutant: the context holds the answer and not the prompt.                *)
ContextForAnswer == MaxGenerated

ContextSize == prompt + MaxGenerated        \* n_ctx
BatchSize == prompt                         \* n_batch

Decode ==
    /\ At("generate") /\ ~sampling
    /\ \/ /\ used' = used + batch
          /\ sampling' = TRUE
          /\ UNCHANGED <<freeing, code>>
       \/ /\ Leave(Stages[stage].exit, Stages[stage].frees)
          /\ UNCHANGED <<used, sampling>>
    /\ UNCHANGED <<program, prompt, stage, live, deviceVars, batch, generated>>

(* An end-of-generation token and the last pass of the loop end it; a      *)
(* token that cannot be rendered is an error.                              *)
Sample ==
    /\ At("generate") /\ sampling
    /\ sampling' = FALSE
    /\ \/ /\ \E exit \in {0, 8} : Leave(exit, SCMB)
          /\ UNCHANGED <<batch, generated>>
       \/ /\ generated' = generated + 1
          /\ batch' = 1
          /\ IF generated + 1 = MaxGenerated THEN Leave(0, SCMB)
             ELSE UNCHANGED <<code, freeing>>
    /\ UNCHANGED <<program, prompt, stage, live, deviceVars, used>>

SessionNext == \/ PassStage \/ RefuseStage \/ StartGivingBack \/ Free
               \/ ReturnZero \/ Decode \/ Sample

SessionSpec == SessionInit /\ [][SessionNext]_sessionVars

-----------------------------------------------------------------------------
(* Properties.                                                             *)

(* What a resource must not outlive.                                       *)
Needs(resource) == CASE resource = "model" -> {"backend"}
                     [] resource = "context" -> {"model", "backend"}
                     [] resource = "device" -> {"backend"}
                     [] resource = "buffer" -> {"device", "backend"}
                     [] OTHER -> {}

(* No exit path frees a resource twice, one it never had, or one that a    *)
(* resource still alive runs on (llama_free, llama_model_free and          *)
(* llama_backend_free on every path of the programs).                      *)
FreesAreSafe ==
    freeing # <<>> =>
        /\ Head(freeing) \in live
        /\ \A resource \in live : Head(freeing) \notin Needs(resource)

(* A program that has exited has freed everything, whatever refused it,    *)
(* and none acquires a resource over one it still holds.                   *)
NothingLeaks ==
    /\ code # NoExit /\ freeing = <<>> => live = {}
    /\ code = NoExit /\ freeing = <<>> /\ stage <= Len(Stages) =>
          \A i \in DOMAIN Stages[stage].takes :
              Stages[stage].takes[i] \notin live

(* The prompt and every token of the answer fit into the context that was  *)
(* sized before the loop, and every batch into its batch size              *)
(* (context_params.n_ctx and n_batch of the chat examples).                *)
DecodesFit ==
    At("generate") /\ ~sampling =>
        used + batch <= ContextSize /\ batch <= BatchSize

(* A program that was asked for a device and succeeds has run its last     *)
(* model on one, and not only read in its log that an earlier load did:    *)
(* "refuses to claim the device when it did not get one" (chat-vulkan, the *)
(* offload checks of the others, and logs.clear of the tests).             *)
DeviceIsNotClaimed ==
    code = 0 /\ program \in OnDevice => offloaded
=============================================================================

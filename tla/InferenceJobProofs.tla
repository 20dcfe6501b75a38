------------------------ MODULE InferenceJobProofs ------------------------
(***************************************************************************)
(* The fetched model, for any number of invocations, attempts and          *)
(* contents, and the program that runs on it, for any lengths of prompt    *)
(* and answer: its context, what it holds and frees, and its device.       *)
(*                                                                         *)
(* Every stage list of a chat example measures the prompt, sizes the       *)
(* context and ends in the loop, in this order.  In the loop the context   *)
(* holds the prompt and one token for every pass but the one under way.    *)
(*                                                                         *)
(* Along every list, what a program holds is a function of its stage: the  *)
(* lists are put together from pieces that lead from one set of resources  *)
(* to another, and each exit frees the set of its stage in a safe order.   *)
(***************************************************************************)
EXTENDS InferenceJob, TLAPS


Last == Len(Stages)
MeasureAt == IF program = "chat-cpu" THEN 3 ELSE 5
ContextAt == IF program = "chat-cpu" THEN 5 ELSE 7

(* What a chat example that goes on has in its context.                    *)
LoopIsSound ==
    /\ stage <= Last
    /\ stage > MeasureAt => prompt > 0
    /\ stage > ContextAt /\ generated = 0 => batch = prompt
    /\ stage < Last => generated = 0 /\ ~sampling
    /\ generated > 0 => batch = 1
    /\ generated < MaxGenerated
    /\ sampling => used = prompt + generated
    /\ ~sampling => used = IF generated = 0 THEN 0 ELSE prompt + generated - 1

SizesOK ==
    /\ program \in Programs /\ prompt \in Nat
    /\ stage \in 1..(Last + 1)
    /\ used \in Nat /\ batch \in Nat /\ generated \in 0..MaxGenerated

SessionInv == /\ SizesOK
              /\ program \in Chats /\ code = NoExit => LoopIsSound

-----------------------------------------------------------------------------
(* The stages of the chat examples: the prompt is measured before the      *)
(* context is sized for it, and the loop is the last stage.                *)
LEMMA ChatStagesInOrder ==
    ASSUME program \in Chats
    PROVE  /\ Last \in Nat
           /\ 0 < MeasureAt /\ MeasureAt < ContextAt /\ ContextAt < Last
           /\ Stages[Last].exit # NoExit
           /\ \A i \in 1..Last :
                 /\ Stages[i].name = "measure" <=> i = MeasureAt
                 /\ Stages[i].name = "context" <=> i = ContextAt
                 /\ Stages[i].name = "generate" <=> i = Last
<1> USE DEF ChatStages, OffloadChecked, ComputeBufferChecked, Stage, Take,
            Check, TakeUnchecked, MeasureAt, ContextAt, Stages, Last, NoExit
<1>1. CASE program = "chat-cpu"
  BY <1>1
<1>2. CASE program = "chat-metal"
  <2>1. Len(Stages) = 10
    BY <1>2
  <2> QED
    BY <1>2, <2>1
<1>3. CASE program = "chat-vulkan"
  <2>1. Len(Stages) = 9
    BY <1>3
  <2> QED
    BY <1>3, <2>1
<1> QED
  BY <1>1, <1>2, <1>3 DEF Chats

(* No decode test has the loop.                                            *)
LEMMA TestsDoNotGenerate ==
    ASSUME program \in Tests
    PROVE  /\ Last \in Nat
           /\ \A i \in 1..Last : Stages[i].name # "generate"
<1> DEFINE Silent(list) == /\ Len(list) \in Nat
                           /\ \A i \in 1..Len(list) : list[i].name # "generate"
<1> USE DEF ProbeStages, DecodeOnce, Stage, Take, Check, GiveBack, TakeUnchecked,
            ClearLogs
<1>1. Silent(CpuTestStages)
  <2>1. Len(CpuTestStages) = 9
    BY DEF CpuTestStages
  <2> QED
    BY <2>1 DEF CpuTestStages
<1>2. Silent(MetalTestStages)
  <2>1. Len(MetalTestStages) = 23
    BY DEF MetalTestStages
  <2> QED
    BY <2>1 DEF MetalTestStages
<1>3. Silent(VulkanTestStages)
  <2>1. Len(VulkanTestStages) = 29
    BY DEF VulkanTestStages
  <2> QED
    BY <2>1 DEF VulkanTestStages
<1>4. Stages \in {CpuTestStages, MetalTestStages, VulkanTestStages}
  BY DEF Stages, Tests
<1> QED
  BY <1>1, <1>2, <1>3, <1>4 DEF Last

(* Every list has a length, and only a chat example comes to the loop,     *)
(* which is then its last stage.                                           *)
LEMMA LoopIsLast ==
    ASSUME SessionInv
    PROVE  /\ Last \in Nat
           /\ At("generate") => program \in Chats /\ stage = Last
BY ChatStagesInOrder, TestsDoNotGenerate DEF SessionInv, SizesOK, Programs, At, Last

-----------------------------------------------------------------------------
(* A program starts before its first stage.                                *)
LEMMA SessionInvInit == SessionInit => SessionInv
<1> SUFFICES ASSUME SessionInit PROVE SessionInv
  OBVIOUS
<1> USE SizesAssumption
<1>1. /\ program \in Programs /\ prompt \in Nat /\ stage = 1
      /\ used = 0 /\ batch = 0 /\ generated = 0
  BY DEF SessionInit
<1>2. ~sampling
  BY DEF SessionInit
<1>3. Last \in Nat
  BY <1>1, ChatStagesInOrder, TestsDoNotGenerate DEF Programs
<1>4. SizesOK
  BY <1>1, <1>3 DEF SizesOK
<1>5. ASSUME program \in Chats PROVE LoopIsSound
  <2>1. /\ MeasureAt \in Nat /\ ContextAt \in Nat
        /\ 0 < MeasureAt /\ MeasureAt < ContextAt /\ ContextAt < Last
    BY <1>5, ChatStagesInOrder DEF MeasureAt, ContextAt
  <2> QED
    BY <1>1, <1>2, <1>3, <2>1 DEF LoopIsSound
<1> QED
  BY <1>4, <1>5 DEF SessionInv

(* Each stage, each free and each pass of the loop keeps it.               *)
LEMMA SessionInvNext ==
    ASSUME SessionInv, [SessionNext]_sessionVars
    PROVE  SessionInv'
<1> USE SizesAssumption
<1>0. SizesOK /\ (program \in Chats /\ code = NoExit => LoopIsSound)
  BY DEF SessionInv
<1>1. /\ Last \in Nat
      /\ At("generate") => program \in Chats /\ stage = Last
  BY LoopIsLast
<1>2. ASSUME program' = program
      PROVE  Last' = Last /\ MeasureAt' = MeasureAt /\ ContextAt' = ContextAt
  BY <1>2 DEF Last, Stages, MeasureAt, ContextAt
<1>3. ASSUME UNCHANGED <<program, prompt, used, generated, sampling, code>>,
             code = NoExit, stage <= Last, stage' = stage + 1,
             Stages[stage].name # "generate",
             Stages[stage].name = "measure" => prompt > 0,
             batch' = IF Stages[stage].name = "context" THEN prompt ELSE batch
      PROVE  SessionInv'
  <2> DEFINE name == Stages[stage].name
  <2>1. /\ program' = program /\ prompt' = prompt /\ used' = used
        /\ generated' = generated /\ stage' = stage + 1 /\ stage <= Last
        /\ batch' = IF name = "context" THEN prompt ELSE batch
        /\ name = "measure" => prompt > 0
        /\ name # "generate"
    BY <1>3
  <2>2. sampling' <=> sampling
    BY <1>3
  <2> HIDE DEF name
  <2>3. SizesOK'
    BY <1>0, <1>1, <1>2, <2>1 DEF SizesOK
  <2>4. ASSUME program \in Chats PROVE LoopIsSound'
    <3>1. /\ LoopIsSound
          /\ stage \in 1..Last
          /\ name = "measure" <=> stage = MeasureAt
          /\ name = "context" <=> stage = ContextAt
          /\ name = "generate" <=> stage = Last
      BY <1>0, <1>1, <1>3, <2>1, <2>4, ChatStagesInOrder DEF SizesOK, name
    <3>2. 0 < MeasureAt /\ MeasureAt < ContextAt /\ ContextAt < Last
      BY <2>4, ChatStagesInOrder
    <3>3. MeasureAt \in Nat /\ ContextAt \in Nat
      BY DEF MeasureAt, ContextAt
    <3>4. /\ stage < Last /\ generated = 0 /\ ~sampling /\ used = 0
      BY <1>1, <2>1, <3>1 DEF LoopIsSound
    <3>5. stage' > MeasureAt => prompt' > 0
      BY <2>1, <3>1, <3>3 DEF LoopIsSound
    <3>6. stage' > ContextAt => batch' = prompt'
      BY <2>1, <3>1, <3>3, <3>4 DEF LoopIsSound
    <3>7. stage' <= Last
      BY <1>1, <2>1, <3>1, <3>4
    <3> QED
      BY <1>2, <2>1, <2>2, <3>4, <3>5, <3>6, <3>7 DEF LoopIsSound
  <2> QED
    BY <1>3, <2>3, <2>4 DEF SessionInv
<1>4. ASSUME UNCHANGED <<program, prompt, stage, loopVars>>,
             code' # NoExit \/ code' = code
      PROVE  SessionInv'
  <2>1. /\ program' = program /\ prompt' = prompt /\ stage' = stage
        /\ used' = used /\ batch' = batch /\ generated' = generated
    BY <1>4 DEF loopVars
  <2>2. sampling' <=> sampling
    BY <1>4 DEF loopVars
  <2>3. SizesOK'
    BY <1>0, <1>2, <2>1 DEF SizesOK
  <2>4. ASSUME program \in Chats, code = NoExit PROVE LoopIsSound'
    BY <1>0, <1>2, <2>1, <2>2, <2>4 DEF LoopIsSound
  <2> QED
    BY <1>4, <2>3, <2>4 DEF SessionInv
<1>5. CASE PassStage
  BY <1>3, <1>5 DEF PassStage, MayPass, Last
<1>6. CASE StartGivingBack
  BY <1>3, <1>6 DEF StartGivingBack, At, loopVars, Last
<1>7. CASE RefuseStage
  BY <1>4, <1>7 DEF RefuseStage, Leave
<1>8. CASE Free \/ ReturnZero
  BY <1>4, <1>8 DEF Free, ReturnZero, NoExit
<1>9. CASE Decode
  <2>1. /\ program \in Chats /\ stage = Last /\ LoopIsSound
        /\ program' = program /\ prompt' = prompt /\ stage' = stage
        /\ batch' = batch /\ generated' = generated
    BY <1>0, <1>1, <1>9 DEF Decode, At
  <2>2. ~sampling
    BY <1>9 DEF Decode
  <2>3. CASE code' # NoExit /\ used' = used
    <3>1. SizesOK'
      BY <1>0, <1>2, <2>1, <2>3 DEF SizesOK
    <3> QED
      BY <2>3, <3>1 DEF SessionInv
  <2>4. CASE used' = used + batch /\ sampling'
    <3>1. SizesOK'
      BY <1>0, <1>2, <2>1, <2>4 DEF SizesOK
    <3>2. used' = prompt + generated
      <4>1. ContextAt < Last
        BY <2>1, ChatStagesInOrder
      <4> QED
        BY <1>0, <2>1, <2>2, <2>4, <4>1 DEF LoopIsSound, SizesOK
    <3>3. LoopIsSound'
      BY <1>1, <1>2, <2>1, <2>4, <3>2 DEF LoopIsSound
    <3> QED
      BY <3>1, <3>3 DEF SessionInv
  <2>5. \/ code' = Stages[stage].exit /\ used' = used
        \/ used' = used + batch /\ sampling'
    BY <1>9 DEF Decode, Leave
  <2>6. Stages[stage].exit # NoExit
    BY <2>1, ChatStagesInOrder
  <2> QED
    BY <2>3, <2>4, <2>5, <2>6
<1>10. CASE Sample
  <2>1. /\ program \in Chats /\ stage = Last /\ LoopIsSound
        /\ program' = program /\ prompt' = prompt /\ stage' = stage
        /\ used' = used
    BY <1>0, <1>1, <1>10 DEF Sample, At
  <2>2. sampling /\ ~sampling'
    BY <1>10 DEF Sample
  <2>3. CASE code' \in {0, 8} /\ batch' = batch /\ generated' = generated
    <3>1. SizesOK'
      BY <1>0, <1>2, <2>1, <2>3 DEF SizesOK
    <3> QED
      BY <2>3, <3>1 DEF SessionInv, NoExit
  <2>4. CASE /\ generated' = generated + 1 /\ batch' = 1
             /\ generated + 1 = MaxGenerated => code' = 0
    <3>1. /\ generated \in Nat /\ generated < MaxGenerated
          /\ prompt \in Nat /\ used = prompt + generated
      BY <1>0, <2>1, <2>2 DEF SizesOK, LoopIsSound
    <3>2. SizesOK'
      BY <1>0, <1>2, <2>1, <2>4, <3>1 DEF SizesOK
    <3>3. ASSUME code' = NoExit PROVE LoopIsSound'
      <4>1. generated + 1 < MaxGenerated
        BY <2>4, <3>1, <3>3 DEF NoExit
      <4>2. stage' > MeasureAt' => prompt' > 0
        BY <1>2, <2>1 DEF LoopIsSound
      <4> QED
        BY <1>1, <1>2, <2>1, <2>2, <2>4, <3>1, <4>1, <4>2 DEF LoopIsSound
    <3> QED
      BY <3>2, <3>3 DEF SessionInv
  <2>5. \/ code' \in {0, 8} /\ batch' = batch /\ generated' = generated
        \/ /\ generated' = generated + 1 /\ batch' = 1
           /\ generated + 1 = MaxGenerated => code' = 0
    BY <1>10 DEF Sample, Leave
  <2> QED
    BY <2>3, <2>4, <2>5
<1>11. CASE UNCHANGED sessionVars
  BY <1>4, <1>11 DEF sessionVars, loopVars
<1> QED
  BY <1>5, <1>6, <1>7, <1>8, <1>9, <1>10, <1>11 DEF SessionNext

(* The next decode fits: the prompt at first, then one token at a time     *)
(* over the prompt and what was generated.                                 *)
LEMMA SoundLoopsFit == SessionInv => DecodesFit
<1> SUFFICES ASSUME SessionInv, At("generate"), ~sampling
             PROVE  used + batch <= ContextSize /\ batch <= BatchSize
  BY DEF DecodesFit
<1>1. program \in Chats /\ stage = Last /\ code = NoExit
  BY LoopIsLast DEF At
<1>2. LoopIsSound /\ SizesOK
  BY <1>1 DEF SessionInv
<1>3. MeasureAt < Last /\ ContextAt < Last
  <2>1. /\ Last \in Nat /\ MeasureAt \in Nat /\ ContextAt \in Nat
        /\ MeasureAt < ContextAt /\ ContextAt < Last
    BY <1>1, ChatStagesInOrder DEF MeasureAt, ContextAt
  <2> QED
    BY <2>1
<1>4. prompt > 0 /\ (generated = 0 => batch = prompt)
  BY <1>1, <1>2, <1>3 DEF LoopIsSound
<1>5. /\ prompt \in Nat /\ batch \in Nat /\ generated \in Nat
      /\ generated < MaxGenerated
      /\ used = IF generated = 0 THEN 0 ELSE prompt + generated - 1
      /\ generated > 0 => batch = 1
  BY <1>2 DEF LoopIsSound, SizesOK
<1> QED
  BY <1>4, <1>5, SizesAssumption DEF ContextSize, BatchSize

-----------------------------------------------------------------------------
(* Resources.  Along a list of stages, what a program holds before a stage *)
(* is a function of the stage alone, and is exactly what the exit path of  *)
(* that stage frees.                                                       *)

Resources == {"backend", "model", "context", "sampler",
              "device", "graph_context", "buffer"}

SetOf(list) == {list[i] : i \in 1..Len(list)}

(* Freeing the list in its order is safe while these are held.             *)
SafeToFree(list, held) ==
    /\ list \in Seq(Resources)
    /\ \A i \in 1..Len(list) : list[i] \in held
    /\ \A i, j \in 1..Len(list) : list[i] = list[j] => i = j
    /\ \A i \in 1..Len(list), r \in held :
          list[i] \in Needs(r) => \E j \in 1..(i - 1) : list[j] = r

(* Freeing all that is held, in this order, is safe.                       *)
FreesAll(list, held) == SafeToFree(list, held) /\ held = SetOf(list)

(* A stage before and after which these are held: refused, it frees all;   *)
(* passed, it takes nothing that is held already.                          *)
Disciplined(s, before, after) ==
    /\ s.exit # NoExit => FreesAll(s.frees, before)
    /\ s.exit # 0
    /\ s.takes \in Seq(Resources) /\ SetOf(s.takes) \cap before = {}
    /\ s.name = "give_back" =>
          SafeToFree(s.frees, before) /\ after = before \ SetOf(s.frees)
    /\ s.name # "give_back" => after = before \cup SetOf(s.takes)
    /\ s.name = "generate" => s.frees = SCMB

(* What is held before each stage of a list, and at last after all.        *)
HeldAlong(list, h) ==
    /\ h \in [1..(Len(list) + 1) -> SUBSET Resources]
    /\ \A k \in 1..Len(list) : Disciplined(list[k], h[k], h[k + 1])

Leads(list, before, after) ==
    /\ \E S : list \in Seq(S)
    /\ \E h : HeldAlong(list, h) /\ h[1] = before /\ h[Len(list) + 1] = after

heldB == {"backend"}
heldMB == {"model", "backend"}
heldCMB == {"context", "model", "backend"}
heldSCMB == {"sampler", "context", "model", "backend"}

-----------------------------------------------------------------------------
(* What the exit paths free, each at the stages that hold it.              *)
LEMMA ListsAreSafe ==
    /\ FreesAll(<<>>, {}) /\ FreesAll(B, heldB) /\ FreesAll(MB, heldMB)
    /\ FreesAll(CMB, heldCMB) /\ FreesAll(SCMB, heldSCMB)
    /\ FreesAll(<<"device">> \o B, heldB \cup {"device"})
    /\ FreesAll(<<"graph_context", "device">> \o B, heldB \cup {"device", "graph_context"})
    /\ FreesAll(<<"buffer", "graph_context", "device">> \o B,
                heldB \cup {"device", "graph_context", "buffer"})
    /\ SafeToFree(<<"buffer", "graph_context", "device">>,
                  heldB \cup {"device", "graph_context", "buffer"})
    /\ SafeToFree(<<"sampler", "context", "model">>, heldSCMB)
<1> USE DEF FreesAll, SetOf, SafeToFree, Resources, Needs, B, MB, CMB, SCMB,
            heldB, heldMB, heldCMB, heldSCMB
<1>1. FreesAll(<<>>, {}) /\ FreesAll(B, heldB) /\ FreesAll(MB, heldMB)
  OBVIOUS
<1>2. FreesAll(CMB, heldCMB)
  OBVIOUS
<1>3. FreesAll(SCMB, heldSCMB)
  OBVIOUS
<1>4. FreesAll(<<"device">> \o B, heldB \cup {"device"})
  OBVIOUS
<1>5. FreesAll(<<"graph_context", "device">> \o B, heldB \cup {"device", "graph_context"})
  OBVIOUS
<1>6. FreesAll(<<"buffer", "graph_context", "device">> \o B,
               heldB \cup {"device", "graph_context", "buffer"})
  OBVIOUS
<1>7. SafeToFree(<<"buffer", "graph_context", "device">>,
                 heldB \cup {"device", "graph_context", "buffer"})
  OBVIOUS
<1>8. SafeToFree(<<"sampler", "context", "model">>, heldSCMB)
  OBVIOUS
<1> QED
  BY <1>1, <1>2, <1>3, <1>4, <1>5, <1>6, <1>7, <1>8

(* The sets of the lists of no and of one resource.                        *)
LEMMA SetsOfShortLists == /\ SetOf(<<>>) = {} /\ <<>> \in Seq(Resources)
                          /\ \A x \in Resources : /\ SetOf(<<x>>) = {x}
                                                 /\ <<x>> \in Seq(Resources)
BY DEF SetOf

(* Each kind of stage, between what is held before and after it.           *)
LEMMA CheckIsDisciplined ==
    ASSUME NEW name, NEW exit \in 1..98, NEW frees,
           NEW held, FreesAll(frees, held), name # "give_back",
           name = "generate" => frees = SCMB
    PROVE  Disciplined(Check(name, exit, frees), held, held)
<1> DEFINE s == Check(name, exit, frees)
<1>1. /\ s.name = name /\ s.takes = <<>>
      /\ s.exit = exit /\ s.frees = frees
  BY DEF Check, Stage
<1> HIDE DEF s
<1>2. Disciplined(s, held, held)
  BY <1>1, SetsOfShortLists DEF Disciplined, NoExit
<1> QED
  BY <1>2 DEF s

(* An acquisition whose refusal frees what was held before it.             *)
LEMMA TakeIsDisciplined ==
    ASSUME NEW resource \in Resources, NEW exit \in 1..98, NEW frees,
           NEW held, FreesAll(frees, held), resource \notin held
    PROVE  Disciplined(Take(resource, exit, frees), held, held \cup {resource})
<1> DEFINE s == Take(resource, exit, frees)
<1>1. /\ s.name = resource /\ s.takes = <<resource>>
      /\ s.exit = exit /\ s.frees = frees
  BY DEF Take, Stage
<1>2. resource \notin {"give_back", "generate"}
  BY DEF Resources
<1> HIDE DEF s
<1>3. Disciplined(s, held, held \cup {resource})
  BY <1>1, <1>2, SetsOfShortLists DEF Disciplined, NoExit
<1> QED
  BY <1>3 DEF s

(* An acquisition that nothing refuses.                                    *)
LEMMA TakeUncheckedIsDisciplined ==
    ASSUME NEW resource \in Resources, NEW held, resource \notin held
    PROVE  Disciplined(TakeUnchecked(resource), held, held \cup {resource})
<1> DEFINE s == TakeUnchecked(resource)
<1>1. /\ s.name = "unchecked" /\ s.takes = <<resource>>
      /\ s.exit = NoExit /\ s.frees = <<>>
  BY DEF TakeUnchecked, Stage
<1> HIDE DEF s
<1>2. Disciplined(s, held, held \cup {resource})
  BY <1>1, SetsOfShortLists DEF Disciplined, NoExit
<1> QED
  BY <1>2 DEF s

(* Emptying the log takes nothing.                                         *)
LEMMA ClearIsDisciplined ==
    ASSUME NEW held
    PROVE  Disciplined(ClearLogs, held, held)
<1> DEFINE s == ClearLogs
<1>1. /\ s.name = "clear_logs" /\ s.takes = <<>>
      /\ s.exit = NoExit /\ s.frees = <<>>
  BY DEF ClearLogs, Stage
<1> HIDE DEF s
<1>2. Disciplined(s, held, held)
  BY <1>1, SetsOfShortLists DEF Disciplined, NoExit
<1> QED
  BY <1>2 DEF s

(* Frees in the middle of a program.                                       *)
LEMMA GiveBackIsDisciplined ==
    ASSUME NEW frees, NEW held, SafeToFree(frees, held)
    PROVE  Disciplined(GiveBack(frees), held, held \ SetOf(frees))
<1> DEFINE s == GiveBack(frees)
<1>1. /\ s.name = "give_back" /\ s.takes = <<>>
      /\ s.exit = NoExit /\ s.frees = frees
  BY DEF GiveBack, Stage
<1> HIDE DEF s
<1>2. Disciplined(s, held, held \ SetOf(frees))
  BY <1>1, SetsOfShortLists DEF Disciplined, NoExit
<1> QED
  BY <1>2 DEF s

(* No stage.                                                               *)
LEMMA NoStageLeads ==
    ASSUME NEW p \in SUBSET Resources
    PROVE  Leads(<<>>, p, p)
<1> DEFINE h == [k \in {1} |-> p]
<1>1. HeldAlong(<<>>, h) /\ h[1] = p /\ h[Len(<<>>) + 1] = p
  BY DEF HeldAlong
<1>2. <<>> \in Seq({})
  OBVIOUS
<1> QED
  BY <1>1, <1>2 DEF Leads

(* One stage.                                                              *)
LEMMA StageLeads ==
    ASSUME NEW s, NEW p \in SUBSET Resources, NEW q \in SUBSET Resources,
           Disciplined(s, p, q)
    PROVE  Leads(<<s>>, p, q)
<1> DEFINE h == <<p, q>>
<1>1. HeldAlong(<<s>>, h) /\ h[1] = p /\ h[Len(<<s>>) + 1] = q
  BY DEF HeldAlong
<1>2. <<s>> \in Seq({s})
  OBVIOUS
<1> QED
  BY <1>1, <1>2 DEF Leads

(* One list after the other: what is held along both is joined.            *)
LEMMA LeadsOn ==
    ASSUME NEW first, NEW second, NEW p, NEW q, NEW r,
           Leads(first, p, q), Leads(second, q, r)
    PROVE  Leads(first \o second, p, r)
<1>1. PICK f : HeldAlong(first, f) /\ f[1] = p /\ f[Len(first) + 1] = q
  BY DEF Leads
<1>2. PICK g : HeldAlong(second, g) /\ g[1] = q /\ g[Len(second) + 1] = r
  BY DEF Leads
<1>3. PICK S : first \in Seq(S)
  BY DEF Leads
<1>4. PICK T : second \in Seq(T)
  BY DEF Leads
<1> DEFINE m == Len(first)
           n == Len(second)
           list == first \o second
           h == [k \in 1..(m + n + 1) |-> IF k <= m THEN f[k] ELSE g[k - m]]
<1>5. /\ m \in Nat /\ n \in Nat /\ Len(list) = m + n
      /\ \A k \in 1..m : list[k] = first[k]
      /\ \A k \in (m + 1)..(m + n) : list[k] = second[k - m]
      /\ list \in Seq(S \cup T)
  <2>1. first \in Seq(S \cup T) /\ second \in Seq(S \cup T)
    BY <1>3, <1>4
  <2> QED
    BY <2>1
<1>6. /\ f \in [1..(m + 1) -> SUBSET Resources]
      /\ g \in [1..(n + 1) -> SUBSET Resources]
      /\ \A k \in 1..m : Disciplined(first[k], f[k], f[k + 1])
      /\ \A k \in 1..n : Disciplined(second[k], g[k], g[k + 1])
  BY <1>1, <1>2 DEF HeldAlong
<1>7. f[m + 1] = g[1] /\ f[1] = p /\ g[n + 1] = r
  BY <1>1, <1>2
<1> HIDE DEF m, n, list
<1>8. h \in [1..(Len(list) + 1) -> SUBSET Resources]
  BY <1>5, <1>6
<1>9. ASSUME NEW k \in 1..Len(list)
      PROVE  Disciplined(list[k], h[k], h[k + 1])
  <2>1. CASE k < m
    BY <1>5, <1>6, <2>1
  <2>2. CASE k = m
    <3>1. h[k] = f[k] /\ h[k + 1] = f[k + 1]
      BY <1>5, <1>7, <2>2
    <3> QED
      BY <1>5, <1>6, <2>2, <3>1
  <2>3. CASE k > m
    <3>1. h[k] = g[k - m] /\ h[k + 1] = g[(k - m) + 1]
      BY <1>5, <2>3
    <3>2. k - m \in 1..n /\ list[k] = second[k - m]
      BY <1>5, <2>3
    <3> QED
      BY <1>6, <3>1, <3>2
  <2> QED
    BY <1>5, <2>1, <2>2, <2>3
<1>10. h[1] = p /\ h[Len(list) + 1] = r
  <2>1. h[1] = p
    BY <1>5, <1>7
  <2>2. h[Len(list) + 1] = r
    BY <1>5, <1>7
  <2> QED
    BY <2>1, <2>2
<1>11. HeldAlong(list, h)
  BY <1>8, <1>9 DEF HeldAlong
<1> HIDE DEF h
<1> QED
  BY <1>5, <1>10, <1>11 DEF Leads, list

(* The codes of the refusals are none of 0 and NoExit.                     *)
LEMMA Exits == \A exit \in {1, 2, 3, 4, 5, 6, 7, 9, 10} : exit \in 1..98
OBVIOUS

(* What is held is a set of resources.                                     *)
LEMMA HeldSets == /\ {} \in SUBSET Resources /\ heldB \in SUBSET Resources
                  /\ heldMB \in SUBSET Resources /\ heldCMB \in SUBSET Resources
                  /\ heldSCMB \in SUBSET Resources
BY DEF heldB, heldMB, heldCMB, heldSCMB, Resources

(* The stages that the programs share, between what they hold.             *)
LEMMA SharedStages ==
    /\ \A name, exit : exit \in 1..98 /\ name # "give_back" /\ name # "generate" =>
          /\ Disciplined(Check(name, exit, <<>>), {}, {})
          /\ Disciplined(Check(name, exit, B), heldB, heldB)
          /\ Disciplined(Check(name, exit, MB), heldMB, heldMB)
          /\ Disciplined(Check(name, exit, CMB), heldCMB, heldCMB)
          /\ Disciplined(Check(name, exit, SCMB), heldSCMB, heldSCMB)
    /\ \A exit \in 1..98 : /\ Disciplined(Take("model", exit, B), heldB, heldMB)
                           /\ Disciplined(Take("context", exit, MB), heldMB, heldCMB)
    /\ Disciplined(TakeUnchecked("backend"), {}, heldB)
    /\ Disciplined(TakeUnchecked("sampler"), heldCMB, heldSCMB)
    /\ Disciplined(Check("generate", 7, SCMB), heldSCMB, heldSCMB)
    /\ Disciplined(GiveBack(<<"sampler", "context", "model">>), heldSCMB, heldB)
    /\ Disciplined(GiveBack(SCMB), heldSCMB, {})
    /\ Disciplined(GiveBack(B), heldB, {})
<1>1. /\ heldMB = heldB \cup {"model"} /\ heldCMB = heldMB \cup {"context"}
      /\ heldSCMB = heldCMB \cup {"sampler"} /\ heldB = {} \cup {"backend"}
      /\ "model" \notin heldB /\ "context" \notin heldMB /\ "sampler" \notin heldCMB
      /\ {"model", "context", "sampler", "backend"} \subseteq Resources
  BY DEF heldB, heldMB, heldCMB, heldSCMB, Resources
<1>2. ASSUME NEW name, NEW exit \in 1..98,
             name # "give_back", name # "generate"
      PROVE  /\ Disciplined(Check(name, exit, <<>>), {}, {})
             /\ Disciplined(Check(name, exit, B), heldB, heldB)
             /\ Disciplined(Check(name, exit, MB), heldMB, heldMB)
             /\ Disciplined(Check(name, exit, CMB), heldCMB, heldCMB)
             /\ Disciplined(Check(name, exit, SCMB), heldSCMB, heldSCMB)
  BY <1>2, ListsAreSafe, CheckIsDisciplined
<1>3. ASSUME NEW exit \in 1..98
      PROVE  /\ Disciplined(Take("model", exit, B), heldB, heldMB)
             /\ Disciplined(Take("context", exit, MB), heldMB, heldCMB)
  BY <1>1, ListsAreSafe, TakeIsDisciplined
<1>4. Disciplined(TakeUnchecked("backend"), {}, heldB)
  BY <1>1, TakeUncheckedIsDisciplined
<1>5. Disciplined(TakeUnchecked("sampler"), heldCMB, heldSCMB)
  BY <1>1, TakeUncheckedIsDisciplined
<1>6. Disciplined(Check("generate", 7, SCMB), heldSCMB, heldSCMB)
  <2>1. 7 \in 1..98 /\ "generate" # "give_back"
    OBVIOUS
  <2> QED
    BY <2>1, ListsAreSafe, CheckIsDisciplined, Zenon
<1>7. Disciplined(GiveBack(<<"sampler", "context", "model">>), heldSCMB, heldB)
  <2>1. heldB = heldSCMB \ SetOf(<<"sampler", "context", "model">>)
    BY DEF heldB, heldSCMB, SetOf
  <2> QED
    BY <2>1, ListsAreSafe, GiveBackIsDisciplined
<1>8. /\ Disciplined(GiveBack(SCMB), heldSCMB, {})
      /\ Disciplined(GiveBack(B), heldB, {})
  <2>1. /\ SafeToFree(SCMB, heldSCMB) /\ heldSCMB \ SetOf(SCMB) = {}
        /\ SafeToFree(B, heldB) /\ heldB \ SetOf(B) = {}
    BY ListsAreSafe DEF FreesAll
  <2>2. Disciplined(GiveBack(SCMB), heldSCMB, heldSCMB \ SetOf(SCMB))
    BY <2>1, GiveBackIsDisciplined
  <2>3. Disciplined(GiveBack(B), heldB, heldB \ SetOf(B))
    BY <2>1, GiveBackIsDisciplined
  <2> QED
    BY <2>1, <2>2, <2>3
<1> QED
  BY <1>2, <1>3, <1>4, <1>5, <1>6, <1>7, <1>8

(* Lists of three stages, which the others are made of.                    *)
LEMMA ThreeStagesLead ==
    ASSUME NEW s1, NEW s2, NEW s3,
           NEW h1 \in SUBSET Resources, NEW h2 \in SUBSET Resources,
           NEW h3 \in SUBSET Resources, NEW h4 \in SUBSET Resources,
           Disciplined(s1, h1, h2), Disciplined(s2, h2, h3), Disciplined(s3, h3, h4)
    PROVE  Leads(<<s1, s2, s3>>, h1, h4)
<1> DEFINE h == <<h1, h2, h3, h4>>
<1>1. /\ HeldAlong(<<s1, s2, s3>>, h)
      /\ h[1] = h1 /\ h[Len(<<s1, s2, s3>>) + 1] = h4
  BY DEF HeldAlong
<1>2. <<s1, s2, s3>> \in Seq({s1, s2, s3})
  OBVIOUS
<1> QED
  BY <1>1, <1>2 DEF Leads

(* Lists of six.                                                           *)
LEMMA SixStagesLead ==
    ASSUME NEW s1, NEW s2, NEW s3, NEW s4, NEW s5, NEW s6,
           NEW p, NEW q, NEW r,
           Leads(<<s1, s2, s3>>, p, q), Leads(<<s4, s5, s6>>, q, r)
    PROVE  Leads(<<s1, s2, s3, s4, s5, s6>>, p, r)
<1>1. <<s1, s2, s3, s4, s5, s6>> = <<s1, s2, s3>> \o <<s4, s5, s6>>
  OBVIOUS
<1> QED
  BY <1>1, LeadsOn

(* Lists of two.                                                           *)
LEMMA TwoStagesLead ==
    ASSUME NEW s1, NEW s2,
           NEW h1 \in SUBSET Resources, NEW h2 \in SUBSET Resources,
           NEW h3 \in SUBSET Resources,
           Disciplined(s1, h1, h2), Disciplined(s2, h2, h3)
    PROVE  Leads(<<s1, s2>>, h1, h3)
<1> DEFINE h == <<h1, h2, h3>>
<1>1. HeldAlong(<<s1, s2>>, h) /\ h[1] = h1 /\ h[Len(<<s1, s2>>) + 1] = h3
  BY DEF HeldAlong
<1>2. <<s1, s2>> \in Seq({s1, s2})
  OBVIOUS
<1> QED
  BY <1>1, <1>2 DEF Leads

(* The probe of the Metal and the Vulkan test gives back what it took.     *)
LEMMA ProbeLeads == Leads(ProbeStages, heldB, heldB)
<1> DEFINE d == heldB \cup {"device"}
           dg == heldB \cup {"device", "graph_context"}
           dgb == heldB \cup {"device", "graph_context", "buffer"}
           s1 == Take("device", 1, B)
           s2 == Take("graph_context", 1, <<"device">> \o B)
           s3 == Take("buffer", 1, <<"graph_context", "device">> \o B)
           s4 == Check("tensors", 1, <<"buffer", "graph_context", "device">> \o B)
           s5 == GiveBack(<<"buffer", "graph_context", "device">>)
           s6 == Check("probe_answer", 1, B)
<1>1. /\ dg = d \cup {"graph_context"} /\ dgb = dg \cup {"buffer"}
      /\ "device" \notin heldB /\ "graph_context" \notin d /\ "buffer" \notin dg
      /\ {"device", "graph_context", "buffer"} \subseteq Resources
      /\ heldB \in SUBSET Resources /\ d \in SUBSET Resources
      /\ dg \in SUBSET Resources /\ dgb \in SUBSET Resources
      /\ heldB = dgb \ SetOf(<<"buffer", "graph_context", "device">>)
  BY DEF heldB, Resources, SetOf
<1> HIDE DEF d, dg, dgb
<1>2. /\ Disciplined(s1, heldB, d)
      /\ Disciplined(s2, d, dg)
      /\ Disciplined(s3, dg, dgb)
  BY <1>1, ListsAreSafe, TakeIsDisciplined DEF d, dg, dgb
<1>3. Disciplined(s4, dgb, dgb)
  <2>1. FreesAll(<<"buffer", "graph_context", "device">> \o B, dgb)
    BY ListsAreSafe DEF dgb
  <2>2. 1 \in 1..98
    OBVIOUS
  <2> QED
    BY <2>1, <2>2, CheckIsDisciplined, Zenon
<1>4. Disciplined(s5, dgb, heldB)
  BY <1>1, ListsAreSafe, GiveBackIsDisciplined DEF dgb
<1>5. Disciplined(s6, heldB, heldB)
  BY Exits, SharedStages, Zenon
<1> HIDE DEF s1, s2, s3, s4, s5, s6
<1>6. Leads(<<s1, s2, s3>>, heldB, dgb)
  BY <1>1, <1>2, ThreeStagesLead
<1>7. Leads(<<s4, s5, s6>>, dgb, heldB)
  BY <1>1, <1>3, <1>4, <1>5, ThreeStagesLead
<1> QED
  BY <1>6, <1>7, SixStagesLead DEF ProbeStages, s1, s2, s3, s4, s5, s6

(* decode_once leaves the backend.                                         *)
LEMMA DecodeOnceLeads == Leads(DecodeOnce, heldB, heldB)
<1> DEFINE s1 == Take("model", 1, B)
           s2 == Take("context", 1, MB)
           s3 == Check("decode", 1, CMB)
           s4 == TakeUnchecked("sampler")
           s5 == GiveBack(<<"sampler", "context", "model">>)
           s6 == Check("vocabulary", 1, B)
<1>1. /\ Disciplined(s1, heldB, heldMB)
      /\ Disciplined(s2, heldMB, heldCMB)
      /\ Disciplined(s3, heldCMB, heldCMB)
      /\ Disciplined(s4, heldCMB, heldSCMB)
      /\ Disciplined(s5, heldSCMB, heldB)
      /\ Disciplined(s6, heldB, heldB)
  BY Exits, SharedStages, Zenon
<1> HIDE DEF s1, s2, s3, s4, s5, s6
<1>2. /\ Leads(<<s1, s2, s3>>, heldB, heldCMB)
      /\ Leads(<<s4, s5, s6>>, heldCMB, heldB)
  BY <1>1, HeldSets, ThreeStagesLead
<1> QED
  BY <1>2, SixStagesLead DEF DecodeOnce, s1, s2, s3, s4, s5, s6

(* The CPU test.                                                           *)
LEMMA CpuTestLeads == Leads(CpuTestStages, {}, {})
<1> DEFINE first == <<Check("environment", 1, <<>>), Check("model_file", 2, <<>>),
                      TakeUnchecked("backend")>>
           second == <<Take("model", 3, B), Take("context", 4, MB),
                       Check("decode", 5, CMB)>>
           third == <<TakeUnchecked("sampler"), Check("vocabulary", 6, SCMB),
                      GiveBack(SCMB)>>
<1>1. /\ Disciplined(Check("environment", 1, <<>>), {}, {})
      /\ Disciplined(Check("model_file", 2, <<>>), {}, {})
  BY Exits, SharedStages, Zenon
<1>2. Leads(first, {}, heldB)
  BY <1>1, HeldSets, SharedStages, ThreeStagesLead
<1>3. /\ Disciplined(Take("model", 3, B), heldB, heldMB)
      /\ Disciplined(Take("context", 4, MB), heldMB, heldCMB)
  BY Exits, SharedStages, Zenon
<1>4. /\ Disciplined(Check("decode", 5, CMB), heldCMB, heldCMB)
      /\ Disciplined(Check("vocabulary", 6, SCMB), heldSCMB, heldSCMB)
  BY Exits, SharedStages, Zenon
<1>5. Leads(second, heldB, heldCMB)
  BY <1>3, <1>4, HeldSets, ThreeStagesLead
<1>6. Leads(third, heldCMB, {})
  BY <1>4, HeldSets, SharedStages, ThreeStagesLead
<1>7. CpuTestStages = first \o second \o third
  BY DEF CpuTestStages
<1> HIDE DEF first, second, third
<1> QED
  BY <1>2, <1>5, <1>6, <1>7, LeadsOn

(* The Metal test.                                                         *)
LEMMA MetalTestLeads == Leads(MetalTestStages, {}, {})
<1> DEFINE s1 == Check("environment", 1, <<>>)
           s2 == TakeUnchecked("backend")
           s3 == Check("registry", 1, B)
           s4 == Check("GPU_device", 1, B)
           s5 == Check("embedded_library", 1, B)
           s6 == Check("offload_support", 1, B)
           s7 == Check("embedded_library_used", 1, B)
           s8 == Take("model", 1, B)
           s9 == Check("offload", 1, MB)
           s10 == Check("model_buffer", 1, MB)
           s11 == Take("context", 1, MB)
           s12 == Check("compute_buffer", 1, CMB)
           s13 == Check("decode", 1, CMB)
           s14 == TakeUnchecked("sampler")
           s15 == Check("vocabulary", 1, SCMB)
           s16 == GiveBack(SCMB)
           tail == <<s7, ClearLogs, s8, s9, s10, s11, s12, s13, s14, s15, s16>>
<1>1. /\ Disciplined(s1, {}, {})
      /\ Disciplined(s2, {}, heldB)
      /\ Disciplined(s3, heldB, heldB)
      /\ Disciplined(s4, heldB, heldB)
      /\ Disciplined(s5, heldB, heldB)
      /\ Disciplined(s6, heldB, heldB)
  BY Exits, SharedStages, Zenon
<1>2. /\ Disciplined(s7, heldB, heldB)
      /\ Disciplined(s8, heldB, heldMB)
      /\ Disciplined(s9, heldMB, heldMB)
      /\ Disciplined(s10, heldMB, heldMB) /\ Disciplined(s11, heldMB, heldCMB)
  BY Exits, SharedStages, Zenon
<1>3. /\ Disciplined(s12, heldCMB, heldCMB)
      /\ Disciplined(s13, heldCMB, heldCMB)
      /\ Disciplined(s14, heldCMB, heldSCMB)
      /\ Disciplined(s15, heldSCMB, heldSCMB)
      /\ Disciplined(s16, heldSCMB, {})
  BY Exits, SharedStages, Zenon
<1>4. MetalTestStages = <<s1, s2, s3, s4, s5, s6>> \o ProbeStages \o tail
  BY DEF MetalTestStages
<1> HIDE DEF s1, s2, s3, s4, s5, s6, s7, s8, s9, s10,
              s11, s12, s13, s14, s15, s16
<1>5. Leads(<<s1, s2, s3>>, {}, heldB) /\ Leads(<<s4, s5, s6>>, heldB, heldB)
  BY <1>1, HeldSets, ThreeStagesLead
<1>6. Leads(<<s1, s2, s3, s4, s5, s6>>, {}, heldB)
  BY <1>5, SixStagesLead
<1>7. /\ Leads(<<s7, ClearLogs>>, heldB, heldB)
      /\ Leads(<<s8, s9>>, heldB, heldMB)
      /\ Leads(<<s10, s11, s12>>, heldMB, heldCMB)
  BY <1>2, <1>3, ClearIsDisciplined, HeldSets, TwoStagesLead, ThreeStagesLead
<1>8. /\ Leads(<<s13, s14>>, heldCMB, heldSCMB)
      /\ Leads(<<s15, s16>>, heldSCMB, {})
  BY <1>3, HeldSets, TwoStagesLead
<1>9. tail = <<s7, ClearLogs>> \o <<s8, s9>> \o <<s10, s11, s12>>
             \o <<s13, s14>> \o <<s15, s16>>
  OBVIOUS
<1>10. Leads(tail, heldB, {})
  BY <1>7, <1>8, <1>9, LeadsOn
<1> QED
  BY <1>4, <1>6, <1>10, ProbeLeads, LeadsOn

(* The Vulkan test, which decodes twice.                                   *)
LEMMA VulkanTestLeads == Leads(VulkanTestStages, {}, {})
<1> DEFINE s1 == Check("environment", 1, <<>>)
           s2 == TakeUnchecked("backend")
           s3 == Check("registry", 1, B)
           s4 == Check("device_count", 1, B)
           s5 == Check("device_handle", 1, B)
           s6 == Check("offload_support", 1, B)
           s7 == Check("offload", 1, B)
           s8 == Check("same_token", 1, B)
           s9 == GiveBack(B)
<1>1. /\ Disciplined(s1, {}, {})
      /\ Disciplined(s2, {}, heldB)
      /\ Disciplined(s3, heldB, heldB)
      /\ Disciplined(s4, heldB, heldB)
      /\ Disciplined(s5, heldB, heldB)
      /\ Disciplined(s6, heldB, heldB)
  BY Exits, SharedStages, Zenon
<1>2. /\ Disciplined(s7, heldB, heldB)
      /\ Disciplined(s8, heldB, heldB)
      /\ Disciplined(s9, heldB, {})
  BY Exits, SharedStages, Zenon
<1>3. VulkanTestStages = <<s1, s2, s3, s4, s5>> \o ProbeStages \o <<s6>>
                         \o <<ClearLogs>> \o DecodeOnce
                         \o <<ClearLogs>> \o DecodeOnce \o <<s7, s8, s9>>
  BY DEF VulkanTestStages
<1> HIDE DEF s1, s2, s3, s4, s5, s6, s7, s8, s9
<1>4. Leads(<<s1, s2, s3>>, {}, heldB) /\ Leads(<<s4, s5>>, heldB, heldB)
  BY <1>1, HeldSets, ThreeStagesLead, TwoStagesLead
<1>5. Leads(<<s1, s2, s3, s4, s5>>, {}, heldB)
  <2>1. <<s1, s2, s3, s4, s5>> = <<s1, s2, s3>> \o <<s4, s5>>
    OBVIOUS
  <2> QED
    BY <1>4, <2>1, LeadsOn
<1>6. Leads(<<s6>>, heldB, heldB)
  BY <1>1, HeldSets, StageLeads
<1>7. Leads(<<s7, s8, s9>>, heldB, {})
  BY <1>2, HeldSets, ThreeStagesLead
<1>8. Leads(<<s1, s2, s3, s4, s5>> \o ProbeStages \o <<s6>>, {}, heldB)
  BY <1>5, <1>6, ProbeLeads, LeadsOn
<1>9. Leads(<<ClearLogs>>, heldB, heldB)
  BY ClearIsDisciplined, HeldSets, StageLeads
<1> QED
  BY <1>3, <1>7, <1>8, <1>9, DecodeOnceLeads, LeadsOn

(* The chat examples; what depends on the device holds nothing new.        *)
LEMMA ChatLeads ==
    ASSUME NEW device \in {"cpu", "metal", "vulkan"}
    PROVE  Leads(ChatStages(device), {}, heldSCMB)
<1> DEFINE registry == IF device = "cpu" THEN <<>> ELSE <<Check("registry", 3, B)>>
           middle == <<Check("measure", 5, MB), Check("tokenize", 5, MB),
                       Take("context", 6, MB)>>
           end == <<TakeUnchecked("sampler"), Check("generate", 7, SCMB)>>
<1>1. Leads(<<TakeUnchecked("backend")>>, {}, heldB)
  BY HeldSets, SharedStages, StageLeads
<1>2. Leads(registry, heldB, heldB)
  <2>1. Disciplined(Check("registry", 3, B), heldB, heldB)
    BY Exits, SharedStages, Zenon
  <2> QED
    BY <2>1, HeldSets, StageLeads, NoStageLeads
<1>3. Leads(<<Take("model", 4, B)>>, heldB, heldMB)
  <2>1. Disciplined(Take("model", 4, B), heldB, heldMB)
    BY Exits, SharedStages, Zenon
  <2> QED
    BY <2>1, HeldSets, StageLeads
<1>4. Leads(OffloadChecked(device), heldMB, heldMB)
  <2>1. /\ Disciplined(Check("offload", 9, MB), heldMB, heldMB)
        /\ Disciplined(Check("offload", 4, MB), heldMB, heldMB)
    BY Exits, SharedStages, Zenon
  <2> QED
    BY <2>1, HeldSets, StageLeads, NoStageLeads DEF OffloadChecked
<1>5. Leads(middle, heldMB, heldCMB)
  <2>1. /\ Disciplined(Check("measure", 5, MB), heldMB, heldMB)
        /\ Disciplined(Check("tokenize", 5, MB), heldMB, heldMB)
        /\ Disciplined(Take("context", 6, MB), heldMB, heldCMB)
    BY Exits, SharedStages, Zenon
  <2> QED
    BY <2>1, HeldSets, ThreeStagesLead
<1>6. Leads(ComputeBufferChecked(device), heldCMB, heldCMB)
  <2>1. Disciplined(Check("compute_buffer", 10, CMB), heldCMB, heldCMB)
    BY Exits, SharedStages, Zenon
  <2> QED
    BY <2>1, HeldSets, StageLeads, NoStageLeads DEF ComputeBufferChecked
<1>7. Leads(end, heldCMB, heldSCMB)
  BY HeldSets, SharedStages, TwoStagesLead
<1>8. ChatStages(device) = <<TakeUnchecked("backend")>> \o registry
                           \o <<Take("model", 4, B)>>
                           \o OffloadChecked(device) \o middle
                           \o ComputeBufferChecked(device) \o end
  BY DEF ChatStages
<1> HIDE DEF registry, middle, end
<1>9. Leads(<<TakeUnchecked("backend")>> \o registry \o <<Take("model", 4, B)>>, {}, heldMB)
  BY <1>1, <1>2, <1>3, LeadsOn
<1>10. Leads(<<TakeUnchecked("backend")>> \o registry \o <<Take("model", 4, B)>>
                           \o OffloadChecked(device) \o middle, {}, heldCMB)
  BY <1>9, <1>4, <1>5, LeadsOn
<1> QED
  BY <1>10, <1>6, <1>7, <1>8, LeadsOn

(* What a program holds after its last stage: a chat example never leaves  *)
(* its loop for a stage behind it.                                         *)
AtLast == IF program \in Chats THEN heldSCMB ELSE {}

(* Every program, between its first stage and its last.                    *)
LEMMA ProgramsAreDisciplined ==
    ASSUME program \in Programs
    PROVE  Leads(Stages, {}, AtLast)
<1>1. CASE program = "chat-cpu"
  BY <1>1, ChatLeads DEF Stages, AtLast, Chats
<1>2. CASE program = "chat-metal"
  BY <1>2, ChatLeads DEF Stages, AtLast, Chats
<1>3. CASE program = "chat-vulkan"
  BY <1>3, ChatLeads DEF Stages, AtLast, Chats
<1>4. CASE program = "cpu_decode"
  BY <1>4, CpuTestLeads DEF Stages, AtLast, Chats
<1>5. CASE program = "metal_decode"
  BY <1>5, MetalTestLeads DEF Stages, AtLast, Chats
<1>6. CASE program = "vulkan_decode"
  BY <1>6, VulkanTestLeads DEF Stages, AtLast, Chats
<1> QED
  BY <1>1, <1>2, <1>3, <1>4, <1>5, <1>6 DEF Programs, Chats, Tests

Holds == CHOOSE h : /\ HeldAlong(Stages, h)
                    /\ h[1] = {} /\ h[Len(Stages) + 1] = AtLast

(* What a program holds before each of its stages.                         *)
LEMMA HoldsAlong ==
    ASSUME program \in Programs
    PROVE  /\ \A k \in 1..Last : Disciplined(Stages[k], Holds[k], Holds[k + 1])
           /\ Holds[1] = {} /\ Holds[Last + 1] = AtLast
<1>1. HeldAlong(Stages, Holds) /\ Holds[1] = {} /\ Holds[Len(Stages) + 1] = AtLast
  <2>1. \E h : HeldAlong(Stages, h) /\ h[1] = {} /\ h[Len(Stages) + 1] = AtLast
    BY ProgramsAreDisciplined DEF Leads
  <2> QED
    BY <2>1, Zenon DEF Holds
<1> QED
  BY <1>1 DEF HeldAlong, Last

-----------------------------------------------------------------------------
(* What is to be freed can be freed in its order.  A program that has      *)
(* exited frees all it holds; one that goes on will hold what its stage    *)
(* says.                                                                   *)
ResourceInv ==
    /\ SafeToFree(freeing, live)
    /\ code # NoExit => live = SetOf(freeing)
    /\ code = NoExit => live \ SetOf(freeing) = Holds[stage]

(* An empty list frees nothing.                                            *)
LEMMA NothingToFree ==
    ASSUME NEW held PROVE SafeToFree(<<>>, held) /\ SetOf(<<>>) = {}
BY DEF SafeToFree, SetOf

(* Each call frees the next resource of the list.                          *)
LEMMA FreeOne ==
    ASSUME NEW list, NEW held, SafeToFree(list, held), list # <<>>
    PROVE  /\ SafeToFree(Tail(list), held \ {Head(list)})
           /\ SetOf(list) = SetOf(Tail(list)) \cup {Head(list)}
           /\ Head(list) \in held /\ Head(list) \notin SetOf(Tail(list))
           /\ \A r \in held : Head(list) \notin Needs(r)
<1> DEFINE n == Len(list)
           tail == Tail(list)
<1>1. /\ n \in Nat /\ n > 0 /\ Head(list) = list[1]
      /\ tail \in Seq(Resources) /\ Len(tail) = n - 1
      /\ \A i \in 1..(n - 1) : tail[i] = list[i + 1]
  BY DEF SafeToFree
<1>2. /\ \A i \in 1..n : list[i] \in held
      /\ \A i, j \in 1..n : list[i] = list[j] => i = j
      /\ \A i \in 1..n, r \in held :
            list[i] \in Needs(r) => \E j \in 1..(i - 1) : list[j] = r
  BY DEF SafeToFree
<1> HIDE DEF n, tail
<1>3. \A i \in 1..(n - 1) : tail[i] \in held \ {list[1]}
  BY <1>1, <1>2
<1>4. \A i, j \in 1..(n - 1) : tail[i] = tail[j] => i = j
  BY <1>1, <1>2
<1>5. ASSUME NEW i \in 1..(n - 1), NEW r \in held \ {list[1]}, tail[i] \in Needs(r)
      PROVE  \E j \in 1..(i - 1) : tail[j] = r
  <2>1. i + 1 \in 1..n /\ list[i + 1] \in Needs(r)
    BY <1>1, <1>5
  <2>2. \E j \in 1..((i + 1) - 1) : list[j] = r
    BY <1>2, <2>1
  <2>3. PICK j \in 1..i : list[j] = r
    BY <2>2
  <2>4. j # 1
    BY <2>3
  <2>5. j - 1 \in 1..(i - 1) /\ tail[j - 1] = r
    BY <1>1, <2>3, <2>4
  <2> QED
    BY <2>5
<1>6. SafeToFree(tail, held \ {list[1]})
  BY <1>1, <1>3, <1>4, <1>5 DEF SafeToFree
<1>7. SetOf(list) = SetOf(tail) \cup {list[1]}
  <2>1. \A i \in 1..n : list[i] \in SetOf(tail) \cup {list[1]}
    <3> TAKE i \in 1..n
    <3>1. CASE i = 1
      BY <3>1
    <3>2. CASE i # 1
      <4>1. i - 1 \in 1..(n - 1) /\ tail[i - 1] = list[i]
        BY <1>1, <3>2
      <4> QED
        BY <1>1, <4>1 DEF SetOf
    <3> QED
      BY <3>1, <3>2
  <2>2. \A i \in 1..(n - 1) : tail[i] \in SetOf(list)
    BY <1>1 DEF SetOf, n
  <2>3. list[1] \in SetOf(list)
    BY <1>1 DEF SetOf, n
  <2> QED
    BY <1>1, <2>1, <2>2, <2>3 DEF SetOf, n
<1>8. list[1] \notin SetOf(tail)
  BY <1>1, <1>3 DEF SetOf
<1>9. list[1] \in held /\ \A r \in held : list[1] \notin Needs(r)
  BY <1>1, <1>2
<1> QED
  BY <1>1, <1>6, <1>7, <1>8, <1>9 DEF tail

(* A program starts with nothing.                                          *)
LEMMA ResourceInvInit == SessionInit => ResourceInv
<1> SUFFICES ASSUME SessionInit PROVE ResourceInv
  OBVIOUS
<1>1. /\ program \in Programs /\ stage = 1 /\ live = {} /\ freeing = <<>>
      /\ code = NoExit
  BY DEF SessionInit
<1>2. Holds[1] = {}
  BY <1>1, HoldsAlong
<1> QED
  BY <1>1, <1>2, NothingToFree DEF ResourceInv

(* Stages, refusals, frees and endings keep it.                            *)
LEMMA ResourceInvNext ==
    ASSUME SessionInv, ResourceInv, [SessionNext]_sessionVars
    PROVE  ResourceInv'
<1>0. /\ program \in Programs /\ stage \in 1..(Last + 1) /\ Last \in Nat
      /\ At("generate") => program \in Chats /\ stage = Last
  BY LoopIsLast DEF SessionInv, SizesOK
<1>1. ASSUME program' = program PROVE Holds' = Holds
  BY <1>1 DEF Holds, Stages, AtLast
<1>2. ASSUME freeing = <<>>, code = NoExit PROVE live = Holds[stage]
  BY <1>2, NothingToFree DEF ResourceInv
<1>3. ASSUME stage <= Last
      PROVE  Disciplined(Stages[stage], Holds[stage], Holds[stage + 1])
  BY <1>0, <1>3, HoldsAlong
<1>4. ASSUME freeing = <<>>, code = NoExit, stage <= Last,
             Stages[stage].exit # NoExit, code' = Stages[stage].exit,
             freeing' = Stages[stage].frees, live' = live
      PROVE  ResourceInv'
  <2>1. FreesAll(Stages[stage].frees, live)
    BY <1>2, <1>3, <1>4 DEF Disciplined
  <2>2. code' # NoExit
    BY <1>4
  <2> QED
    BY <1>4, <2>1, <2>2 DEF ResourceInv, FreesAll
<1>5. CASE PassStage
  <2> DEFINE s == Stages[stage]
  <2>1. /\ freeing = <<>> /\ code = NoExit /\ stage <= Last
        /\ s.name # "give_back" /\ stage' = stage + 1 /\ program' = program
        /\ freeing' = freeing /\ code' = code
        /\ live' = live \cup {s.takes[i] : i \in DOMAIN s.takes}
    BY <1>5 DEF PassStage, Last
  <2>2. Disciplined(s, Holds[stage], Holds[stage + 1])
    BY <1>3, <2>1
  <2>3. {s.takes[i] : i \in DOMAIN s.takes} = SetOf(s.takes)
    BY <2>2 DEF Disciplined, SetOf
  <2>4. live' = Holds[stage + 1]
    BY <1>2, <2>1, <2>2, <2>3 DEF Disciplined
  <2> QED
    BY <1>1, <2>1, <2>4, NothingToFree DEF ResourceInv
<1>6. CASE RefuseStage
  BY <1>4, <1>6 DEF RefuseStage, Leave, Last
<1>7. CASE StartGivingBack
  <2> DEFINE s == Stages[stage]
  <2>1. /\ freeing = <<>> /\ code = NoExit /\ stage <= Last
        /\ s.name = "give_back" /\ stage' = stage + 1 /\ program' = program
        /\ freeing' = s.frees /\ code' = code /\ live' = live
    BY <1>7 DEF StartGivingBack, At, Last
  <2>2. /\ SafeToFree(s.frees, Holds[stage])
        /\ Holds[stage + 1] = Holds[stage] \ SetOf(s.frees)
    BY <1>3, <2>1 DEF Disciplined
  <2> QED
    BY <1>1, <1>2, <2>1, <2>2 DEF ResourceInv
<1>8. CASE Free
  <2>1. /\ freeing # <<>> /\ live' = live \ {Head(freeing)}
        /\ freeing' = Tail(freeing)
        /\ program' = program /\ stage' = stage /\ code' = code
    BY <1>8 DEF Free
  <2>2. /\ SafeToFree(freeing', live')
        /\ SetOf(freeing) = SetOf(freeing') \cup {Head(freeing)}
        /\ Head(freeing) \notin SetOf(freeing')
    BY <2>1, FreeOne DEF ResourceInv
  <2>3. CASE code # NoExit
    BY <2>1, <2>2, <2>3 DEF ResourceInv
  <2>4. CASE code = NoExit
    <3>1. live \ SetOf(freeing) = Holds[stage]
      BY <2>4 DEF ResourceInv
    <3>2. live' \ SetOf(freeing') = Holds[stage]
      BY <2>1, <2>2, <3>1
    <3> QED
      BY <1>1, <2>1, <2>2, <2>4, <3>2 DEF ResourceInv
  <2> QED
    BY <2>3, <2>4
<1>9. CASE ReturnZero
  <2>1. /\ freeing = <<>> /\ code = NoExit /\ stage > Last /\ code' = 0
        /\ live' = live /\ freeing' = freeing
    BY <1>9 DEF ReturnZero, Last
  <2>2. program \notin Chats
    BY <1>0, <2>1 DEF SessionInv, LoopIsSound
  <2>3. live = {}
    <3>1. stage = Last + 1
      BY <1>0, <2>1
    <3> QED
      BY <1>0, <1>2, <2>1, <2>2, <3>1, HoldsAlong DEF AtLast
  <2> QED
    BY <2>1, <2>3, NothingToFree DEF ResourceInv, NoExit
<1>10. CASE Decode
  <2>1. At("generate") /\ live' = live /\ program' = program /\ stage' = stage
    BY <1>10 DEF Decode
  <2>2. CASE UNCHANGED <<freeing, code>>
    BY <1>1, <2>1, <2>2 DEF ResourceInv
  <2>3. CASE Leave(Stages[stage].exit, Stages[stage].frees)
    BY <1>0, <1>4, <2>1, <2>3, ChatStagesInOrder DEF At, Leave, Last
  <2> QED
    BY <1>10, <2>2, <2>3 DEF Decode
<1>11. CASE Sample
  <2>1. /\ At("generate") /\ live' = live /\ program' = program /\ stage' = stage
        /\ freeing = <<>> /\ code = NoExit /\ stage <= Last
        /\ Stages[stage].name = "generate"
    BY <1>11 DEF Sample, At, Last
  <2>2. FreesAll(SCMB, live)
    BY <1>0, <1>2, <1>3, <2>1, ChatStagesInOrder DEF Disciplined
  <2>3. CASE UNCHANGED <<freeing, code>>
    BY <1>1, <2>1, <2>3 DEF ResourceInv
  <2>4. CASE code' \in {0, 8} /\ freeing' = SCMB
    BY <2>1, <2>2, <2>4 DEF ResourceInv, FreesAll, NoExit
  <2> QED
    BY <1>11, <2>3, <2>4 DEF Sample, Leave
<1>12. CASE UNCHANGED sessionVars
  BY <1>1, <1>12 DEF sessionVars, ResourceInv
<1> QED
  BY <1>5, <1>6, <1>7, <1>8, <1>9, <1>10, <1>11, <1>12 DEF SessionNext

(* It is what the two properties ask.                                      *)
LEMMA SafeListsFreeSafely == ResourceInv => FreesAreSafe
BY FreeOne DEF ResourceInv, FreesAreSafe

(* What is left at an exit, and what an acquisition finds.                 *)
LEMMA ExitsLeaveNothing == SessionInv /\ ResourceInv => NothingLeaks
<1> SUFFICES ASSUME SessionInv, ResourceInv PROVE NothingLeaks
  OBVIOUS
<1>1. ASSUME code # NoExit, freeing = <<>> PROVE live = {}
  BY <1>1, NothingToFree DEF ResourceInv
<1>2. ASSUME code = NoExit, freeing = <<>>, stage <= Len(Stages),
             NEW i \in DOMAIN Stages[stage].takes
      PROVE  Stages[stage].takes[i] \notin live
  <2>1. live = Holds[stage]
    BY <1>2, NothingToFree DEF ResourceInv
  <2>2. Disciplined(Stages[stage], Holds[stage], Holds[stage + 1])
    BY <1>2, HoldsAlong, LoopIsLast DEF SessionInv, SizesOK, Last
  <2> QED
    BY <2>1, <2>2 DEF Disciplined, SetOf
<1> QED
  BY <1>1, <1>2 DEF NothingLeaks

-----------------------------------------------------------------------------
(* The device.                                                             *)

(* The last model load of a program that asks for a device, and the check  *)
(* of it.                                                                  *)
LoadAt == CASE program = "metal_decode" -> 15
            [] program = "vulkan_decode" -> 21
            [] OTHER -> 3
OffloadAt == CASE program = "metal_decode" -> 16
               [] program = "vulkan_decode" -> 27
               [] OTHER -> 4

(* The log is emptied just before that load, but by the chat examples,     *)
(* which load once.                                                        *)
LEMMA OffloadIsCheckedLast ==
    ASSUME program \in OnDevice
    PROVE  /\ OffloadAt \in 1..Last /\ Stages[OffloadAt].name = "offload"
           /\ LoadAt \in 2..(OffloadAt - 1)
           /\ \A i \in 1..Last : i > LoadAt => Stages[i].name # "model"
           /\ program \in Chats =>
                 OffloadAt < Last /\ \A i \in 1..(LoadAt - 1) : Stages[i].name # "model"
           /\ program \notin Chats => Stages[LoadAt - 1].name = "clear_logs"
<1> USE DEF ChatStages, OffloadChecked, ComputeBufferChecked, ProbeStages,
            DecodeOnce, Stage, Take, Check, TakeUnchecked, GiveBack, ClearLogs,
            OffloadAt, LoadAt, Stages, Last, Chats
<1>1. CASE program = "chat-metal"
  <2>1. Len(Stages) = 10
    BY <1>1
  <2> QED
    BY <1>1, <2>1
<1>2. CASE program = "chat-vulkan"
  <2>1. Len(Stages) = 9
    BY <1>2
  <2> QED
    BY <1>2, <2>1
<1>3. CASE program = "metal_decode"
  <2>1. Len(MetalTestStages) = 23
    BY DEF MetalTestStages
  <2>2. /\ MetalTestStages[16].name = "offload"
        /\ MetalTestStages[14].name = "clear_logs"
    BY <2>1 DEF MetalTestStages
  <2>3. \A i \in 1..23 : i > 15 => MetalTestStages[i].name # "model"
    BY <2>1 DEF MetalTestStages
  <2>4. /\ Stages = MetalTestStages /\ OffloadAt = 16 /\ LoadAt = 15
        /\ program \notin Chats /\ 16 \in 1..23 /\ 15 \in 2..(16 - 1) /\ 15 - 1 = 14
    BY <1>3
  <2> HIDE DEF Stages, OffloadAt, LoadAt, Chats
  <2> QED
    BY <2>1, <2>2, <2>3, <2>4, Zenon
<1>4. CASE program = "vulkan_decode"
  <2>1. Len(VulkanTestStages) = 29
    BY DEF VulkanTestStages
  <2>2. /\ VulkanTestStages[27].name = "offload"
        /\ VulkanTestStages[20].name = "clear_logs"
    BY <2>1 DEF VulkanTestStages
  <2>3. \A i \in 1..29 : i > 21 => VulkanTestStages[i].name # "model"
    BY <2>1 DEF VulkanTestStages
  <2>4. /\ Stages = VulkanTestStages /\ OffloadAt = 27 /\ LoadAt = 21
        /\ program \notin Chats /\ 27 \in 1..29 /\ 21 \in 2..(27 - 1) /\ 21 - 1 = 20
    BY <1>4
  <2> HIDE DEF Stages, OffloadAt, LoadAt, Chats
  <2> QED
    BY <2>1, <2>2, <2>3, <2>4, Zenon
<1> QED
  BY <1>1, <1>2, <1>3, <1>4 DEF OnDevice

(* Before the last load the log says nothing of a device, and after it     *)
(* only what is so; a program that has come past the check, and every one  *)
(* that succeeded, has layers on its device.                               *)
DeviceInv ==
    program \in OnDevice =>
        /\ code = NoExit /\ (stage = LoadAt \/ (program \in Chats /\ stage < LoadAt)) =>
              ~logs
        /\ code = NoExit /\ stage > LoadAt => (logs => offloaded)
        /\ code = NoExit /\ stage > OffloadAt => offloaded
        /\ code = 0 => offloaded

(* A program starts before the check, and with an empty log.               *)
LEMMA DeviceInvInit == SessionInit => DeviceInv
<1> SUFFICES ASSUME SessionInit, program \in OnDevice PROVE DeviceInv
  BY DEF DeviceInv
<1>1. /\ stage = 1 /\ code = NoExit /\ ~logs
      /\ ~(stage > OffloadAt) /\ ~(stage > LoadAt)
  BY DEF SessionInit, OffloadAt, LoadAt
<1> QED
  BY <1>1 DEF DeviceInv, NoExit

(* Only a stage that passed the check goes beyond it.                      *)
LEMMA DeviceInvNext ==
    ASSUME SessionInv, DeviceInv, [SessionNext]_sessionVars
    PROVE  DeviceInv'
<1>0. program' = program
  BY DEF SessionNext, PassStage, RefuseStage, StartGivingBack, Free, ReturnZero,
         Decode, Sample, sessionVars
<1> SUFFICES ASSUME program \in OnDevice PROVE DeviceInv'
  BY <1>0 DEF DeviceInv
<1>1. /\ program \in Programs /\ stage \in 1..(Last + 1) /\ Last \in Nat
      /\ At("generate") => program \in Chats /\ stage = Last
  BY LoopIsLast DEF SessionInv, SizesOK
<1>2. /\ OffloadAt \in 1..Last /\ Stages[OffloadAt].name = "offload"
      /\ LoadAt \in 2..(OffloadAt - 1)
      /\ \A i \in 1..Last : i > LoadAt => Stages[i].name # "model"
      /\ program \in Chats =>
            OffloadAt < Last /\ \A i \in 1..(LoadAt - 1) : Stages[i].name # "model"
      /\ program \notin Chats => Stages[LoadAt - 1].name = "clear_logs"
  BY OffloadIsCheckedLast
<1>3. OffloadAt' = OffloadAt /\ LoadAt' = LoadAt
  BY <1>0 DEF OffloadAt, LoadAt
<1>4. ASSUME stage' = stage, deviceVars' = deviceVars,
             code' = code \/ code' \notin {0, NoExit}
      PROVE  DeviceInv'
  BY <1>0, <1>3, <1>4 DEF DeviceInv, deviceVars
<1>5. ASSUME deviceVars' = deviceVars, code = NoExit, code' = 0,
             stage > OffloadAt
      PROVE  DeviceInv'
  BY <1>5 DEF DeviceInv, deviceVars, NoExit
<1>6. ASSUME stage \in 1..Last PROVE Stages[stage].exit # 0
  BY <1>1, <1>6, HoldsAlong DEF Disciplined
<1>7. CASE PassStage
  <2> DEFINE name == Stages[stage].name
  <2>1. /\ code = NoExit /\ stage \in 1..Last /\ stage' = stage + 1 /\ code' = code
        /\ name = "offload" => logs
        /\ name # "model" => (offloaded' <=> offloaded)
        /\ logs' <=> (name # "clear_logs" /\ (logs \/ (name = "model" /\ offloaded')))
    <3>1. /\ code = NoExit /\ stage \in 1..Last /\ stage' = stage + 1
          /\ code' = code /\ Log(name) /\ MayPass(name)
      BY <1>1, <1>7 DEF PassStage, Last
    <3> HIDE DEF name
    <3> QED
      BY <3>1, Zenon DEF Log, MayPass
  <2>2. /\ stage > LoadAt => name # "model"
        /\ stage = OffloadAt => name = "offload"
        /\ program \in Chats /\ stage < LoadAt => name # "model"
        /\ program \notin Chats /\ stage = LoadAt - 1 => name = "clear_logs"
    BY <1>2, <2>1
  <2> HIDE DEF name
  <2>3. ASSUME stage' = LoadAt \/ (program \in Chats /\ stage' < LoadAt) PROVE ~logs'
    <3>1. CASE program \in Chats
      <4>1. stage < LoadAt /\ name # "model"
        BY <1>1, <1>2, <2>1, <2>2, <2>3, <3>1
      <4>2. ~logs
        BY <2>1, <3>1, <4>1 DEF DeviceInv
      <4> QED
        BY <2>1, <4>1, <4>2
    <3>2. CASE program \notin Chats
      <4>1. name = "clear_logs"
        BY <1>1, <1>2, <2>1, <2>2, <2>3, <3>2
      <4> QED
        BY <2>1, <4>1
    <3> QED
      BY <3>1, <3>2
  <2>4. ASSUME stage' > LoadAt, logs' PROVE offloaded'
    <3>1. CASE stage = LoadAt
      BY <2>1, <2>4, <3>1 DEF DeviceInv
    <3>2. CASE stage > LoadAt
      BY <2>1, <2>2, <2>4, <3>2 DEF DeviceInv
    <3> QED
      BY <1>1, <1>2, <2>1, <2>4, <3>1, <3>2
  <2>5. ASSUME stage' > OffloadAt PROVE offloaded'
    <3>1. CASE stage = OffloadAt
      <4>1. stage > LoadAt /\ name # "model" /\ logs
        BY <1>2, <2>1, <2>2, <3>1
      <4> QED
        BY <2>1, <4>1 DEF DeviceInv
    <3>2. CASE stage > OffloadAt
      <4>1. stage > LoadAt
        BY <1>1, <1>2, <3>2
      <4> QED
        BY <2>1, <2>2, <3>2, <4>1 DEF DeviceInv
    <3> QED
      BY <1>1, <1>2, <2>1, <2>5, <3>1, <3>2
  <2> QED
    BY <1>0, <1>3, <2>1, <2>3, <2>4, <2>5 DEF DeviceInv, NoExit
<1>8. CASE RefuseStage
  <2>1. /\ stage' = stage /\ deviceVars' = deviceVars /\ stage <= Last
        /\ code' = Stages[stage].exit /\ Stages[stage].exit # NoExit
    BY <1>8 DEF RefuseStage, Leave, Last
  <2> QED
    BY <1>1, <1>4, <1>6, <2>1
<1>9. CASE StartGivingBack
  <2>1. /\ stage' = stage + 1 /\ offloaded' = offloaded /\ logs' = logs
        /\ code = NoExit /\ code' = code /\ stage \in 1..Last
        /\ Stages[stage].name = "give_back"
    BY <1>1, <1>9 DEF StartGivingBack, At, Last, deviceVars
  <2>2. stage # OffloadAt /\ (program \notin Chats => stage # LoadAt - 1)
    BY <1>2, <2>1
  <2>3. /\ stage' > OffloadAt => stage > OffloadAt
        /\ stage' = LoadAt => program \in Chats /\ stage < LoadAt
        /\ stage' < LoadAt => stage < LoadAt
        /\ stage' > LoadAt => stage >= LoadAt
    BY <1>1, <1>2, <2>1, <2>2
  <2>4. stage' > LoadAt /\ logs => offloaded
    BY <1>1, <1>2, <2>1, <2>3 DEF DeviceInv
  <2> QED
    BY <1>0, <1>3, <2>1, <2>3, <2>4 DEF DeviceInv, NoExit
<1>10. CASE Free
  BY <1>4, <1>10 DEF Free
<1>11. CASE ReturnZero
  <2>1. /\ stage > Last /\ code = NoExit /\ code' = 0 /\ deviceVars' = deviceVars
    BY <1>11 DEF ReturnZero, Last
  <2>2. stage > OffloadAt
    BY <1>1, <1>2, <2>1
  <2> QED
    BY <1>5, <2>1, <2>2
<1>12. CASE Decode
  <2>1. /\ At("generate") /\ stage' = stage /\ deviceVars' = deviceVars
        /\ code' = code \/ code' = Stages[stage].exit
    BY <1>12 DEF Decode, Leave
  <2>2. stage \in 1..Last /\ Stages[stage].exit # NoExit
    BY <1>1, <1>2, <2>1, ChatStagesInOrder
  <2> QED
    BY <1>4, <1>6, <2>1, <2>2
<1>13. CASE Sample
  <2>1. /\ At("generate") /\ stage' = stage /\ deviceVars' = deviceVars
        /\ code' = code \/ code' \in {0, 8}
    BY <1>13 DEF Sample, Leave
  <2>2. stage > OffloadAt /\ code = NoExit
    BY <1>1, <1>2, <2>1 DEF At
  <2> QED
    BY <1>4, <1>5, <2>1, <2>2 DEF NoExit
<1>14. CASE UNCHANGED sessionVars
  BY <1>4, <1>14 DEF sessionVars, deviceVars
<1> QED
  BY <1>7, <1>8, <1>9, <1>10, <1>11, <1>12, <1>13, <1>14 DEF SessionNext

(* Success on a device is the last part of the invariant.                  *)
LEMMA ClaimsAreChecked == DeviceInv => DeviceIsNotClaimed
BY DEF DeviceInv, DeviceIsNotClaimed

-----------------------------------------------------------------------------
(* A temporary file exists only while its invocation has one, and the one  *)
(* about to be renamed over the output was verified.                       *)
TemporariesHeld ==
    \A f \in Fetchers :
        /\ pc[f] = "replace" => temps[f] = Pinned
        /\ pc[f] \in {"idle", "digest", "create", "sleep", "done"} =>
              temps[f] = None
        /\ pc[f] = "failed" /\ ~littered[f] => temps[f] = None
        /\ pc[f] = "killed" => littered[f]

(* An invocation sleeps only before an attempt that it has left.           *)
AttemptsLeft == \A f \in Fetchers : pc[f] = "sleep" => attempt[f] < Attempts

FetchInv == /\ FetchTypeOK
            /\ TemporariesHeld
            /\ AttemptsLeft
            /\ SuccessMeansPinned

-----------------------------------------------------------------------------
(* The invariant holds at the start (FetchInit).                           *)
LEMMA FetchInvInit == FetchInit => FetchInv
BY ContentsAssumption, AttemptsAssumption
   DEF FetchInit, FetchInv, FetchTypeOK, TemporariesHeld, AttemptsLeft,
       SuccessMeansPinned, Running, Ended, Trying

USE DEF Temporary, Goto, Write, Handle, LastAttempt

(* Each kind of step of an invocation keeps it.                            *)
LEMMA ProceedKeepsFetchInv ==
    ASSUME FetchInv, NEW f \in Fetchers, Proceed(f)
    PROVE  FetchInv'
<1> USE ContentsAssumption, AttemptsAssumption
<1> USE DEF FetchInv, FetchTypeOK, TemporariesHeld, AttemptsLeft,
            SuccessMeansPinned, Running, Ended, Trying
<1>1. CASE ReadSize(f)
  <2>1. FetchTypeOK'
    BY <1>1 DEF ReadSize, HasSize
  <2>2. TemporariesHeld'
    BY <1>1 DEF ReadSize, HasSize
  <2>3. AttemptsLeft'
    BY <1>1 DEF ReadSize, HasSize
  <2>4. SuccessMeansPinned'
    BY <1>1 DEF ReadSize, HasSize
  <2> QED
    BY <2>1, <2>2, <2>3, <2>4
<1>2. CASE ReadDigest(f)
  BY <1>2 DEF ReadDigest
<1>3. CASE CreateTemporary(f)
  BY <1>3 DEF CreateTemporary
<1>4. CASE EnterTry(f)
  BY <1>4 DEF EnterTry
<1>5. CASE Download(f)
  BY <1>5 DEF Download
<1>6. CASE Verify(f)
  <2>1. FetchTypeOK'
    BY <1>6 DEF Verify
  <2>2. TemporariesHeld'
    BY <1>6 DEF Verify
  <2>3. AttemptsLeft'
    BY <1>6 DEF Verify
  <2>4. SuccessMeansPinned'
    BY <1>6 DEF Verify
  <2> QED
    BY <2>1, <2>2, <2>3, <2>4
<1>7. CASE Replace(f)
  <2>1. FetchTypeOK'
    <3>1. output' \in Contents \cup {None}
      BY <1>7 DEF Replace
    <3>2. temps' \in [Fetchers -> Contents \cup {Partial, None}]
      BY <1>7 DEF Replace
    <3>3. pc' \in [Fetchers -> Running \cup Ended \cup {"idle"}]
      BY <1>7 DEF Replace
    <3>4. retryable' \in [Fetchers -> BOOLEAN]
      BY <1>7 DEF Replace
    <3>5. UNCHANGED <<attempt, sized, littered>>
      BY <1>7 DEF Replace
    <3> QED
      BY <3>1, <3>2, <3>3, <3>4, <3>5
  <2>2. TemporariesHeld'
    BY <1>7 DEF Replace
  <2>3. AttemptsLeft'
    BY <1>7 DEF Replace
  <2>4. SuccessMeansPinned'
    BY <1>7 DEF Replace
  <2> QED
    BY <2>1, <2>2, <2>3, <2>4
<1>8. CASE CleanUp(f)
  <2>1. FetchTypeOK'
    BY <1>8 DEF CleanUp
  <2>2. TemporariesHeld'
    BY <1>8 DEF CleanUp
  <2>3. AttemptsLeft'
    BY <1>8 DEF CleanUp
  <2>4. SuccessMeansPinned'
    BY <1>8 DEF CleanUp
  <2> QED
    BY <2>1, <2>2, <2>3, <2>4
<1>9. CASE Retry(f)
  BY <1>9 DEF Retry
<1> QED
  BY <1>1, <1>2, <1>3, <1>4, <1>5, <1>6, <1>7, <1>8, <1>9 DEF Proceed

(* So do an interruption and a kill.                                       *)
LEMMA StopKeepsFetchInv ==
    ASSUME FetchInv, NEW f \in Fetchers, Interrupt(f) \/ Kill(f)
    PROVE  FetchInv'
<1> USE DEF FetchInv, FetchTypeOK, TemporariesHeld, AttemptsLeft,
            SuccessMeansPinned, Running, Ended, Trying
<1>1. CASE Interrupt(f)
  <2>1. FetchTypeOK'
    <3>1. (pc[f] \in {"created", "clean"}) \in BOOLEAN
      OBVIOUS
    <3>2. retryable' \in [Fetchers -> BOOLEAN]
      BY <1>1 DEF Interrupt
    <3>3. pc' \in [Fetchers -> Running \cup Ended \cup {"idle"}]
      BY <1>1 DEF Interrupt
    <3>4. littered' \in [Fetchers -> BOOLEAN]
      BY <1>1, <3>1, Zenon DEF Interrupt
    <3> QED
      BY <1>1, <3>2, <3>3, <3>4 DEF Interrupt
  <2>2. TemporariesHeld'
    <3>1. CASE pc[f] \in Trying
      BY <1>1, <3>1 DEF Interrupt
    <3>2. CASE pc[f] \notin Trying
      <4>1. /\ pc' = [pc EXCEPT ![f] = "failed"] /\ temps' = temps
            /\ littered' = [littered EXCEPT ![f] = pc[f] \in {"created", "clean"}]
        BY <1>1, <3>2 DEF Interrupt
      <4>2. pc[f] \notin {"created", "clean"} => temps[f] = None
        BY <1>1, <3>2 DEF Interrupt
      <4>3. ~littered'[f] => pc[f] \notin {"created", "clean"}
        BY <4>1
      <4>4. \A g \in Fetchers \ {f} :
               pc'[g] = pc[g] /\ temps'[g] = temps[g] /\ (littered'[g] <=> littered[g])
        BY <4>1
      <4>5. pc'[f] = "failed" /\ temps'[f] = temps[f]
        BY <4>1
      <4> HIDE DEF FetchTypeOK, FetchInv
      <4> QED
        BY <4>2, <4>3, <4>4, <4>5 DEF FetchInv
    <3> QED
      BY <3>1, <3>2
  <2>3. AttemptsLeft'
    BY <1>1 DEF Interrupt
  <2>4. SuccessMeansPinned'
    BY <1>1 DEF Interrupt
  <2> QED
    BY <2>1, <2>2, <2>3, <2>4
<1>2. CASE Kill(f)
  BY <1>2 DEF Kill
<1> QED
  BY <1>1, <1>2

JobInv == FetchInv /\ LoadsArePinned

(* Every step of the job keeps it: a program maps the output only after    *)
(* its fetch succeeded.                                                    *)
LEMMA JobInvKept == JobInv /\ [Next]_vars => JobInv'
<1> SUFFICES ASSUME JobInv, [Next]_vars
             PROVE  JobInv'
  OBVIOUS
<1>1. CASE SessionStep
  <2>1. UNCHANGED fetchVars
    BY <1>1 DEF SessionStep
  <2>2. FetchInv'
    BY <2>1 DEF JobInv, fetchVars, FetchInv, FetchTypeOK, TemporariesHeld,
                AttemptsLeft, SuccessMeansPinned
  <2>3. output = Pinned
    BY <1>1, JobAssumption DEF SessionStep, JobInv, FetchInv, SuccessMeansPinned
  <2>4. mapped' = output \/ mapped' = mapped
    BY <1>1 DEF SessionStep
  <2> QED
    BY <2>2, <2>3, <2>4 DEF JobInv, LoadsArePinned
<1>2. ASSUME NEW f \in Fetchers, FetchStep(f)
      PROVE  JobInv'
  <2>1. FetchInv'
    BY <1>2, ProceedKeepsFetchInv, StopKeepsFetchInv DEF FetchStep, JobInv
  <2> QED
    BY <1>2, <2>1 DEF FetchStep, JobInv, LoadsArePinned
<1>3. CASE UNCHANGED vars
  BY <1>3 DEF vars, fetchVars, JobInv, FetchInv, FetchTypeOK, TemporariesHeld,
              AttemptsLeft, SuccessMeansPinned, LoadsArePinned
<1> QED
  BY <1>1, <1>2, <1>3 DEF Next

(* The invariant of the job holds in every behaviour (Spec).               *)
LEMMA JobInvAlways == Spec => []JobInv
<1>1. Init => JobInv
  BY FetchInvInit DEF Init, JobInv, LoadsArePinned
<1> QED
  BY <1>1, JobInvKept, PTL DEF Spec

-----------------------------------------------------------------------------
(* Success means the pinned model, for any number of concurrent            *)
(* invocations on one path (fetch).                                        *)
THEOREM SuccessIsPinned == Spec => []SuccessMeansPinned
<1>1. JobInv => SuccessMeansPinned
  BY DEF JobInv, FetchInv
<1> QED
  BY <1>1, JobInvAlways, PTL

(* Only a verified temporary takes the place of the output (fetch).        *)
THEOREM OutputIsReplacedWhole == Spec => OutputReplacedWhole
<1>1. JobInv /\ [Next]_vars => [output' = Pinned]_output
  <2> SUFFICES ASSUME JobInv, [Next]_vars, output' # output
               PROVE  output' = Pinned
    OBVIOUS
  <2>1. PICK f \in Fetchers : FetchStep(f)
    BY DEF Next, SessionStep, vars, fetchVars
  <2>2. Replace(f)
    BY <2>1 DEF FetchStep, Proceed, Interrupt, Kill, ReadSize, ReadDigest,
                CreateTemporary, EnterTry, Download, Verify, CleanUp, Retry
  <2>3. pc[f] = "replace" /\ output' = temps[f]
    BY <2>2 DEF Replace
  <2> QED
    BY <2>3 DEF JobInv, FetchInv, TemporariesHeld
<1> QED
  BY <1>1, JobInvAlways, PTL DEF Spec, OutputReplacedWhole

(* Nothing but the named endings leaves a temporary file (fetch).          *)
THEOREM TemporariesAreRemoved == Spec => []NoTemporaryLeft
<1>1. JobInv => NoTemporaryLeft
  BY DEF JobInv, FetchInv, TemporariesHeld, NoTemporaryLeft, Ended
<1> QED
  BY <1>1, JobInvAlways, PTL

(* The programs of a job read the pinned content only (ci.yml).            *)
THEOREM JobLoadsPinned == Spec => []LoadsArePinned
<1>1. JobInv => LoadsArePinned
  BY DEF JobInv
<1> QED
  BY <1>1, JobInvAlways, PTL

-----------------------------------------------------------------------------
(* The sizes of a session are kept by the steps of the session and of the  *)
(* fetches next to it (Next).                                              *)
LEMMA SessionInvKept == SessionInv /\ [Next]_vars => SessionInv'
<1> SUFFICES ASSUME SessionInv, [Next]_vars
             PROVE  SessionInv'
  OBVIOUS
<1>1. [SessionNext]_sessionVars
  BY DEF Next, SessionStep, FetchStep, vars
<1> QED
  BY <1>1, SessionInvNext

(* They are right in every behaviour (Spec).                               *)
LEMMA SessionInvAlways == Spec => []SessionInv
<1>1. Init => SessionInv
  BY SessionInvInit DEF Init
<1> QED
  BY <1>1, SessionInvKept, PTL DEF Spec

(* Every decode fits into the context and the batch that were sized before *)
(* the loop, whatever the prompt and the number of tokens to generate      *)
(* (main of the chat examples).                                            *)
THEOREM DecodesAlwaysFit == Spec => []DecodesFit
BY SessionInvAlways, SoundLoopsFit, PTL

(* So are the resources of a session and its device (Next).                *)
ResourcesAndDevice == SessionInv /\ ResourceInv /\ DeviceInv

(* They hold in every behaviour (Spec).                                    *)
LEMMA ResourcesAndDeviceAlways == Spec => []ResourcesAndDevice
<1>1. Init => ResourcesAndDevice
  BY SessionInvInit, ResourceInvInit, DeviceInvInit DEF Init, ResourcesAndDevice
<1>2. ASSUME ResourcesAndDevice, [Next]_vars
      PROVE  ResourcesAndDevice'
  <2>1. [SessionNext]_sessionVars
    BY <1>2 DEF Next, SessionStep, FetchStep, vars
  <2>2. SessionInv /\ ResourceInv /\ DeviceInv
    BY <1>2 DEF ResourcesAndDevice
  <2> QED
    BY <2>1, <2>2, SessionInvNext, ResourceInvNext, DeviceInvNext
       DEF ResourcesAndDevice
<1> QED
  BY <1>1, <1>2, PTL DEF Spec

(* No exit path of the programs frees a resource twice, one it never had,  *)
(* or one that another still runs on (main of the examples and the tests). *)
THEOREM FreesAreAlwaysSafe == Spec => []FreesAreSafe
<1>1. ResourcesAndDevice => FreesAreSafe
  BY SafeListsFreeSafely DEF ResourcesAndDevice
<1> QED
  BY <1>1, ResourcesAndDeviceAlways, PTL

(* Whatever stops a program, it has freed all it acquired, and it never    *)
(* acquires over what it holds (main of the examples and the tests).       *)
THEOREM NothingEverLeaks == Spec => []NothingLeaks
<1>1. ResourcesAndDevice => NothingLeaks
  BY ExitsLeaveNothing DEF ResourcesAndDevice
<1> QED
  BY <1>1, ResourcesAndDeviceAlways, PTL

(* A program that asks for a device and succeeds ran its last model on it  *)
(* (the offload checks of chat-metal, chat-vulkan, metal_decode and        *)
(* vulkan_decode).                                                         *)
THEOREM DeviceIsNeverClaimed == Spec => []DeviceIsNotClaimed
<1>1. ResourcesAndDevice => DeviceIsNotClaimed
  BY ClaimsAreChecked DEF ResourcesAndDevice
<1> QED
  BY <1>1, ResourcesAndDeviceAlways, PTL

(* The state of the fetches and of the session keeps its type.             *)
THEOREM TypeCorrect == Spec => []TypeOK
<1>1. JobInv /\ SessionInv => TypeOK
  <2> SUFFICES ASSUME JobInv, SessionInv
               PROVE  TypeOK
    OBVIOUS
  <2>1. FetchTypeOK
    BY DEF JobInv, FetchInv
  <2>2. mapped \in Contents \cup {None}
    BY ContentsAssumption DEF JobInv, LoadsArePinned
  <2>3. stage \in 1..(Len(Stages) + 1) /\ generated \in 0..MaxGenerated
    BY DEF SessionInv, SizesOK, Last
  <2> QED
    BY <2>1, <2>2, <2>3 DEF TypeOK
<1> QED
  BY <1>1, JobInvAlways, SessionInvAlways, PTL
=============================================================================

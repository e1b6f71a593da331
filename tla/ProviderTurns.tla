--------------------------- MODULE ProviderTurns ---------------------------
(***************************************************************************)
(* A conversation with one model provider, from the bytes to the next      *)
(* request: the streaming HTTP call and its retries (provider-http.ts),    *)
(* the four protocol adapters (native-provider-executor.ts), the chunks    *)
(* they become (local-model-transport.ts) and the live chat these build    *)
(* (local-chat-runtime.ts), the durable assistant step and tool results of *)
(* the session (durable-session-message.ts, durable-tool-terminal.ts), and *)
(* the compilation of that history into the next request                   *)
(* (native-message-compiler.ts and the adapters again).                    *)
(*                                                                         *)
(* What the provider writes is a sequence of blocks of text, thought or    *)
(* tool call; a block is its index in `sent`.  The chunks of one block are *)
(* one delta.  The history is short enough for no compaction.              *)
(***************************************************************************)
EXTENDS Integers, Sequences, FiniteSets, SequencesExt, Selections

CONSTANTS Protocols,   \* those the provider may speak
          MaxRequests, \* the bounds: requests sent, the loop's model budget,
          MaxBlocks,   \* blocks of one answer and
          MaxSent,     \* of them all,
          MaxRetries,  \* maxRetries of fetchProvider,
          MaxFaults,   \* failures of the network and of tool results, ends of the process
          AdjacentSigned \* may a signed block follow one of its own kind?

AllProtocols == {"openai-responses", "anthropic-messages", "openai-chat-completions",
                 "deepseek", "google-generative-ai"}

ASSUME ProtocolsAssumption == Protocols \subseteq AllProtocols
ASSUME LimitsAssumption ==
    /\ {MaxRequests, MaxBlocks, MaxSent, MaxRetries, MaxFaults} \subseteq Nat
    /\ AdjacentSigned \in BOOLEAN

VARIABLES
    protocol, \* of the model, one of Protocols
    log,      \* the session's entries on the active branch
    liveChat, \* the messages of LocalChatRuntime
    run,      \* the agent loop: idle, ready (to ask the model), model, tools
    halted,   \* interruptRequested, or the tool batch has failed
    tools,    \* tool calls under way
    net,      \* the request on the wire: phase, attempt, its AbortSignal, and
              \* late: is the idle timer of the stream about to fire?
    wire,     \* the adapter: calls begun and not given out, thinking block, terminal
    sent,     \* the blocks of every answer that ended, and of the one under way
    requests, \* the message list of every request
    faults

providerVars ==
    <<protocol, log, liveChat, run, halted, tools, net, wire, sent, requests, faults>>

Nothing == 0
NoWire  == [calls |-> <<>>, block |-> Nothing, terminal |-> FALSE]
NetOff  == [phase |-> "off", attempt |-> 0, aborted |-> FALSE, late |-> FALSE]

Signs(p)  == p \in {"anthropic-messages", "google-generative-ai"}
IsChat(p) == p \in {"openai-chat-completions", "deepseek"}

Step      == Len(requests)   \* of the answer that is being written
Answer(s) == {b \in 1..Len(sent) : sent[b].step = s}
CallsOf(s) == {b \in Answer(s) : sent[b].kind = "call"}

ProviderInit ==
    /\ protocol \in Protocols
    /\ log = <<>> /\ liveChat = <<>> /\ sent = <<>> /\ requests = <<>>
    /\ run = "idle" /\ halted = FALSE /\ tools = {}
    /\ net = NetOff /\ wire = NoWire
    /\ faults = 0

-----------------------------------------------------------------------------
(* The session: its entries, and the messages they project to.             *)

\* id: which user input, whose step, or which tool call.
LogEntry(type, id, parts) == [type |-> type, id |-> id, parts |-> parts]
Said(l) == At(l, {k \in 1..Len(l) : l[k].type \in {"user", "assistant"}})
HasEntry(l, type, id) == \E i \in 1..Len(l) : l[i].type = type /\ l[i].id = id

Part(type, body, sig, state) == [type |-> type, body |-> body, sig |-> sig, state |-> state]
Message(role, id, parts)     == [role |-> role, id |-> id, parts |-> parts]

\* The terminal presentation of the calls that have a result.
Joined(l, parts) ==
    [i \in 1..Len(parts) |->
        IF parts[i].type = "call" /\ HasEntry(l, "tool_result", parts[i].body[1])
        THEN [parts[i] EXCEPT !.state = "output"] ELSE parts[i]]

projectDurableSessionMessages(l) ==
    LET said == Said(l)
    IN  [i \in 1..Len(said) |-> Message(said[i].type, said[i].id, Joined(l, said[i].parts))]

-----------------------------------------------------------------------------
(* The request: messages to the provider-neutral list and on to the blocks *)
(* of the protocol.  An item of joined text keeps the blocks it is of.     *)

Item(kind, body, sig) == [kind |-> kind, body |-> body, sig |-> sig]
OfType(parts, type)   == At(parts, {k \in 1..Len(parts) : parts[k].type = type})
Items(parts, type)    == LET of == OfType(parts, type)
                         IN  [i \in 1..Len(of) |-> Item(type, of[i].body, of[i].sig)]
Merged(parts, type) ==
    LET of   == OfType(parts, type)
        body == FlattenSeq([i \in 1..Len(of) |-> of[i].body])
    IN  IF body = <<>> THEN <<>> ELSE <<Item(type, body, Nothing)>>

\* A call is sent with its message, every result that is known right after it.
Results(parts) ==
    LET of == At(parts, {k \in 1..Len(parts) :
                           parts[k].type = "call" /\ parts[k].state = "output"})
    IN  [i \in 1..Len(of) |-> Item("result", of[i].body, Nothing)]

openAIResponseInput(parts) == Merged(parts, "text") \o Items(parts, "call")

openAIChatMessages(parts, includeAssistantReasoning) ==
    Merged(parts, "text")
    \o (IF includeAssistantReasoning THEN Merged(parts, "thought") ELSE <<>>)
    \o Items(parts, "call")

\* The blocks in their order, thoughts only when signed.
anthropicMessages(parts) ==
    LET kept == At(parts, {k \in 1..Len(parts) :
                             parts[k].type = "thought" => parts[k].sig # Nothing})
    IN  [i \in 1..Len(kept) |-> Item(kept[i].type, kept[i].body, kept[i].sig)]

\* Every part may carry a signature here, and only thoughts must.
googleContents(parts) == anthropicMessages(parts)

Content(parts) ==
    CASE protocol = "openai-responses"     -> openAIResponseInput(parts)
      [] protocol = "anthropic-messages"   -> anthropicMessages(parts)
      [] protocol = "google-generative-ai" -> googleContents(parts)
      [] IsChat(protocol)                  -> openAIChatMessages(parts, protocol = "deepseek")

compileNativeModelMessages(messages) ==
    FlattenSeq([i \in 1..Len(messages) |->
        IF messages[i].role = "user" THEN <<Item("user", <<messages[i].id>>, Nothing)>>
        ELSE Content(messages[i].parts) \o Results(messages[i].parts)])

-----------------------------------------------------------------------------
(* The chunks of the stream, reduced into the last message of the chat.    *)

Delta(parts, type, b) ==
    IF parts # <<>> /\ Last(parts).type = type /\ Last(parts).state = "streaming"
    THEN [parts EXCEPT ![Len(parts)].body = Append(@, b)]
    ELSE Append(parts, Part(type, <<b>>, Nothing, "streaming"))

\* part-metadata: the last part of that type takes the signature.
Annotate(parts, type, b) ==
    LET at == Max({0} \cup {k \in 1..Len(parts) : parts[k].type = type})
    IN  IF at = 0 THEN parts ELSE [parts EXCEPT ![at].sig = b]

ToolCall(parts, b, sig) == Append(parts, Part("call", <<b>>, sig, "input-available"))
ToolCalls(parts, calls) == parts \o [i \in 1..Len(calls) |->
                                        Part("call", <<calls[i]>>, Nothing, "input-available")]

Written == Last(liveChat).parts
ReduceChunk(parts) == liveChat' = [liveChat EXCEPT ![Len(liveChat)].parts = parts]

-----------------------------------------------------------------------------
(* The agent loop and the session controller, as far as the chat sees them. *)

Users == Cardinality({i \in 1..Len(log) : log[i].type = "user"})

\* Mutant of SubmitPrompt: runModelStep does not sync the chat from the tree.
SubmitUnsynced ==
    /\ run = "idle" /\ Users < MaxRequests /\ Step < MaxRequests
    /\ log' = Append(log, LogEntry("user", Users + 1, <<>>))
    /\ liveChat' = Append(liveChat, Message("user", Users + 1, <<>>))
    /\ run' = "ready" /\ halted' = FALSE
    /\ UNCHANGED <<protocol, tools, net, wire, sent, requests, faults>>

\* A prompt: its durable entry first, then the chat is what the log projects to.
SubmitPrompt ==
    /\ run = "idle" /\ Users < MaxRequests /\ Step < MaxRequests
    /\ log' = Append(log, LogEntry("user", Users + 1, <<>>))
    /\ liveChat' = projectDurableSessionMessages(log')
    /\ run' = "ready" /\ halted' = FALSE
    /\ UNCHANGED <<protocol, tools, net, wire, sent, requests, faults>>

\* LocalChatRuntime.sendMessage and the stream of the transport: the request is
\* compiled from the live chat, the stream starts with an empty message.
sendMessage ==
    /\ run = "ready" /\ net.phase = "off" /\ Step < MaxRequests
    /\ requests' = Append(requests, compileNativeModelMessages(liveChat))
    /\ liveChat' = Append(liveChat, Message("assistant", Step + 1, <<>>))
    /\ net' = [NetOff EXCEPT !.phase = "fetching"]
    /\ wire' = NoWire
    /\ run' = "model"
    /\ UNCHANGED <<protocol, log, halted, tools, sent, faults>>

\* "A model request is already active", or the model budget of the run is spent.
sendRefused ==
    /\ run = "ready" /\ (net.phase # "off" \/ Step = MaxRequests)
    /\ run' = "idle"
    /\ UNCHANGED <<protocol, log, liveChat, halted, tools, net, wire, sent, requests, faults>>

InterruptRun ==
    /\ run \in {"ready", "model", "tools"} /\ ~halted
    /\ net' = [net EXCEPT !.aborted = (run = "model" \/ @), !.late = FALSE]
    /\ run' = IF run = "tools" THEN "tools" ELSE "idle"
    /\ halted' = (run = "tools")
    /\ UNCHANGED <<protocol, log, liveChat, tools, wire, sent, requests, faults>>

\* Nobody hears of an answer that did not end again.
ForgetAnswer == sent' = IF net.phase = "off" THEN sent
                        ELSE At(sent, {b \in 1..Len(sent) : sent[b].step # Step})

\* The step fails: the error is an entry no message is projected from.
FailStep ==
    /\ run' = "idle" /\ net' = NetOff /\ wire' = NoWire
    /\ ForgetAnswer
    /\ UNCHANGED <<protocol, log, liveChat, halted, tools, requests>>

\* onFinish: the step becomes durable, and the chat is set from the log.
CompleteStep ==
    LET parts == Written
    IN  /\ log' = Append(log, LogEntry("assistant", Step,
                    [i \in 1..Len(parts) |->
                        IF parts[i].type = "call" THEN parts[i]
                        ELSE [parts[i] EXCEPT !.state = "done"]]))
        /\ liveChat' = projectDurableSessionMessages(log')
        /\ run' = IF \E i \in 1..Len(parts) : parts[i].type = "call" THEN "tools" ELSE "idle"
        /\ net' = NetOff /\ wire' = NoWire
        /\ UNCHANGED <<protocol, halted, tools, sent, requests, faults>>

Pending ==
    LET parts == Written
    IN  {parts[i].body[1] : i \in {j \in 1..Len(parts) : parts[j].type = "call"}}
Unstarted == {b \in Pending : ~HasEntry(log, "tool_call", b)}

RunTool(b) ==
    /\ run = "tools" /\ ~halted /\ b \in Unstarted
    /\ log' = Append(log, LogEntry("tool_call", b, <<>>))
    /\ tools' = tools \cup {b}
    /\ UNCHANGED <<protocol, liveChat, run, halted, net, wire, sent, requests, faults>>

\* persistThenExposeToolTerminal: the result is committed, then shown.
addToolOutput(b) ==
    ReduceChunk([i \in 1..Len(Written) |->
              IF Written[i].type = "call" /\ Written[i].body[1] = b
              THEN [Written[i] EXCEPT !.state = "output"] ELSE Written[i]])

SettleTool(b) ==
    /\ b \in tools
    /\ log' = Append(log, LogEntry("tool_result", b, <<>>))
    /\ addToolOutput(b)
    /\ tools' = tools \ {b}
    /\ UNCHANGED <<protocol, run, halted, net, wire, sent, requests, faults>>

\* The commit of the result is rejected: the batch fails, the call stays open.
LoseResult(b) ==
    /\ b \in tools /\ faults < MaxFaults
    /\ tools' = tools \ {b} /\ halted' = TRUE /\ faults' = faults + 1
    /\ UNCHANGED <<protocol, log, liveChat, run, net, wire, sent, requests>>

\* assertToolBatchBudget throws before any call has started.
RefuseBatch ==
    /\ run = "tools" /\ Unstarted = Pending /\ faults < MaxFaults
    /\ run' = "idle" /\ halted' = FALSE /\ faults' = faults + 1
    /\ UNCHANGED <<protocol, log, liveChat, tools, net, wire, sent, requests>>

EndBatch ==
    /\ run = "tools" /\ tools = {} /\ (halted \/ Unstarted = {})
    /\ run' = IF halted THEN "idle" ELSE "ready"
    /\ halted' = FALSE
    /\ UNCHANGED <<protocol, log, liveChat, tools, net, wire, sent, requests, faults>>

\* The process ends; the next one opens the session from its entries.
Crash ==
    /\ run # "idle" /\ faults < MaxFaults
    /\ faults' = faults + 1
    /\ liveChat' = projectDurableSessionMessages(log)
    /\ run' = "idle" /\ halted' = FALSE /\ tools' = {}
    /\ net' = NetOff /\ wire' = NoWire
    /\ ForgetAnswer
    /\ UNCHANGED <<protocol, log, requests>>

-----------------------------------------------------------------------------
(* The HTTP call.  A timeout is an AbortError like the user's own.         *)

OnlyNet == UNCHANGED <<protocol, log, liveChat, run, halted, tools, wire, sent, requests>>

Respond ==
    /\ net.phase = "fetching" /\ ~net.aborted
    /\ net' = [NetOff EXCEPT !.phase = "streaming"]
    /\ OnlyNet /\ UNCHANGED faults

\* An error status or no connection: retried when it may be, with a delay.
Retry ==
    /\ net.phase = "fetching" /\ ~net.aborted
    /\ faults < MaxFaults /\ net.attempt < MaxRetries
    /\ net' = [net EXCEPT !.phase = "sleeping"]
    /\ faults' = faults + 1
    /\ OnlyNet

Wake ==
    /\ net.phase = "sleeping" /\ ~net.aborted
    /\ net' = [net EXCEPT !.phase = "fetching", !.attempt = @ + 1]
    /\ OnlyNet /\ UNCHANGED faults

FetchFails ==
    /\ net.phase = "fetching" /\ ~net.aborted /\ faults < MaxFaults
    /\ faults' = faults + 1
    /\ FailStep

FetchTimesOut ==
    /\ net.phase = "fetching" /\ ~net.aborted
    /\ FailStep /\ UNCHANGED faults

\* The aborted request throws its AbortError; its step was rejected at once.
AbortSettles ==
    /\ net.aborted
    /\ net' = NetOff /\ wire' = NoWire
    /\ ForgetAnswer
    /\ UNCHANGED <<protocol, log, liveChat, run, halted, tools, requests, faults>>

-----------------------------------------------------------------------------
(* The events of the stream, one SSE frame at a time.                      *)

\* A read of the body is under way; it is Silent once its timer is about to
\* fire.
Streaming == net.phase = "streaming" /\ ~net.aborted /\ ~net.late
Silent    == net.phase = "streaming" /\ net.late
Listening == Streaming /\ ~wire.terminal

SignedAs(kind) ==
    CASE protocol = "google-generative-ai" -> BOOLEAN
      [] protocol = "anthropic-messages"   -> {kind = "thought"}
      [] OTHER                             -> {FALSE}

\* Whether the block may come next: see AdjacentSigned (a call is a part of its own).
Follows(kind, signed) ==
    \A b \in Answer(Step) \cap {Len(sent)} :
        kind # "call" /\ sent[b].kind = kind => AdjacentSigned \/ ~(signed \/ sent[b].signed)

\* The provider ends a block before the next begins; only a chat completion
\* writes its calls side by side.
Unblocked == ~IsChat(protocol) => wire.block = Nothing /\ wire.calls = <<>>

NewBlock(kind, signed, args) ==
    /\ Listening /\ Unblocked
    /\ Len(sent) < MaxSent /\ Cardinality(Answer(Step)) < MaxBlocks
    /\ signed \in SignedAs(kind) /\ Follows(kind, signed)
    /\ sent' = Append(sent, [step |-> Step, kind |-> kind, signed |-> signed, args |-> args])
    /\ UNCHANGED <<protocol, log, run, halted, tools, net, requests, faults>>

NewId == Len(sent) + 1

\* Google signs with the part, Anthropic when the block stops.
Speak(kind, signed) ==
    /\ NewBlock(kind, signed, "whole")
    /\ ReduceChunk(IF protocol = "google-generative-ai" /\ signed
                   THEN Annotate(Delta(Written, kind, NewId), kind, NewId)
                   ELSE Delta(Written, kind, NewId))
    /\ wire' = [wire EXCEPT !.block = IF protocol = "anthropic-messages" /\ kind = "thought"
                                      THEN NewId ELSE @]

ThoughtStops ==
    /\ Listening /\ wire.block # Nothing
    /\ ReduceChunk(Annotate(Written, "thought", wire.block))
    /\ wire' = [wire EXCEPT !.block = Nothing]
    /\ UNCHANGED <<protocol, log, run, halted, tools, net, sent, requests, faults>>

functionCall(signed) ==
    /\ protocol = "google-generative-ai"
    /\ NewBlock("call", signed, "whole")
    /\ ReduceChunk(ToolCall(Written, NewId, IF signed THEN NewId ELSE Nothing))
    /\ UNCHANGED wire

CallBegins ==
    /\ protocol # "google-generative-ai"
    /\ NewBlock("call", FALSE, "none")
    /\ wire' = [wire EXCEPT !.calls = Append(@, NewId)]
    /\ UNCHANGED liveChat

\* The JSON of the arguments arrives in pieces; without any it is read as {}.
CallArguments(b, args) ==
    /\ Listening /\ Contains(wire.calls, b)
    /\ sent[b].args # "whole" /\ sent[b].args # args
    /\ args = "whole" => protocol # "openai-responses"
    /\ sent' = [sent EXCEPT ![b].args = args]
    /\ UNCHANGED <<protocol, log, liveChat, run, halted, tools, net, wire, requests, faults>>

\* function_call_arguments.done repeats the arguments from the start.
ArgumentsDone(b) ==
    /\ protocol = "openai-responses" /\ Listening /\ Contains(wire.calls, b)
    /\ sent' = [sent EXCEPT ![b].args = "whole"]
    /\ wire' = [wire EXCEPT !.calls = At(@, {k \in 1..Len(@) : @[k] # b})]
    /\ ReduceChunk(ToolCall(Written, b, Nothing))
    /\ UNCHANGED <<protocol, log, run, halted, tools, net, requests, faults>>

Malformed == \E i \in 1..Len(wire.calls) : sent[wire.calls[i]].args = "partial"

ToolUseStops ==
    /\ protocol = "anthropic-messages" /\ Listening /\ wire.calls # <<>> /\ ~Malformed
    /\ wire' = [wire EXCEPT !.calls = <<>>]
    /\ ReduceChunk(ToolCalls(Written, wire.calls))
    /\ UNCHANGED <<protocol, log, run, halted, tools, net, sent, requests, faults>>

\* The answer ends: response.completed or incomplete, message_stop, Google's
\* finish reason.  A call of the Responses protocol that was not done is dropped.
Terminal ==
    /\ Listening /\ ~IsChat(protocol)
    /\ protocol = "anthropic-messages" => Unblocked
    /\ wire' = [wire EXCEPT !.terminal = TRUE, !.calls = <<>>]
    /\ UNCHANGED <<protocol, log, liveChat, run, halted, tools, net, sent, requests, faults>>

\* A chat completion gives out its calls at the finish reason, or at [DONE].
FinishReason ==
    /\ Listening /\ IsChat(protocol) /\ ~Malformed
    /\ wire' = [wire EXCEPT !.terminal = TRUE, !.calls = <<>>]
    /\ ReduceChunk(ToolCalls(Written, wire.calls))
    /\ UNCHANGED <<protocol, log, run, halted, tools, net, sent, requests, faults>>

\* The answer was cut inside the arguments: parseToolArguments throws.
ArgumentsCut ==
    /\ Listening /\ Malformed /\ protocol # "openai-responses"
    /\ FailStep /\ UNCHANGED faults

\* An error event, a frame that is not JSON, a broken connection.
StreamBreaks ==
    /\ Streaming /\ faults < MaxFaults
    /\ faults' = faults + 1
    /\ FailStep

\* Nothing has come for almost the whole idle timeout.
TimePasses ==
    /\ Streaming
    /\ net' = [net EXCEPT !.late = TRUE]
    /\ OnlyNet /\ UNCHANGED faults

\* A chunk settles the read, and the next read sets its timer anew: whether it
\* is a comment, a piece of a frame, or the frames, the end or the error that
\* come next.  Nothing limits how often.
ChunkInTime ==
    /\ Silent
    /\ net' = [net EXCEPT !.late = FALSE]
    /\ OnlyNet /\ UNCHANGED faults

\* Mutant of IdleTimesOut: readStreamChunk without the idle timer.
IdleForever == Silent /\ FALSE /\ FailStep /\ UNCHANGED faults

IdleTimesOut ==
    /\ Silent
    /\ FailStep /\ UNCHANGED faults

\* Mutant of StreamEnds: the end of the body is taken for the end of the answer.
StreamEndsEarly ==
    /\ Streaming /\ Written # <<>>
    /\ CompleteStep

StreamEnds ==
    /\ Streaming /\ wire.terminal /\ Written # <<>>
    /\ CompleteStep

\* The body ends before the terminal event, or the answer holds nothing.
StreamEndsShort ==
    /\ Streaming /\ (~wire.terminal \/ Written = <<>>)
    /\ FailStep /\ UNCHANGED faults

-----------------------------------------------------------------------------
ToolProgress     == \E b \in 1..Len(sent) : RunTool(b) \/ SettleTool(b)
NetProgress      == Wake \/ FetchTimesOut \/ AbortSettles \/ TimePasses \/ IdleTimesOut
ProviderProgress == sendMessage \/ sendRefused \/ ToolProgress \/ EndBatch \/ NetProgress

Frame ==
    \/ \E kind \in {"text", "thought"}, signed \in BOOLEAN : Speak(kind, signed)
    \/ \E signed \in BOOLEAN : functionCall(signed)
    \/ ThoughtStops \/ CallBegins \/ ToolUseStops \/ Terminal \/ FinishReason \/ ArgumentsCut
    \/ \E b \in 1..Len(sent) :
          \/ \E args \in {"partial", "whole"} : CallArguments(b, args)
          \/ ArgumentsDone(b)

ProviderNext ==
    \/ ProviderProgress
    \/ Frame
    \/ SubmitPrompt \/ InterruptRun \/ Crash
    \/ Respond \/ ChunkInTime \/ Retry \/ FetchFails \/ StreamBreaks \/ StreamEnds \/ StreamEndsShort
    \/ RefuseBatch \/ \E b \in tools : LoseResult(b)

ProviderSpec     == ProviderInit /\ [][ProviderNext]_providerVars
FairSpec == ProviderSpec /\ WF_providerVars(ProviderProgress)

-----------------------------------------------------------------------------
ProviderTypeOK ==
    /\ protocol \in Protocols
    /\ run \in {"idle", "ready", "model", "tools"}
    /\ halted \in BOOLEAN
    /\ net.phase \in {"off", "fetching", "sleeping", "streaming"}
    /\ net.attempt \in 0..MaxRetries /\ net.late \in BOOLEAN
    /\ tools \subseteq 1..Len(sent)

-----------------------------------------------------------------------------
(* What the provider wrote, and what it has to be shown again.             *)

\* The blocks a list of parts or items is made of, each with its signature.
Signed(type, b, sig)  == [kind |-> type, block |-> b, sig |-> sig]
Flat(items) ==
    FlattenSeq([i \in 1..Len(items) |->
        LET body == items[i].body
        IN  [j \in 1..Len(body) |->
                Signed(items[i].kind, body[j], IF j = Len(body) THEN items[i].sig ELSE Nothing)]])
FlatParts(parts) == Flat([i \in 1..Len(parts) |-> Item(parts[i].type, parts[i].body, parts[i].sig)])

Own(b) == Signed(sent[b].kind, b, IF sent[b].signed THEN b ELSE Nothing)
Blocks(S) == LET bs == InOrder(sent, S) IN [i \in 1..Len(bs) |-> Own(bs[i])]

\* A call is part of the answer when its arguments came to their end.
Ended(b) == /\ sent[b].args # "partial"
            /\ protocol = "openai-responses" => sent[b].args = "whole"
IsCall(b)   == sent[b].kind = "call"
TheAnswer(s) ==
    IF IsChat(protocol)
    THEN Blocks(Answer(s) \ CallsOf(s)) \o Blocks(CallsOf(s))
    ELSE Blocks({b \in Answer(s) : IsCall(b) => Ended(b)})

\* A durable assistant step is the whole of an answer the provider ended: its
\* blocks in order, each once, under its own signature, no call with half of
\* its arguments, whatever was cut, aborted, timed out or retried.
AnswersAreWhole ==
    \A i \in 1..Len(log) : log[i].type = "assistant" =>
        /\ FlatParts(log[i].parts) = TheAnswer(log[i].id)
        /\ \A b \in CallsOf(log[i].id) : IsChat(protocol) => Ended(b)

Kept(b) == CASE sent[b].kind = "thought" ->
                    protocol = "deepseek" \/ (Signs(protocol) /\ sent[b].signed)
             [] sent[b].kind = "call"    -> Ended(b)
             [] OTHER                    -> TRUE

\* The three fields of an OpenAI message, or Anthropic's and Google's blocks.
Shown(s) ==
    LET of(kinds) == Blocks({b \in Answer(s) : Kept(b) /\ sent[b].kind \in kinds})
    IN  IF Signs(protocol) THEN of({"text", "thought", "call"})
        ELSE of({"text"}) \o of({"thought"}) \o of({"call"})

ResultsShown(s) ==
    LET bs == InOrder(sent, {b \in Answer(s) : HasEntry(log, "tool_result", b)})
    IN  [i \in 1..Len(bs) |-> Signed("result", bs[i], Nothing)]

TheHistory ==
    LET said == Said(log)
    IN  FlattenSeq([i \in 1..Len(said) |->
            IF said[i].type = "user" THEN <<Signed("user", said[i].id, Nothing)>>
            ELSE Shown(said[i].id) \o ResultsShown(said[i].id)])

\* A request shows the provider the durable history as it wrote it: every
\* prompt, every durable answer in the blocks its protocol takes back, every
\* committed result right after the answer that asked for it, and nothing of
\* an answer that failed.  A later request only adds to an earlier one, so the
\* prefix the provider has cached stays.
RequestsAreFaithful ==
    /\ run = "model" => Flat(Last(requests)) = TheHistory
    /\ \A i \in 1..(Len(requests) - 1) : IsPrefix(Flat(requests[i]), Flat(requests[i + 1]))

\* A run comes to its end and no request stays on the wire, unless the provider
\* goes on for ever sending something just before the idle timer fires: the
\* fetch, the retries and each silence have a limit, the stream as a whole has
\* none (provider-http.ts:223, 266).  An interrupted request hears no chunk, so
\* it is gone in any case.
RunsSettle ==
    \/ []<><<ChunkInTime>>_providerVars
    \/ run # "idle" \/ net.phase # "off" ~> run = "idle" /\ net.phase = "off"

\* "Tool call/result pairing remains exactly-once across durable
\* continuation": a call a request shows has one result in it.
PairingIsExact ==
    \A i \in 1..Len(requests) :
        LET items == requests[i]
            Of(kind) == {j \in 1..Len(items) : items[j].kind = kind}
        IN  \A j \in Of("call") :
                Cardinality({k \in Of("result") : items[k].body = items[j].body}) = 1

=============================================================================

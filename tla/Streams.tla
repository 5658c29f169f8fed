------------------------------ MODULE Streams -------------------------------
(***************************************************************************)
(* One streamed completion, from the engine's response to the Go client    *)
(* that puts it together again: the four SSE renderers (internal/streaming *)
(* and adapter/responses_stream.go), their pacing and fault injection, the *)
(* non-streaming bodies of the same response (formatOpenAIResponse and its *)
(* siblings), and the SDK's RawEventStream and ChunkStream.                *)
(*                                                                         *)
(* A text is a sequence of words and separators; a tool call has its name  *)
(* and its arguments, cut into the pieces they are sent in.                *)
(***************************************************************************)
EXTENDS Integers, FiniteSets, Sequences, SequencesExt

CONSTANTS Protocols,  \* of "openai", "anthropic", "gemini", "responses"
          Contents,   \* response texts
          Refusals,   \* refusal texts, <<>> among them
          ToolCalls,  \* lists of tool calls
          Finishes,   \* forced finish reasons, "" among them
          ToUpper(_), \* strings.ToUpper on them
          Configs     \* streaming configurations [size, truncate, malformed]
Separators == {" ", "\n"}

VARIABLES proto, resp, cfg,   \* what is streamed, and how
          frames,             \* the frames the handler has to write
          server,             \* [sent, state]: frames written; "open", "closed" or "aborted"
          link,               \* "up", or "cut": the client has gone or the connection broke
          client              \* the SDK's ChunkStream and what its user has seen
vars == <<proto, resp, cfg, frames, server, link, client>>

(***************************************************************************)
(* The chunker and the pacer                                               *)
(***************************************************************************)
Fields(text) == SelectSeq(text, LAMBDA c : c \notin Separators)
Spaced(words) == [i \in 1..(2 * Len(words) - 1) |-> IF i % 2 = 1 THEN words[(i + 1) \div 2] ELSE " "]
Chunk(text, size) ==
    LET words == Fields(text)
        n == (Len(words) + size - 1) \div size
        Piece(i) == LET end == IF i * size > Len(words) THEN Len(words) ELSE i * size
                    IN Spaced(SubSeq(words, (i - 1) * size + 1, end))
                       \o (IF end < Len(words) THEN <<" ">> ELSE <<>>)
    IN IF text = <<>> THEN <<>> ELSE IF words = <<>> THEN <<text>> ELSE [i \in 1..n |-> Piece(i)]

Frame(ev) == [ev |-> ev, idx |-> 0, text |-> <<>>, name |-> "", frag |-> <<>>, reason |-> ""]
Bad == Frame("bad")
\* beforeChunk and writeStop: where the stream is cut, and what it ends with then
Truncated(chunks, c) == c.truncate > 0 /\ Len(chunks) > c.truncate
writeStop(c) == IF c.malformed THEN <<Bad>> ELSE <<>>
\* The text chunks, or as many as go out before the cut
Paced(fs, c) == IF Truncated(fs, c) THEN SubSeq(fs, 1, c.truncate) \o writeStop(c) ELSE fs
Texts(ev, idx, text, c) ==
    LET chunks == Chunk(text, c.size)
    IN [i \in DOMAIN chunks |-> [Frame(ev) EXCEPT !.idx = idx, !.text = chunks[i]]]
\* What follows the text: nothing after a cut, only the bad frame if malformed
Then(chunks, c, rest) ==
    IF Truncated(chunks, c) THEN <<>> ELSE IF c.malformed THEN writeStop(c) ELSE rest
Args(tc) == IF tc.raw # <<>> THEN tc.raw ELSE tc.args   \* raw_arguments are sent verbatim
Pieces(ev, idx, args) == [k \in DOMAIN args |-> [Frame(ev) EXCEPT !.idx = idx, !.frag = <<args[k]>>]]

(***************************************************************************)
(* Finish reasons                                                          *)
(***************************************************************************)
AnthropicStopReason(f) == CASE f = "length" -> "max_tokens" [] f = "tool_calls" -> "tool_use"
    [] f = "content_filter" -> "refusal" [] f \in {"stop", ""} -> "end_turn" [] OTHER -> f
GeminiFinishReason(f) == CASE f = "length" -> "MAX_TOKENS" [] f = "content_filter" -> "SAFETY"
    [] f \in {"stop", "tool_calls", ""} -> "STOP" [] OTHER -> ToUpper(f)
\* of the streams
OpenAIFinishInferred(r) == IF r.tools # <<>> THEN "tool_calls" ELSE "stop"   \* mutant: no forced reason
OpenAIFinish(r) == IF r.finish # "" THEN r.finish ELSE IF r.tools # <<>> THEN "tool_calls" ELSE "stop"
AnthropicFinish(r) == IF r.finish # "" THEN AnthropicStopReason(r.finish)
                      ELSE IF r.tools # <<>> THEN "tool_use" ELSE IF r.refusal # <<>> THEN "refusal" ELSE "end_turn"
GeminiFinish(r) == IF r.finish # "" THEN GeminiFinishReason(r.finish)
                   ELSE IF r.refusal # <<>> THEN "SAFETY" ELSE "STOP"

(***************************************************************************)
(* The streams                                                             *)
(***************************************************************************)
streamOpenAIToolCalls(tools) == FlattenSeq([i \in DOMAIN tools |->
    <<[Frame("tool") EXCEPT !.idx = i - 1, !.name = tools[i].name]>> \o Pieces("args", i - 1, Args(tools[i]))])
StreamOpenAI(r, c) ==
    LET text == Texts("chunk", 0, r.content, c)
        refusal == IF r.refusal = <<>> \/ Truncated(text, c) THEN <<>>
                   ELSE <<[Frame("refusal") EXCEPT !.text = r.refusal]>>
    IN <<Frame("role")>> \o Paced(text, c) \o refusal
       \o Then(text, c, streamOpenAIToolCalls(r.tools)
                        \o <<[Frame("finish") EXCEPT !.reason = OpenAIFinish(r)], Frame("[DONE]")>>)

\* (a refusal is streamed as the text only where there is no content)
TextBody(r) == IF r.content # <<>> THEN r.content ELSE r.refusal
\* (toolsFrom: the index of the first tool block)
anthropicEvents(r, c, toolsFrom) ==
    LET text == Texts("delta", 0, TextBody(r), c)
        block(i, name, body) == <<[Frame("block_start") EXCEPT !.idx = i, !.name = name]>> \o body
        stop(i) == <<[Frame("block_stop") EXCEPT !.idx = i]>>
        tool(k) == LET i == toolsFrom + k - 1
                   IN block(i, r.tools[k].name, Pieces("json_delta", i, r.tools[k].args)) \o stop(i)
    IN <<Frame("message_start")>>
       \o (IF TextBody(r) = <<>> THEN <<>>
           ELSE block(0, "text", Paced(text, c)) \o (IF Truncated(text, c) THEN <<>> ELSE stop(0)))
       \o Then(text, c, FlattenSeq([k \in DOMAIN r.tools |-> tool(k)])
                        \o <<[Frame("message_delta") EXCEPT !.reason = AnthropicFinish(r)], Frame("message_stop")>>)
StreamAnthropicFlat(r, c) == anthropicEvents(r, c, 0)   \* mutant: the text block leaves the index alone
StreamAnthropic(r, c) == anthropicEvents(r, c, IF TextBody(r) = <<>> THEN 0 ELSE 1)

StreamGemini(r, c) ==
    LET text == Texts("part", 0, TextBody(r), c)
        call(k) == [Frame("call") EXCEPT !.idx = k - 1, !.name = r.tools[k].name, !.frag = r.tools[k].args]
    IN Paced(text, c) \o Then(text, c, [k \in DOMAIN r.tools |-> call(k)]
                                       \o <<[Frame("final") EXCEPT !.reason = GeminiFinish(r)]>>)

\* Responses: built first, then replayed item by item, without faults
buildResponsesOutput(r) ==
    (IF r.refusal # <<>> THEN <<[kind |-> "refusal", text |-> r.refusal, name |-> "", args |-> <<>>]>>
     ELSE IF r.content # <<>> THEN <<[kind |-> "text", text |-> r.content, name |-> "", args |-> <<>>]>> ELSE <<>>)
    \o [k \in DOMAIN r.tools |-> [kind |-> "call", text |-> <<>>, name |-> r.tools[k].name, args |-> Args(r.tools[k])]]
ResponsesStatus(r) == IF r.finish = "length" THEN "incomplete" ELSE "completed"
streamMessageItem(i, it, c) ==
    LET deltas == IF it.kind = "text" THEN Texts("text_delta", i, it.text, c)
                  ELSE <<[Frame("text_delta") EXCEPT !.idx = i, !.text = it.text]>>
    IN <<[Frame("part_added") EXCEPT !.idx = i]>> \o deltas
       \o <<[Frame("text_done") EXCEPT !.idx = i, !.text = it.text], [Frame("part_done") EXCEPT !.idx = i]>>
streamFunctionCallItem(i, it) ==
    Pieces("args_delta", i, it.args) \o <<[Frame("args_done") EXCEPT !.idx = i, !.frag = it.args]>>
streamResponses(r, c) ==
    LET out == buildResponsesOutput(r)
        item(k) == LET i == k - 1
                       it == out[k]
                   IN <<[Frame("item_added") EXCEPT !.idx = i, !.name = it.name]>>
                      \o (IF it.kind = "call" THEN streamFunctionCallItem(i, it) ELSE streamMessageItem(i, it, c))
                      \o <<[Frame("item_done") EXCEPT !.idx = i]>>
    IN <<Frame("created"), Frame("in_progress")>> \o FlattenSeq([k \in DOMAIN out |-> item(k)])
       \o <<[Frame("completed") EXCEPT !.reason = ResponsesStatus(r)]>>

Frames(p, r, c) == CASE p = "openai" -> StreamOpenAI(r, c) [] p = "anthropic" -> StreamAnthropic(r, c)
                     [] p = "gemini" -> StreamGemini(r, c) [] OTHER -> streamResponses(r, c)

(***************************************************************************)
(* The same response without streaming.  A request may enable thinking,    *)
(* which only the unstreamed Anthropic answer honours: a synthesized       *)
(* block, never empty, leads its content.                                  *)
(***************************************************************************)
Blocks(r, args(_)) == [k \in DOMAIN r.tools |-> [name |-> r.tools[k].name, args |-> args(r.tools[k])]]
Given(tc) == tc.args
formatOpenAIResponse(r) ==
    [thinking |-> <<>>, text |-> r.content, refusal |-> r.refusal, tools |-> Blocks(r, Args),
     reason |-> IF r.finish # "" THEN r.finish ELSE IF r.tools = <<>> THEN "stop" ELSE "tool_calls"]
synthesizeThinking == <<"thought">>
formatAnthropicResponse(r, thinkingText) ==
    [thinking |-> thinkingText, text |-> r.content \o r.refusal, refusal |-> <<>>, tools |-> Blocks(r, Given),
     reason |-> IF r.finish # "" THEN AnthropicStopReason(r.finish) ELSE IF r.tools # <<>> THEN "tool_use"
                ELSE IF r.refusal # <<>> THEN "refusal" ELSE "end_turn"]
formatGeminiResponse(r) ==
    [thinking |-> <<>>, text |-> r.content \o r.refusal, refusal |-> <<>>, tools |-> Blocks(r, Given),
     reason |-> IF r.finish # "" THEN GeminiFinishReason(r.finish)
                ELSE IF r.refusal # <<>> THEN "SAFETY" ELSE "STOP"]
buildResponsesResponse(r) ==
    LET out == buildResponsesOutput(r)
        calls == SelectSeq(out, LAMBDA it : it.kind = "call")
    IN [thinking |-> <<>>, text |-> FlattenSeq([k \in DOMAIN out |-> out[k].text]), refusal |-> <<>>,
        tools |-> [k \in DOMAIN calls |-> [name |-> calls[k].name, args |-> calls[k].args]],
        reason |-> ResponsesStatus(r)]
Body(p, r, thinkingEnabled) ==
    CASE p = "openai" -> formatOpenAIResponse(r)
      [] p = "anthropic" -> formatAnthropicResponse(r, IF thinkingEnabled THEN synthesizeThinking ELSE <<>>)
      [] p = "gemini" -> formatGeminiResponse(r) [] OTHER -> buildResponsesResponse(r)

(***************************************************************************)
(* The SDK.  RawEventStream.Next skips what does not parse and ends at     *)
(* [DONE], at message_stop or at the end of the body; the normalizers turn *)
(* an event into at most one chunk.                                        *)
(***************************************************************************)
NoChunk == [text |-> <<>>, idx |-> -1, name |-> "", frag |-> <<>>, finished |-> FALSE, reason |-> ""]
normalizeOpenAIStream(f, st) ==
    CASE f.ev = "chunk"            -> [NoChunk EXCEPT !.text = f.text]
      [] f.ev \in {"tool", "args"} -> [NoChunk EXCEPT !.idx = f.idx, !.name = f.name, !.frag = f.frag]
      [] f.ev = "finish"           -> [NoChunk EXCEPT !.finished = TRUE, !.reason = f.reason]
      [] OTHER                     -> NoChunk
normalizeAnthropicStream(f, st) ==
    CASE f.ev = "delta"        -> [NoChunk EXCEPT !.text = f.text]
      [] f.ev = "block_start" /\ f.name # "text" -> [NoChunk EXCEPT !.idx = f.idx, !.name = f.name]
      [] f.ev = "json_delta"   -> [NoChunk EXCEPT !.idx = st.tool, !.name = st.name, !.frag = f.frag]
      [] f.ev = "message_stop" -> [NoChunk EXCEPT !.finished = TRUE,
                                       !.reason = IF st.stop = "" THEN "end_turn" ELSE st.stop]
      [] OTHER                 -> NoChunk
\* normalizeState, for Anthropic
normalizeStateStuck(st, f) ==   \* mutant: the tool of a further block is not taken over
    [st EXCEPT !.tool = IF f.ev = "block_start" /\ f.name # "text" /\ @ = 0 THEN f.idx ELSE @,
               !.stop = IF f.ev = "message_delta" THEN f.reason ELSE @]
normalizeState(st, f) ==
    [st EXCEPT !.tool = IF f.ev = "block_start" /\ f.name # "text" THEN f.idx ELSE @,
               !.name = IF f.ev = "block_start" /\ f.name # "text" THEN f.name ELSE @,
               !.stop = IF f.ev = "message_delta" THEN f.reason ELSE @]
\* What the user of the stream puts together from the chunks, by tool index
Collect(tools, ch) ==
    IF ch.idx < 0 THEN tools
    ELSE LET old == IF ch.idx \in DOMAIN tools THEN tools[ch.idx] ELSE [name |-> "", args |-> <<>>]
         IN [i \in DOMAIN tools \cup {ch.idx} |->
                IF i # ch.idx THEN tools[i]
                ELSE [name |-> IF ch.name = "" THEN old.name ELSE ch.name, args |-> old.args \o ch.frag]]

Init ==
    /\ proto \in Protocols
    /\ resp \in [content : Contents, refusal : Refusals, tools : ToolCalls, finish : Finishes]
    /\ cfg \in Configs
    /\ frames = Frames(proto, resp, cfg)
    /\ server = [sent |-> 0, state |-> "open"]
    /\ link = "up"
    /\ client = [read |-> 0, st |-> [tool |-> 0, name |-> "", stop |-> ""], text |-> <<>>,
                 tools |-> <<>>, finished |-> FALSE, reason |-> "", done |-> FALSE, err |-> FALSE]

\* WriteData, WriteEvent, WriteRaw: a frame, flushed; a write on a broken
\* connection, or ctx.Err() before it, ends the handler
Emit ==
    /\ server.state = "open"
    /\ server' = IF server.sent = Len(frames) THEN [server EXCEPT !.state = "closed"]
                 ELSE IF link = "cut" THEN [server EXCEPT !.state = "aborted"]
                 ELSE [server EXCEPT !.sent = @ + 1]
    /\ UNCHANGED <<proto, resp, cfg, frames, link, client>>
\* The client closes its stream or the network fails
CutLink ==
    /\ link = "up"
    /\ ~client.done
    /\ link' = "cut"
    /\ UNCHANGED <<proto, resp, cfg, frames, server, client>>
\* ChunkStream.Next on the next frame
NextChunk ==
    /\ ~client.done
    /\ client.read < server.sent
    /\ LET f == frames[client.read + 1]
           ch == IF proto = "openai" THEN normalizeOpenAIStream(f, client.st)
                 ELSE normalizeAnthropicStream(f, client.st)
       IN client' = [client EXCEPT !.read = @ + 1, !.st = normalizeState(@, f),
             !.text = @ \o ch.text, !.tools = Collect(@, ch),
             !.finished = ch.finished, !.reason = ch.reason,
             !.done = ch.finished \/ f.ev = "[DONE]"]
    /\ UNCHANGED <<proto, resp, cfg, frames, server, link>>
\* The end of the body: clean once the handler has returned, an error when the
\* connection broke (frames in flight may be lost with it)
EndOfBodyClosed ==   \* mutant: only a handler that has written everything ends the loop
    /\ ~client.done
    /\ server.state = "closed" /\ client.read = server.sent
    /\ client' = [client EXCEPT !.done = TRUE, !.err = (link = "cut")]
    /\ UNCHANGED <<proto, resp, cfg, frames, server, link>>
EndOfBody ==
    /\ ~client.done
    /\ link = "cut" \/ (server.state # "open" /\ client.read = server.sent)
    /\ client' = [client EXCEPT !.done = TRUE, !.err = (link = "cut")]
    /\ UNCHANGED <<proto, resp, cfg, frames, server, link>>

SDK == proto \in {"openai", "anthropic"}   \* the SDK streams these two
Next == Emit \/ CutLink \/ (SDK /\ (NextChunk \/ EndOfBody))
\* The handler keeps writing and the client keeps reading
Fairness == WF_vars(Emit) /\ WF_vars(SDK /\ (NextChunk \/ EndOfBody))
Spec == Init /\ [][Next]_vars /\ Fairness

-----------------------------------------------------------------------------
(***************************************************************************)
(* Properties                                                              *)
(***************************************************************************)
Faulted == ~(proto = "responses") /\ (cfg.malformed \/
    Truncated(Chunk(IF proto = "openai" THEN resp.content ELSE TextBody(resp), cfg.size), cfg))
\* The SDK's user is told that a stream has finished exactly if its terminal
\* event came through, never for one that was truncated, malformed or broken
\* off; and then has got all of it: every word of the text in order, every tool
\* call with its name and its whole arguments, and the reason the response
\* would carry without streaming.
FinishedMeansWhole ==
    client.finished =>
        LET body == Body(proto, resp, FALSE)
            idxs == SetToSortSeq(DOMAIN client.tools, <)
        IN /\ ~Faulted
           /\ Fields(client.text) = Fields(IF proto = "openai" THEN resp.content ELSE TextBody(resp))
           /\ [k \in DOMAIN idxs |-> client.tools[idxs[k]]] = body.tools
           /\ client.reason = body.reason

\* Put together, the events of a stream that no fault cuts say what the
\* non-streaming body of the same response says, for every protocol: the same
\* words, the same refusal, the same tool calls and the same reason (for a
\* response that has a content or a refusal, not both).  One thing is left out
\* by name: the thinking block of a request that enables thinking is in the
\* Anthropic body and never in the stream (the TODO at adapter/anthropic.go:254),
\* so there the body is the stream's content behind a block the stream has not.
Reassembled(p, fs) ==
    LET has(evs) == SelectSeq(fs, LAMBDA f : f.ev \in evs)
        texts == has({"chunk", "delta", "part", "text_delta"})
        heads == SelectSeq(fs, LAMBDA f : f.name \notin {"", "text"})
        argsOf(i) == FlattenSeq(LET a == SelectSeq(fs, LAMBDA f : f.ev \in {"args", "json_delta", "call", "args_delta"}
                                                           /\ f.idx = i) IN [k \in DOMAIN a |-> a[k].frag])
        refusals == has({"refusal"})
        Joined(s) == FlattenSeq([k \in DOMAIN s |-> s[k].text])
    IN [thinking |-> <<>>, text |-> Joined(texts), refusal |-> Joined(refusals),
        tools |-> [k \in DOMAIN heads |-> [name |-> heads[k].name, args |-> argsOf(heads[k].idx)]],
        reason |-> LET e == SelectSeq(fs, LAMBDA f : f.reason # "") IN e[Len(e)].reason]
Opening == server.sent = 0 /\ server.state = "open"   \* once for each stream
StreamMatchesBody ==
    Opening /\ ~Faulted /\ (resp.content = <<>> \/ resp.refusal = <<>>) =>
        \A thinkingEnabled \in BOOLEAN :
            LET Words(m) == [m EXCEPT !.text = Fields(m.text)]
                s == Words(Reassembled(proto, frames))
                b == Words(Body(proto, resp, thinkingEnabled))
            IN IF thinkingEnabled /\ proto = "anthropic"
               THEN b = [s EXCEPT !.thinking = synthesizeThinking] ELSE b = s

\* The events form what a client's state machine expects: the terminal event
\* comes once and last; Anthropic blocks and Responses items are numbered
\* without gaps, are never open two at a time, and deltas name the open one; a
\* Responses item's deltas are the words of the text its "done" event repeats.
WellFormed ==
    Opening =>
    LET fs == frames
        opens == {i \in DOMAIN fs : fs[i].ev \in {"block_start", "item_added"}}
        closes == {i \in DOMAIN fs : fs[i].ev \in {"block_stop", "item_done"}}
        ends == {i \in DOMAIN fs : fs[i].ev \in {"[DONE]", "message_stop", "final", "completed"}}
        before(S, i) == Cardinality({j \in S : j < i})
    IN /\ ends = IF Faulted THEN {} ELSE {Len(fs)}
       /\ \A i \in opens : before(opens, i) = before(closes, i) /\ fs[i].idx = before(opens, i)
       /\ proto \in {"anthropic", "responses"} =>
            \A i \in DOMAIN fs :
               /\ fs[i].ev \in {"delta", "json_delta", "text_delta", "args_delta", "text_done", "args_done",
                                "part_added", "part_done", "block_stop", "item_done"}
                     => before(opens, i) = before(closes, i) + 1 /\ fs[i].idx = before(closes, i)
               /\ fs[i].ev = "text_done" =>
                     LET d == SelectSeq(SubSeq(fs, 1, i), LAMBDA f : f.ev = "text_delta" /\ f.idx = fs[i].idx)
                     IN Fields(FlattenSeq([k \in DOMAIN d |-> d[k].text])) = Fields(fs[i].text)

\* A stream its client takes for finished is the whole response, carries what the
\* same response carries unstreamed, and is well formed in its protocol.
StreamsFaithful == FinishedMeansWhole /\ StreamMatchesBody /\ WellFormed

\* Whatever is cut, truncated or malformed, the SDK's loop over the stream ends:
\* as long as it runs, the handler or the loop can take a step, and every such
\* step shortens what is left to do.
LoopCanGoOn == SDK /\ ~client.done => ENABLED (Emit \/ NextChunk \/ EndOfBody)
ToDo == 2 * Len(frames) - server.sent - client.read
          + Cardinality({x \in {"server", "client"} : IF x = "server" THEN server.state = "open" ELSE ~client.done})
StreamEnds == []LoopCanGoOn /\ [][link' = link => ToDo' < ToDo]_vars

\* A client that joins the pieces of a streamed text gets the text back, spacing
\* included.
SpacingPreserved ==
    Opening /\ ~Faulted /\ (resp.content = <<>> \/ resp.refusal = <<>>) =>
        Reassembled(proto, frames).text
                    = IF proto = "openai" THEN resp.content ELSE TextBody(resp)
=============================================================================

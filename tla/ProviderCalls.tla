---- MODULE ProviderCalls ----
(***************************************************************************)
(* The provider adapters: one physical call of a model, from the semaphore *)
(* of the adapter to the end of its subprocess, and what the adapter makes *)
(* of the output.  An error carries the token usage the adapter had parsed *)
(* when it gave up, which is not always the usage the model reported.      *)
(***************************************************************************)
EXTENDS Naturals

CONSTANTS
  Adapters,  \* of "codex", "claude" (subprocesses), "http", "local"
  Callers,   \* tasks that use the one provider object
  Tokens,    \* what a call may have cost
  MaxOrphans \* bound: processes nobody waits for

ASSUME AdapterAssumption ==
  /\ Adapters \subseteq {"codex", "claude", "http", "local"}
  /\ "nobody" \notin Callers
  /\ Tokens \subseteq Nat
  /\ MaxOrphans \in Nat

VARIABLES
  adapter,  \* the selected provider
  call,     \* per caller: "none", "queued", "running", "terminating"
  holder,   \* who holds the semaphore
  live,     \* subprocesses alive
  twice     \* history: a call was cancelled again while its process was dying

callVars == <<adapter, call, holder, live, twice>>

Nobody == "nobody"
HasProcess == adapter \in {"codex", "claude"}

\* How a physical call may end: it fails, prints something else than the
\* protocol, no message, a message that is no decision, the decisions of other
\* symbols, malformed token counts, or the decisions asked for.
Ends == {"fails", "shapeless", "silent", "garbled", "swapped", "badUsage", "good"}

Carried(usage)  == [ok |-> FALSE, usage |-> usage]
Lost            == Carried(0)
Decided(usage)  == [ok |-> TRUE, usage |-> usage]

----------------------------------------------------------------------------
\* What generate_trade_intent (one symbol) and generate_trade_intents (several)
\* return or raise.  A single answer is not compared with the symbol asked
\* about; the engine does that, and knows of no usage then.

CodexIntent(end, tokens) ==
  CASE end = "good" -> Decided(tokens)
    [] end \in {"silent", "garbled"} -> Carried(tokens)
    [] OTHER -> Lost
CodexIntents(end, tokens) ==
  CASE end = "good" -> Decided(tokens)
    [] end \in {"silent", "garbled", "swapped"} -> Carried(tokens)
    [] OTHER -> Lost

ClaudeIntent(end, tokens) ==
  CASE end = "good" -> Decided(tokens)
    [] end \in {"silent", "garbled"} -> Carried(tokens)
    [] OTHER -> Lost
ClaudeIntents(end, tokens) ==
  CASE end = "good" -> Decided(tokens)
    [] end \in {"silent", "garbled", "swapped"} -> Carried(tokens)
    [] OTHER -> Lost

\* The usage of an HTTP answer is parsed after its message.
HttpIntent(end, tokens) ==
  CASE end = "good" -> Decided(tokens)
    [] end = "garbled" -> Carried(tokens)
    [] OTHER -> Lost
HttpIntents(end, tokens) ==
  CASE end = "good" -> Decided(tokens)
    [] end \in {"garbled", "swapped"} -> Carried(tokens)
    [] OTHER -> Lost

Intents(end, tokens, size) ==
  CASE adapter = "codex"  -> IF size = 1 THEN CodexIntent(end, tokens) ELSE CodexIntents(end, tokens)
    [] adapter = "claude" -> IF size = 1 THEN ClaudeIntent(end, tokens) ELSE ClaudeIntents(end, tokens)
    [] adapter = "http"   -> IF size = 1 THEN HttpIntent(end, tokens) ELSE HttpIntents(end, tokens)
    [] adapter = "local"  -> Decided(0)

\* generate_structured_output returns the message unread.
CodexStructured(end)  == end \in {"garbled", "swapped", "good"}
ClaudeStructured(end) == end \in {"garbled", "swapped", "good"}
HttpStructured(end)   == end \in {"garbled", "swapped", "good"}
Structured(end) ==
  CASE adapter = "codex" -> CodexStructured(end) [] adapter = "claude" -> ClaudeStructured(end)
    [] adapter = "http" -> HttpStructured(end)   [] adapter = "local" -> FALSE

\* The analysis bridge validates the message: a schema error keeps the usage, a
\* wrong order of symbols does not.
Assisted(end, tokens) ==
  CASE Structured(end) /\ end = "good"    -> Decided(tokens)
    [] Structured(end) /\ end = "garbled" -> Carried(tokens)
    [] OTHER -> Lost

----------------------------------------------------------------------------
\* The life of one call.

Ask(c) ==
  /\ call[c] = "none"
  /\ call' = [call EXCEPT ![c] = "queued"]
  /\ UNCHANGED <<adapter, holder, live, twice>>

\* async with self._semaphore, then create_subprocess_exec.
Start(c) ==
  /\ call[c] = "queued" /\ holder = Nobody
  /\ call' = [call EXCEPT ![c] = "running"]
  /\ holder' = c
  /\ live' = live + (IF HasProcess THEN 1 ELSE 0)
  /\ UNCHANGED <<adapter, twice>>

Release(c) ==
  /\ call' = [call EXCEPT ![c] = "none"]
  /\ holder' = IF holder = c THEN Nobody ELSE holder

\* The process has ended and communicate() returns.
Return(c) ==
  /\ call[c] = "running"
  /\ Release(c)
  /\ live' = live - (IF HasProcess THEN 1 ELSE 0)
  /\ UNCHANGED <<adapter, twice>>

\* Mutant: the process is sent SIGTERM and not waited for.
InterruptUnwaited(c) ==
  /\ call[c] \in {"queued", "running"}
  /\ Release(c)
  /\ UNCHANGED <<adapter, live, twice>>
\* The caller is cancelled: in the queue it leaves, a connection is dropped, a
\* process is sent SIGTERM and waited for.
Interrupt(c) ==
  /\ call[c] \in {"queued", "running"}
  /\ IF call[c] = "running" /\ HasProcess
     THEN call' = [call EXCEPT ![c] = "terminating"] /\ UNCHANGED holder
     ELSE Release(c)
  /\ UNCHANGED <<adapter, live, twice>>

\* It exits within two seconds, or is killed.
Reap(c) ==
  /\ call[c] = "terminating"
  /\ Release(c)
  /\ live' = live - 1
  /\ UNCHANGED <<adapter, twice>>

\* The caller is cancelled again during those two seconds: nothing kills the
\* process any more.
Abandon(c) ==
  /\ call[c] = "terminating"
  /\ Release(c)
  /\ live' \in {live - 1, live} \cap 0..MaxOrphans
  /\ twice' = TRUE
  /\ UNCHANGED adapter

\* An abandoned process ends by itself.
Fade ==
  /\ live > (IF HasProcess /\ holder # Nobody THEN 1 ELSE 0)
  /\ live' = live - 1
  /\ UNCHANGED <<adapter, call, holder, twice>>

CallInit ==
  /\ adapter \in Adapters
  /\ call = [c \in Callers |-> "none"]
  /\ holder = Nobody
  /\ live = 0
  /\ twice = FALSE
====

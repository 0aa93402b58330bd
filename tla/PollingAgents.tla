---- MODULE PollingAgents ----
(***************************************************************************)
(* The poet and the weather agent: one loop that reads page after page of   *)
(* the events of every channel and thread, remembers the sequence number it *)
(* has read to and the invocations it has seen, and answers one invocation  *)
(* at a time.  The assistant and the cursor agent use the same loop when    *)
(* they cannot open a WebSocket.                                           *)
(***************************************************************************)
EXTENDS AgentWorld
CONSTANTS PageLimit      \* events in a page: 200 in the code
ASSUME PageAssumption == PageLimit \in Nat \ {0}
VARIABLES seen,          \* seenInvocationKeys
          last,          \* lastSeqByStream
          from,          \* where this life of the process began to read
          scan,          \* the loop: [at, chans, left, page, max, cut, due]
          outcomes       \* how each invocation taken in each life ended
pollVars == <<seen, last, from, scan, outcomes>>

Zero == [s \in Streams |-> 0]
Asleep == [at |-> "off", chans |-> <<>>, left |-> <<>>, page |-> {}, max |-> 0, cut |-> {}, due |-> FALSE]
PollInit == seen = {} /\ last = Zero /\ from = Zero /\ scan = Asleep /\ outcomes = {}

Outcome(key, out) == [key |-> key, life |-> life.n, out |-> out]
Taken(key) == \E o \in outcomes : o.key = key /\ o.life = life.n
Note(key, out) == outcomes' = outcomes \cup {Outcome(key, out)}
Exit == life' = [life EXCEPT !.up = FALSE] /\ jobs' = {} /\ scan' = Asleep
ScanTo(at) == scan' = [scan EXCEPT !.at = at]
(* Nothing but the loop's own bookkeeping changes. *)
Quietly == UNCHANGED <<program, resolving, server, seen, last, from, outcomes>>

(* The operator starts the process; the memory of the last one is gone.    *)
Start ==
  /\ ~life.up /\ budget.lives > 0 /\ budget' = [budget EXCEPT !.lives = @ - 1]
  /\ life' = [up |-> TRUE, n |-> life.n + 1]
  /\ seen' = {} /\ last' = Zero /\ from' = Zero
  /\ scan' = [Asleep EXCEPT !.at = "boot", !.due = program = "poet"]
  /\ UNCHANGED <<program, channels, threads, messages, grants, requests, resolving, command, jobs, outcomes>>

Kill == life.up /\ Exit /\ Quietly /\ UNCHANGED budget

registerCommand ==
  IF command \in {"none", "disabled"}
  THEN requests' = Asked("command:register", None) /\ command' = "pending"
  ELSE UNCHANGED <<requests, command>>
(* A refused registration is only logged; an error ends the process.       *)
Registers(register, next) ==
  /\ scan.at = "boot" /\ UNCHANGED <<program, resolving, seen, last, from, outcomes, channels, threads, messages, grants>>
  /\ \/ register /\ ScanTo(next) /\ UNCHANGED <<life, jobs, budget>>
     \/ Exit /\ Fault /\ UNCHANGED <<requests, command>>

(***************************************************************************)
(* The loop.                                                               *)
(***************************************************************************)
Handling == {j \in jobs : j.stage # "final"}   \* what the loop waits for
Loop(at) == life.up /\ scan.at = at /\ Handling = {} /\ Quietly
(* Mutant: the error is caught outside the loop and ends it.               *)
MutantAbandon == ScanTo("off") /\ Fault /\ UNCHANGED <<life, jobs>>
Abandon == ScanTo("idle") /\ Fault /\ UNCHANGED <<life, jobs>>

(* Without a channel there is nothing to read.                             *)
Round(chans) == IF chans = <<>> THEN "idle" ELSE "threads"
(* The Next.js app is asked first: when it is down the loop ends.          *)
Tick(next) ==
  /\ Loop("idle")
  /\ \/ Exit /\ Fault
     \/ scan' = [scan EXCEPT !.at = next, !.chans = channels] /\ UNCHANGED <<life, jobs, budget>>
     \/ Abandon

(* A channel whose threads cannot be listed is read without them.          *)
listThreads ==
  /\ Loop("threads") /\ UNCHANGED <<life, jobs>>
  /\ LET c == Head(scan.chans)
         ReadFrom(ts) == scan' = [scan EXCEPT !.at = "read", !.left = <<c>> \o ts]
     IN \/ \E ts \in ThreadsOf(c) : ReadFrom(ts) /\ UNCHANGED budget
        \/ ReadFrom(<<>>) /\ Fault

(* The oldest events after the last one read, as many as fit in a page.    *)
Pages(s, n) ==
  {P \in SUBSET EventsAfter(s, n) :
     /\ Cardinality(P) = Min({PageLimit, Cardinality(EventsAfter(s, n))})
     /\ \A e \in P, f \in EventsAfter(s, n) \ P : e.seq <= f.seq}
(* Mutant: the stream's own number is taken for the last one read.         *)
MutantListStreamEvents(failed) ==
  /\ Loop("read")
  /\ \/ LET s == Head(scan.left) IN
        \E P \in Pages(s, last[s]) :
          /\ scan' = [scan EXCEPT !.at = "page", !.page = P, !.max = Len(messages[s])]
          /\ UNCHANGED <<life, jobs, budget>>
     \/ failed
listStreamEvents(failed) ==
  /\ Loop("read")
  /\ \/ LET s == Head(scan.left) IN
        \E P \in Pages(s, last[s]) :
          LET top == Max({e.seq : e \in P} \cup {last[s]}) IN
          /\ scan' = [scan EXCEPT !.at = "page", !.page = P, !.max = top,
                                  !.cut = {e \in EventsAfter(s, last[s]) \ P : e.seq = top}]
          /\ UNCHANGED <<life, jobs, budget>>
     \/ failed

(* What was cut off a group of events at the end of a page is not read.    *)
EndOfPage(unread) ==
  LET left == Tail(scan.left)
      chans == IF left = <<>> THEN Tail(scan.chans) ELSE scan.chans
  IN /\ life.up /\ scan.at = "page" /\ scan.page = {} /\ Handling = {}
     /\ last' = [last EXCEPT ![Head(scan.left)] = scan.max]
     /\ outcomes' = outcomes \cup {Outcome(e, "cut") : e \in unread}
     /\ scan' = [scan EXCEPT !.left = left, !.chans = chans, !.cut = {}, !.max = 0,
                             !.at = IF left # <<>> THEN "read" ELSE Round(chans)]
     /\ UNCHANGED <<program, life, resolving, server, jobs, budget, seen, from>>

NextOf(P) == {e \in P : \A f \in P : e.seq <= f.seq}

(***************************************************************************)
(* Invocations of the poet and the weather agent: a command, a mention, or *)
(* any message of somebody else in a private channel or a thread of one.   *)
(* The key is noted before the work begins.                                *)
(***************************************************************************)
Wanted(e) == IF e.kind = "message" THEN InPrivate(e.on) /\ MessageOf(e).by # Me
             ELSE e.kind = "mention" => MessageOf(e).by # Me
(* Mutant: an invocation seen before is taken up again.                    *)
MutantTake ==
  /\ life.up /\ scan.at = "page" /\ jobs = {}
  /\ \E e \in NextOf(scan.page) :
       /\ scan' = [scan EXCEPT !.page = @ \ {e}]
       /\ IF Wanted(e) THEN seen' = seen \cup {e} /\ jobs' = {NewJob(e, "reply", "load", e.on)}
          ELSE UNCHANGED <<seen, jobs>>
  /\ UNCHANGED <<program, life, resolving, server, budget, last, from, outcomes>>
Take ==
  /\ life.up /\ scan.at = "page" /\ jobs = {}
  /\ \E e \in NextOf(scan.page) :
       /\ scan' = [scan EXCEPT !.page = @ \ {e}]
       /\ IF Wanted(e) /\ e \notin seen
          THEN seen' = seen \cup {e} /\ jobs' = {NewJob(e, "reply", "load", e.on)}
          ELSE UNCHANGED <<seen, jobs>>
  /\ UNCHANGED <<program, life, resolving, server, budget, last, from, outcomes>>

(* The prompt is read from the message and the answer composed.            *)
Compose(j, skipped, reply) ==
  /\ j.at = "load" /\ UNCHANGED <<frame, server>>
  /\ \/ Becomes(j, IF skipped THEN Ends(j, "skipped") ELSE reply) /\ UNCHANGED budget
     \/ Unsent(j)
(* A thread is opened for a command or a mention in a channel.             *)
postPoemReply(j) == [j EXCEPT !.at = IF j.key.kind = "message" \/ IsThread(j.to) THEN "append" ELSE "thread"]
resolvePrompt(j) == Compose(j, j.key.kind = "message" /\ ~MessageOf(j.key).text, postPoemReply(j))
postWeatherReply(j) == postPoemReply(j)
resolveWeatherArgs(j) == Compose(j, FALSE, postWeatherReply(j))

(* The invocation is forgotten, to be tried again, if it waits for a       *)
(* decision - but the loop does not come back to it.                       *)
Forgotten(j) == j.req # 0 /\ (IF j.key.kind = "command" THEN j.out = "pending" ELSE j.out \in {"pending", "denied", "refused"})
Finished(j) ==
  /\ j.at = "done" /\ j.stage = "reply" /\ jobs' = {}
  /\ Note(j.key, j.out)
  /\ seen' = IF Forgotten(j) THEN seen \ {j.key} ELSE seen
  /\ IF j.out = "thrown" THEN ScanTo("idle") ELSE UNCHANGED scan
  /\ UNCHANGED <<frame, server, budget, last, from>>

(***************************************************************************)
(* The poem of the hour: at the first tick of a process, at the ticks after *)
(* it as long as they fail, and whenever INTERVAL_MS has passed since.  How *)
(* often that happens is bounded together with what the users post.        *)
(***************************************************************************)
postPeriodicPoem ==
  /\ Loop("periodic") /\ UNCHANGED life
  /\ \/ /\ scan.due /\ jobs' = {[NewJob(None, "periodic", IF Own \in ToSet(channels) THEN "append" ELSE "channel", Own)
                                  EXCEPT !.wait = Own \in ToSet(channels)]}
        /\ ScanTo("poem") /\ UNCHANGED budget
     \/ scan.due /\ ScanTo("idle") /\ Fault /\ UNCHANGED jobs
     \/ ~scan.due /\ ScanTo(Round(scan.chans)) /\ UNCHANGED <<jobs, budget>>
     \/ /\ ~scan.due /\ scan' = [scan EXCEPT !.due = TRUE] /\ UNCHANGED jobs
        /\ budget.posts > 0 /\ budget' = [budget EXCEPT !.posts = @ - 1]
PostedPoem(j) ==
  /\ j.at = "done" /\ j.stage = "periodic" /\ jobs' = {}
  /\ scan' = IF j.out = "thrown" THEN [scan EXCEPT !.at = "idle"] ELSE [scan EXCEPT !.at = Round(scan.chans), !.due = FALSE]
  /\ UNCHANGED <<frame, server, budget, seen, last, from, outcomes>>

(***************************************************************************)
(* The two programs.  Each has a copy of the client and of the loop in its  *)
(* own files; where the copies agree they are one definition here.  The     *)
(* append of the weather agent does not say that its request still waits.   *)
(***************************************************************************)
poetWait(j) == waitForPermissionDecision(j, "pending")
Poet ==
  \/ Registers(registerCommand, "idle") \/ Tick("periodic") \/ postPeriodicPoem
  \/ listThreads \/ listStreamEvents(Abandon) \/ Take \/ EndOfPage({e \in scan.cut : Wanted(e)})
  \/ \E j \in jobs : \/ /\ createThread(j) \/ createChannel(j) \/ openPermissionRequest(j)
                           \/ append(j) \/ poetWait(j) \/ resolvePrompt(j)
                        /\ UNCHANGED pollVars
                     \/ Finished(j) \/ PostedPoem(j)

weatherRegisterCommand == registerCommand
weatherRegisters == Registers(weatherRegisterCommand, "idle")
weatherTick == Tick(Round(channels))
weatherThreads == listThreads
weatherListStreamEvents == listStreamEvents(Abandon)
weatherTake == Take
weatherCreateThread(j) == createThread(j)
weatherOpenPermissionRequest(j) == openPermissionRequest(j)
weatherAppendParts(j) == append(j)
weatherWait(j) == waitForPermissionDecision(j, IF j.back = "append" THEN "refused" ELSE "pending")
weatherFinish(j) == Finished(j)
Weather ==
  \/ weatherRegisters \/ weatherTick \/ weatherThreads \/ weatherListStreamEvents \/ weatherTake \/ EndOfPage({e \in scan.cut : Wanted(e)})
  \/ \E j \in jobs : \/ /\ weatherCreateThread(j) \/ weatherOpenPermissionRequest(j)
                           \/ weatherAppendParts(j) \/ weatherWait(j) \/ resolveWeatherArgs(j)
                        /\ UNCHANGED pollVars
                     \/ weatherFinish(j)
====

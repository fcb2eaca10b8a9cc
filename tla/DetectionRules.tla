--------------------------- MODULE DetectionRules ---------------------------
(***************************************************************************)
(* rules.rs: the mailbox through which every source's detection task and   *)
(* the rule handlers reach the one rule task, and the engine's cooldown.   *)
(* One rule id is modelled; what a rule matches on is a free choice of     *)
(* each evaluation.  A match spawns a batch of actions: ActionExecutor.    *)
(***************************************************************************)
EXTENDS Integers, Sequences, FiniteSets

CONSTANTS
    Detectors,          \* sources whose consumers ask for evaluations
    Admins,             \* rule requests: one command each
    QueueCapacity,      \* EVALUATE_QUEUE_CAPACITY
    Cooldown,           \* cooldown_sec of the rule
    ClockBound,         \* bound: ticks of the pipeline's clock
    PushBound           \* bound: evaluations pushed

Never == -1

ASSUME RulesAssumption ==
    /\ Detectors \cap Admins = {} /\ IsFiniteSet(Detectors) /\ IsFiniteSet(Admins)
    /\ QueueCapacity \in Nat \ {0} /\ Cooldown \in Nat
    /\ ClockBound \in Nat /\ PushBound \in Nat

VARIABLES
    clock,              \* rule_started_at.elapsed()
    stamp,              \* the time a consumer has read for its evaluation, or Never
    commands, pendingEvaluations,   \* RuleMailboxState
    pushes,             \* commands pushed so far: numbers them
    toNotify,           \* who has pushed and not yet called notify_one
    ruleTask, mailPermit,           \* the rule task, and notify's permit
    admin,              \* the rule requests
    rule,               \* the rule is in the engine
    lastTriggered,      \* DetectionRule.last_triggered
    lastFired           \* ghost: when the rule last matched since it was added

mailbox == <<commands, pendingEvaluations, pushes, toNotify>>
waiter == <<ruleTask, mailPermit>>
engine == <<rule, lastTriggered, lastFired>>
rulesVars == <<clock, stamp, mailbox, waiter, admin, engine>>

Ops == {"add", "update", "remove", "read"}
Times == 0 .. ClockBound
Command == [op : Ops \cup {"evaluate"}, from : Detectors \cup Admins, at : Times, n : Nat]

RulesTypeOK ==
    /\ clock \in Times /\ stamp \in [Detectors -> Times \cup {Never}]
    /\ commands \in Seq(Command) /\ pendingEvaluations \in 0 .. QueueCapacity
    /\ pushes \in Nat /\ toNotify \subseteq Detectors \cup Admins
    /\ ruleTask \in {"look", "park", "wait"} /\ mailPermit \in BOOLEAN
    /\ admin \in [Admins -> {"idle", "asked", "answered"}]
    /\ rule \in BOOLEAN
    /\ lastTriggered \in Times \cup {Never} /\ lastFired \in Times \cup {Never}

\* The rule is one restored from the configuration.
RulesInit ==
    /\ clock = 0 /\ stamp = [s \in Detectors |-> Never]
    /\ commands = <<>> /\ pendingEvaluations = 0 /\ pushes = 0 /\ toNotify = {}
    /\ ruleTask = "look" /\ mailPermit = FALSE
    /\ admin = [a \in Admins |-> "idle"]
    /\ rule = TRUE /\ lastTriggered = Never /\ lastFired = Never

-----------------------------------------------------------------------------
\* The mailbox.

Evaluations(q) == {q[i] : i \in {j \in DOMAIN q : q[j].op = "evaluate"}}

\* The commands of q outside victims, in their order: the k-th is the one at the
\* place that has k places kept up to it.
Without(q, victims) ==
    LET kept == {i \in DOMAIN q : q[i] \notin victims}
        rank(i) == Cardinality({j \in kept : j <= i})
    IN  [k \in 1 .. Cardinality(kept) |-> q[CHOOSE i \in kept : rank(i) = k]]

\* The evaluations a later one of the same source makes superfluous.
Superseded(q) ==
    {c \in Evaluations(q) : \E d \in Evaluations(q) : d.from = c.from /\ d.n > c.n}

\* Of the ones left, the same source's; else, if the queue is still full, the oldest.
Displaced(q, s) ==
    LET evals == Evaluations(q)
        own == {c \in evals : c.from = s}
    IN  IF own # {} \/ Cardinality(evals) < QueueCapacity THEN own
        ELSE {c \in evals : \A d \in evals : c.n <= d.n}

\* Mutant: the oldest evaluation goes, whosever it is.
MakeRoomOldest(s) ==
    IF pendingEvaluations < QueueCapacity THEN commands
    ELSE Without(commands, {c \in Evaluations(commands) :
                               \A d \in Evaluations(commands) : c.n <= d.n})

\* Mutant: the oldest command goes, whatever it is.
MakeRoomAtFront(s) ==
    IF pendingEvaluations < QueueCapacity THEN commands ELSE Tail(commands)

MakeRoom(s) ==
    IF pendingEvaluations < QueueCapacity THEN commands
    ELSE LET compacted == Without(commands, Superseded(commands))
         IN  Without(compacted, Displaced(compacted, s))

\* A detection's time is read before it is pushed.
ReadClock(s) ==
    /\ stamp[s] = Never /\ s \notin toNotify
    /\ stamp' = [stamp EXCEPT ![s] = clock]
    /\ UNCHANGED <<clock, mailbox, waiter, admin, engine>>

PushEvaluate(s) ==
    /\ stamp[s] # Never
    /\ pushes < PushBound + Cardinality({a \in Admins : admin[a] # "idle"})
    /\ LET room == MakeRoom(s)
           command == [op |-> "evaluate", from |-> s, at |-> stamp[s], n |-> pushes + 1]
       IN  /\ commands' = Append(room, command)
           /\ pendingEvaluations' = pendingEvaluations + 1 - (Len(commands) - Len(room))
    /\ pushes' = pushes + 1
    /\ toNotify' = toNotify \cup {s}
    /\ stamp' = [stamp EXCEPT ![s] = Never]
    /\ UNCHANGED <<clock, waiter, admin, engine>>

\* add_rule, update_rule, remove_rule, get_rule and list_rules.
PushCommand(a) ==
    /\ admin[a] = "idle"
    /\ \E op \in Ops :
          commands' = Append(commands, [op |-> op, from |-> a, at |-> 0, n |-> pushes + 1])
    /\ pushes' = pushes + 1
    /\ toNotify' = toNotify \cup {a}
    /\ admin' = [admin EXCEPT ![a] = "asked"]
    /\ UNCHANGED <<clock, stamp, pendingEvaluations, waiter, engine>>

\* notify_one, after the lock is released.
NotifyRuleTask(p) ==
    /\ p \in toNotify
    /\ toNotify' = toNotify \ {p}
    /\ IF ruleTask = "wait" THEN ruleTask' = "look" /\ UNCHANGED mailPermit
       ELSE mailPermit' = TRUE /\ UNCHANGED ruleTask
    /\ UNCHANGED <<clock, stamp, commands, pendingEvaluations, pushes, admin, engine>>

FindEmpty ==
    /\ ruleTask = "look" /\ commands = <<>>
    /\ ruleTask' = "park"
    /\ UNCHANGED <<clock, stamp, mailbox, mailPermit, admin, engine>>

AwaitNotified ==
    /\ ruleTask = "park"
    /\ ruleTask' = IF mailPermit THEN "look" ELSE "wait"
    /\ mailPermit' = FALSE
    /\ UNCHANGED <<clock, stamp, mailbox, admin, engine>>

-----------------------------------------------------------------------------
\* The rule task.

\* check_cooldown: an evaluation stamped before the last match does not match.
CooledDown(at) ==
    Cooldown = 0 \/ lastTriggered = Never \/ at - lastTriggered >= Cooldown

Evaluate ==
    /\ ruleTask = "look" /\ commands # <<>>
    /\ LET c == Head(commands)
       IN  /\ c.op = "evaluate"
           /\ \/ /\ rule /\ CooledDown(c.at)
                 /\ lastTriggered' = c.at /\ lastFired' = c.at
              \/ UNCHANGED <<lastTriggered, lastFired>>
    /\ commands' = Tail(commands) /\ pendingEvaluations' = pendingEvaluations - 1
    /\ UNCHANGED <<clock, stamp, pushes, toNotify, waiter, admin, rule>>

\* Mutant: the rule a client sends replaces the engine's, cooldown and all.
ApplyForgetting(op) ==
    /\ rule' = IF op = "read" THEN rule ELSE op # "remove"
    /\ lastTriggered' = IF op \in {"add", "update"} THEN Never ELSE lastTriggered
    /\ lastFired' = IF op = "add" THEN Never ELSE lastFired

\* update_rule keeps last_triggered; add_rule and remove_rule forget it.
Apply(op) ==
    /\ rule' = IF op = "read" THEN rule ELSE op # "remove"
    /\ lastTriggered' = IF op \in {"add", "remove"} THEN Never ELSE lastTriggered
    /\ lastFired' = IF op \in {"add", "remove"} THEN Never ELSE lastFired

Serve ==
    /\ ruleTask = "look" /\ commands # <<>>
    /\ LET c == Head(commands)
       IN  /\ c.op \in Ops
           /\ Apply(c.op)
           /\ admin' = [admin EXCEPT ![c.from] = "answered"]
    /\ commands' = Tail(commands)
    /\ UNCHANGED <<clock, stamp, pendingEvaluations, pushes, toNotify, waiter>>

-----------------------------------------------------------------------------
TickClock ==
    /\ clock < ClockBound
    /\ clock' = clock + 1
    /\ UNCHANGED <<stamp, mailbox, waiter, admin, engine>>

-----------------------------------------------------------------------------
RuleTaskStep == FindEmpty \/ AwaitNotified \/ Evaluate \/ Serve

RulesNext ==
    \/ \E s \in Detectors : ReadClock(s) \/ PushEvaluate(s)
    \/ \E a \in Admins : PushCommand(a)
    \/ \E p \in Detectors \cup Admins : NotifyRuleTask(p)
    \/ RuleTaskStep
    \/ TickClock

\* The runtime polls the rule task, and whoever has to notify it.
RulesFair ==
    /\ WF_rulesVars(RuleTaskStep)
    /\ \A p \in Detectors \cup Admins : WF_rulesVars(NotifyRuleTask(p))

RulesSpec == RulesInit /\ [][RulesNext]_rulesVars

-----------------------------------------------------------------------------
\* Properties.

\* pending_evaluations, counted by hand at every push, pop and removal, is the
\* number of evaluations in the queue and never exceeds its capacity.
PendingIsExact ==
    /\ pendingEvaluations = Cardinality(Evaluations(commands))
    /\ pendingEvaluations <= QueueCapacity

\* full_evaluate_queue_keeps_only_each_sources_latest_request (rules.rs:1003):
\* the newest evaluation of a source leaves the queue only when it is evaluated,
\* replaced by a newer one, or crowded out while as many other sources as the
\* queue has room for wait with one each.
Newest(q) == Evaluations(q) \ Superseded(q)

NewestIsKept ==
    [][\A c \in Newest(commands) :
          \/ c \in Evaluations(commands')
          \/ c = Head(commands) /\ commands' = Tail(commands)
          \/ \E d \in Evaluations(commands') : d.from = c.from /\ d.n > c.n
          \/ Cardinality({d.from : d \in Evaluations(commands')}) = QueueCapacity]_rulesVars

\* crud_and_evaluate_follow_one_command_order (rules.rs:963): making room drops
\* evaluations only, and keeps the order in which commands were pushed.
CommandsInOrder ==
    /\ \A i, j \in DOMAIN commands : i < j => commands[i].n < commands[j].n
    /\ \A a \in Admins : admin[a] = "asked" <=> \E i \in DOMAIN commands : commands[i].from = a

\* Two matches of a rule are a cooldown apart, although evaluations of several
\* sources reach the engine in another order than their times, and an update
\* replaces the rule in between.  A rule without a cooldown matches every time.
CooldownHolds ==
    [][lastFired' \notin {lastFired, Never} =>
          \/ Cooldown = 0 \/ lastFired = Never
          \/ lastFired' >= lastFired + Cooldown]_rulesVars

\* slow_action_future_does_not_block_evaluation_or_crud (rules.rs:1066): every
\* rule request is answered: no wake-up is lost, and no flood of evaluations
\* displaces it.
RequestIsAnswered == \A a \in Admins : admin[a] = "asked" ~> admin[a] = "answered"
=============================================================================

-------------------------------- MODULE Memory --------------------------------
(***************************************************************************)
(* Graph memory (memory.py, store.lock, sessions.migrate_project_graph):    *)
(* one graph file, written by commands of several captains under its lock.  *)
(*                                                                          *)
(* "project" memory gathers facts, was written by older captains under      *)
(* other identities and in another root, and is copied from there once.     *)
(* "repo" memory asks for a reason and holds one object of a single-valued  *)
(* relation; "user" memory holds one object of every relation, up to a cap, *)
(* and forgets.  Changing a fact of either is an explicit supersede.        *)
(***************************************************************************)
EXTENDS Naturals, FiniteSets

CONSTANTS
    Captains,           \* commands that run at once
    Labels,             \* subjects and objects
    Reasons,            \* what --because says
    UserLimit,          \* [memory] user_limit, in facts
    MaxFacts            \* facts at which no more new ones are asked for

ASSUME MemoryAssumption == UserLimit \in Nat /\ MaxFacts \in Nat

VARIABLES
    scope,              \* which graph it is
    file,               \* the graph file: whether it is there, or cut short, and its graph
    source,             \* the project graph an older captain left in the temp root
    told,               \* what the file should say, from what commands reported
    writer,             \* who holds its lock
    command             \* per captain: its command, how far it is, the graph it read

memoryVars == <<scope, file, source, told, writer, command>>

Relations == {"decided", "convention"}
NoReason == "none"
Fact == [subject: Labels, relation: Relations, object: Labels, why: Reasons \cup {NoReason}]
FactOf(s) == {f \in Fact : /\ (f.why # NoReason) = (s = "repo")
                           /\ s = "project" => f.relation = "convention"}

\* An identity hashes the label, in older graphs the file's path too.
node_id(label) == <<"label", label>>
OldId(label) == <<"path", label>>

Edge(f) == [source |-> node_id(f.subject), target |-> node_id(f.object),
            relation |-> f.relation, why |-> f.why]
Node(label) == [id |-> node_id(label), label |-> label]
Empty == [nodes |-> {}, links |-> {}]
Absent == [state |-> "absent", graph |-> Empty]
Partial == [state |-> "partial", graph |-> Empty]
Whole(graph) == [state |-> "whole", graph |-> graph]

\* An older captain's graph of these facts.
OldGraph(facts) ==
    [nodes |-> {[id |-> OldId(l), label |-> l] : l \in UNION {{f.subject, f.object} : f \in facts}},
     links |-> {[source |-> OldId(f.subject), target |-> OldId(f.object),
                 relation |-> f.relation, why |-> f.why] : f \in facts}]

NoCommand == [step |-> "idle", op |-> "add", fact |-> CHOOSE f \in Fact : TRUE, graph |-> Empty]

MemoryInit ==
    /\ scope \in {"project", "repo", "user"}
    /\ file = Absent
    /\ source \in {Empty} \cup
          (IF scope = "project" THEN {OldGraph({f}) : f \in FactOf(scope)} ELSE {})
    /\ told = {}
    /\ writer = {}
    /\ command = [c \in Captains |-> NoCommand]

exists == file.state # "absent"

-----------------------------------------------------------------------------
(* What a graph says, and the functions that change one.                    *)

Label(graph, id) == {n.label : n \in {m \in graph.nodes : m.id = id}}
Rows(graph) ==
    UNION {{[subject |-> s, relation |-> l.relation, object |-> o, why |-> l.why] :
               s \in Label(graph, l.source), o \in Label(graph, l.target)} : l \in graph.links}

\* Old identities become label hashes, in the nodes and in every link that names one.
Rekey(graph, id) ==
    IF \E n \in graph.nodes : n.id = id
    THEN node_id((CHOOSE n \in graph.nodes : n.id = id).label) ELSE id
migrate_graph(graph) ==
    [nodes |-> {Node(n.label) : n \in graph.nodes},
     links |-> {[l EXCEPT !.source = Rekey(graph, @), !.target = Rekey(graph, @)] :
                   l \in graph.links}]

Single(relation) == scope = "user" \/ relation = "decided"
matches(graph, edge) ==
    {l \in graph.links : /\ l.source = edge.source /\ l.relation = edge.relation
                         /\ Single(edge.relation) \/ l.target = edge.target}

\* Only the endpoints of what is left.
live_nodes(links, nodes) ==
    {n \in nodes : \E l \in links : n.id \in {l.source, l.target}}

add_memory(graph, f) ==
    LET current == migrate_graph(graph)
    IN [nodes |-> current.nodes \cup {Node(f.subject), Node(f.object)},
        links |-> current.links \cup {Edge(f)}]

Replaced(graph, f) ==
    LET links == (graph.links \ matches(graph, Edge(f))) \cup {Edge(f)}
    IN [links |-> links,
        nodes |-> live_nodes(links, graph.nodes \cup {Node(f.subject), Node(f.object)})]
Forgotten(graph, f) ==
    LET links == graph.links \ matches(graph, Edge(f))
    IN [links |-> links, nodes |-> live_nodes(links, graph.nodes)]

-----------------------------------------------------------------------------
(* Commands: each takes the lock, reads, writes the whole file or refuses.  *)

\* What a write of f replaces, of the facts that were recorded.
Superseded(f) ==
    {g \in told : /\ g.subject = f.subject /\ g.relation = f.relation
                  /\ Single(f.relation) \/ g.object = f.object}

Unlocked == TRUE
Free == writer = {}
Step(c, step) == command' = [command EXCEPT ![c].step = step]
End(c) == command' = [command EXCEPT ![c] = NoCommand]
Leave(c) == End(c) /\ writer' = {}

Ops == CASE scope = "project" -> {"add"}
         [] scope = "repo"    -> {"add", "supersede"}
         [] scope = "user"    -> {"add", "supersede", "forget"}

\* Opening the session first brings the project graph over, if it is not there yet.
Begin(c, op, f) ==
    /\ command[c].step = "idle"
    /\ Cardinality(told) < MaxFacts \/ Superseded(f) # {}
    /\ command' = [command EXCEPT ![c] =
          [step |-> IF source # Empty /\ ~exists THEN "migrate" ELSE "ask",
           op |-> op, fact |-> f, graph |-> Empty]]
    /\ UNCHANGED <<scope, file, source, told, writer>>

\* Asked again under the lock; the copy is not atomic, and its failure is passed over.
CopyFile(c) ==
    /\ command[c].step = "migrate" /\ Free
    /\ IF exists THEN Step(c, "ask") /\ UNCHANGED <<file, writer>>
       ELSE file' = Partial /\ writer' = {c} /\ Step(c, "copying")
    /\ UNCHANGED <<scope, source, told>>
CopyEnds(c) ==
    /\ command[c].step = "copying"
    /\ file' = Whole(source) /\ writer' = {}
    /\ told' = told \cup Rows(source)
    /\ Step(c, "ask")
    /\ UNCHANGED <<scope, source>>
MigrationFails(c) ==
    /\ command[c].step = "migrate"
    /\ Step(c, "ask")
    /\ UNCHANGED <<scope, file, source, told, writer>>

\* Read under the lock: an absent file is the empty graph, one cut short an error.
Read(c) ==
    /\ command[c].step = "ask" /\ Free
    /\ IF file = Partial THEN End(c) /\ UNCHANGED writer
       ELSE /\ command' = [command EXCEPT ![c].step = "write", ![c].graph = file.graph]
            /\ writer' = {c}
    /\ UNCHANGED <<scope, file, source, told>>

Add(c) ==
    /\ scope = "project"
    /\ file' = Whole(add_memory(command[c].graph, command[c].fact))
    /\ told' = told \cup {command[c].fact}

\* The same fact is written already; another needs --supersede, and room.
Refused(graph, op, f) ==
    LET existing == matches(graph, Edge(f))
    IN \/ Edge(f) \in existing
       \/ existing # {} /\ op = "add"
       \/ scope = "user" /\ Cardinality(Replaced(graph, f).links) > UserLimit
Upsert(c) ==
    LET graph == command[c].graph
        f == command[c].fact
    IN /\ scope # "project" /\ command[c].op # "forget"
       /\ IF Refused(graph, command[c].op, f) THEN UNCHANGED <<file, told>>
          ELSE /\ file' = Whole(Replaced(graph, f))
               /\ told' = (told \ Superseded(f)) \cup {f}
Forget(c) ==
    /\ command[c].op = "forget"
    /\ IF matches(command[c].graph, Edge(command[c].fact)) = {} THEN UNCHANGED <<file, told>>
       ELSE /\ file' = Whole(Forgotten(command[c].graph, command[c].fact))
            /\ told' = told \ Superseded(command[c].fact)

Write(c) ==
    /\ command[c].step = "write"
    /\ Add(c) \/ Upsert(c) \/ Forget(c)
    /\ Leave(c)
    /\ UNCHANGED <<scope, source>>

\* A killed command drops the lock.
Dies(c) ==
    /\ command[c].step # "idle"
    /\ End(c) /\ writer' = writer \ {c}
    /\ UNCHANGED <<scope, file, source, told>>

MemoryNext ==
    \E c \in Captains :
       \/ \E op \in Ops, f \in FactOf(scope) : Begin(c, op, f)
       \/ CopyFile(c) \/ CopyEnds(c) \/ MigrationFails(c)
       \/ Read(c) \/ Write(c) \/ Dies(c)

MemorySpec == MemoryInit /\ [][MemoryNext]_memoryVars

-----------------------------------------------------------------------------
(* A readable graph says what was recorded and not since superseded or      *)
(* forgotten, once each, whoever else wrote and whatever died; a change of  *)
(* one fact takes no other out of sight with the nodes they share, and a    *)
(* single-valued relation has one object (memory.py:212, 434, 484).         *)
OneFact ==
    file # Partial =>
       /\ Rows(file.graph) = told
       /\ Cardinality(file.graph.links) = Cardinality(told)
       /\ scope # "project" =>
             /\ \A f, g \in told : f.subject = g.subject /\ f.relation = g.relation
                                      => f = g \/ ~Single(f.relation)
             /\ Cardinality(told) <= UserLimit \/ scope = "repo"

=============================================================================

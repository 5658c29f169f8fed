---------------------------- MODULE Pipelines ----------------------------
(* Multi-agent pipelines: the load-time validator (config/pipeline_validator.go) and the
   executor (engine/pipeline.go) on the same definition, for the three topologies.

   A definition is [header, topology, agents, edges]: whether apiVersion, kind and name
   are valid, a sequence of [id, ref] and one of [from, to, when].  `when` is the guard
   when_contains: "" for none, "blank" for one of white space only, "word" for another.
   The text of an answer is abstracted to the guards of the definition it contains.  What
   the engine answers a node is external here: a text, or an error.                     *)
EXTENDS Integers, FiniteSets, Sequences, SequencesExt

CONSTANT Definitions    \* the definitions that are loaded and run

VARIABLES def,      \* the definition
          stage,    \* "new", "running", "done"
          err,      \* the error the run returns: "", "node", "cycle", "unknown", "invalid"
          nodes,    \* res.Nodes: a sequence of [id, input, ok, holds]
          visited,  \* node ids the graph walk has entered
          stack,    \* its frames: [id, at, edge], edge the next outgoing edge
          root,     \* index of the agent the root loop, or runSequential, is at
          results   \* runParallel: the results, by index of the agent

pvars == <<def, stage, err, nodes, visited, stack, root, results>>

UserMsg == 0        \* input of a node fed by the caller; k > 0: the content of nodes[k]

Ids(d) == {d.agents[i].id : i \in 1 .. Len(d.agents)}
EdgeSet(d) == {d.edges[i] : i \in 1 .. Len(d.edges)}
Guards(d) == {e.when : e \in EdgeSet(d)} \ {""}

---------------------------------------------------------------------------
(* The validator. *)

(* validatePipelineSpec: a known topology, agents with distinct ids and refs, edges only
   in a graph, between declared and distinct nodes, no blank guard, none twice.          *)
validatePipelineSpec(d) ==
  /\ d.topology \in {"sequential", "parallel", "graph"}
  /\ d.agents # <<>>
  /\ \A i \in 1 .. Len(d.agents) :
       /\ d.agents[i].id # "" /\ d.agents[i].ref # ""
       /\ \A j \in 1 .. i - 1 : d.agents[j].id # d.agents[i].id
  /\ d.edges # <<>> => d.topology = "graph"
  /\ \A i \in 1 .. Len(d.edges) :
       /\ d.edges[i].from \in Ids(d) /\ d.edges[i].to \in Ids(d)
       /\ d.edges[i].from # d.edges[i].to
       /\ d.edges[i].when # "blank"
       /\ \A j \in 1 .. i - 1 : d.edges[j] # d.edges[i]

(* The adjacency of validatePipelineGraph: no unknown endpoint, no self-loop. *)
forward(d, n) ==
  LET real == SelectSeq(d.edges, LAMBDA e : /\ e.from = n /\ e.to \in Ids(d)
                                            /\ e.from # e.to)
  IN [i \in 1 .. Len(real) |-> real[i].to]

inDegree(d, n) ==
  Cardinality({i \in 1 .. Len(d.edges) : /\ d.edges[i].to = n /\ d.edges[i].from # n
                                         /\ d.edges[i].from \in Ids(d)})

(* detectPipelineCycle: the three-colour depth-first search; c.found is cycleFound. *)
RECURSIVE dfs(_, _, _)
dfs(d, n, c) ==
  LET visit(acc, m) ==
        IF acc.found THEN acc
        ELSE CASE acc.color[m] = "gray"  -> [acc EXCEPT !.found = TRUE]
               [] acc.color[m] = "white" -> dfs(d, m, acc)
               [] OTHER -> acc
      after == FoldLeft(visit, [c EXCEPT !.color[n] = "gray"], forward(d, n))
  IN IF after.found THEN after ELSE [after EXCEPT !.color[n] = "black"]

detectPipelineCycle(d) ==
  LET start(c, a) == IF ~ c.found /\ c.color[a.id] = "white" THEN dfs(d, a.id, c) ELSE c
  IN FoldLeft(start, [found |-> FALSE, color |-> [n \in Ids(d) |-> "white"]], d.agents).found

(* The reachability pass: breadth first from every node of in-degree zero. *)
RECURSIVE reach(_, _)
reach(d, from) ==
  LET next == from \cup UNION {{forward(d, n)[i] : i \in DOMAIN forward(d, n)} : n \in from}
  IN IF next = from THEN from ELSE reach(d, next)

unreachable(d) ==
  LET sources == {n \in Ids(d) : inDegree(d, n) = 0}
  IN IF sources = {} THEN {} ELSE Ids(d) \ reach(d, sources)

validatePipelineGraph(d) ==
  d.topology = "graph" /\ d.agents # <<>> =>
    ~ detectPipelineCycle(d) /\ unreachable(d) = {}

validatePipelineHeader(d) == d.header

ValidatePipeline(d) == validatePipelineHeader(d) /\ validatePipelineSpec(d) /\ validatePipelineGraph(d)

---------------------------------------------------------------------------
(* The executor. *)

outgoing(d, n) == SelectSeq(d.edges, LAMBDA e : e.from = n)

(* runGraph's indegree: edges between known nodes, self-loops apart. *)
indegreeAll(d, n) ==
  Cardinality({i \in 1 .. Len(d.edges) : d.edges[i].to = n})

indegree(d, n) ==
  Cardinality({i \in 1 .. Len(d.edges) : /\ d.edges[i].to = n /\ d.edges[i].from # n
                                         /\ d.edges[i].from \in Ids(d)})

(* cyclicNodes: Kahn's algorithm.  remaining maps the ids left to their counts; peeling
   the head of the queue lowers the count of each target still there.                    *)
RECURSIVE peel(_, _, _)
peel(d, queue, remaining) ==
  IF queue = <<>> THEN DOMAIN remaining
  ELSE LET id == Head(queue)
           lower(acc, e) ==
             IF e.from = e.to \/ e.to \notin DOMAIN acc.left THEN acc
             ELSE [left |-> [acc.left EXCEPT ![e.to] = @ - 1],
                   queue |-> IF acc.left[e.to] = 1 THEN Append(acc.queue, e.to) ELSE acc.queue]
           next == FoldLeft(lower,
                            [left |-> [n \in DOMAIN remaining \ {id} |-> remaining[n]],
                             queue |-> Tail(queue)],
                            outgoing(d, id))
       IN peel(d, next.queue, next.left)

cyclicNodes(d) ==
  peel(d, SetToSeq({n \in Ids(d) : indegree(d, n) = 0}), [n \in Ids(d) |-> indegree(d, n)])

(* The last agent with an id is the node of that id. *)
nodeByID(d, id) ==
  d.agents[CHOOSE i \in 1 .. Len(d.agents) : /\ d.agents[i].id = id
                                             /\ \A j \in i + 1 .. Len(d.agents) : d.agents[j].id # id]

(* invokeNode: a node without ref fails without a call; otherwise the engine answers, or
   fails (an unknown agent, an injected fault, a cancelled context).                     *)
invokeNode(node, input) ==
  {[id |-> node.id, input |-> input, ok |-> FALSE, holds |-> {}]}
    \cup (IF node.ref = "" THEN {}
          ELSE {[id |-> node.id, input |-> input, ok |-> TRUE, holds |-> h] : h \in SUBSET Guards(def)})

PInit ==
  /\ def \in Definitions
  /\ stage = "new" /\ err = ""
  /\ nodes = <<>> /\ visited = {} /\ stack = <<>> /\ root = 1
  /\ results = <<>>

Return(e) == stage' = "done" /\ err' = e

(* RunContext up to the first node: no agents, an unknown topology and a cyclic graph are
   refused before anything runs.                                                         *)
Begin ==
  /\ stage = "new"
  /\ \/ /\ \/ def.agents = <<>>
           \/ def.topology \notin {"sequential", "", "parallel", "graph"}
        /\ Return("invalid")
     \/ /\ def.agents # <<>> /\ def.topology = "graph" /\ cyclicNodes(def) # {}
        /\ Return("cycle")
     \/ /\ def.agents # <<>>
        /\ \/ def.topology \in {"sequential", "", "parallel"}
           \/ def.topology = "graph" /\ cyclicNodes(def) = {}
        /\ stage' = "running" /\ UNCHANGED err
  /\ UNCHANGED <<def, nodes, visited, stack, root, results>>

(* runSequential: each node is fed the content of the one before. *)
Sequential ==
  /\ stage = "running" /\ def.topology \in {"sequential", ""}
  /\ \E nr \in invokeNode(def.agents[root], Len(nodes)) :
       /\ nodes' = Append(nodes, nr)
       /\ root' = root + 1
       /\ CASE ~ nr.ok -> Return("node")
            [] nr.ok /\ root = Len(def.agents) -> Return("")
            [] OTHER -> UNCHANGED <<stage, err>>
  /\ UNCHANGED <<def, visited, stack, results>>

(* One goroutine of runParallel stores its result under its index. *)
ParallelNode(i) ==
  /\ stage = "running" /\ def.topology = "parallel"
  /\ i \in 1 .. Len(def.agents) /\ i \notin DOMAIN results
  /\ \E nr \in invokeNode(def.agents[i], UserMsg) :
       results' = [j \in DOMAIN results \cup {i} |-> IF j = i THEN nr ELSE results[j]]
  /\ UNCHANGED <<def, stage, err, nodes, visited, stack, root>>

(* After wg.Wait: the results in definition order, with the errors joined. *)
ParallelJoin ==
  /\ stage = "running" /\ def.topology = "parallel"
  /\ DOMAIN results = 1 .. Len(def.agents)
  /\ nodes' = [i \in 1 .. Len(def.agents) |-> results[i]]
  /\ Return(IF \E i \in DOMAIN results : ~ results[i].ok THEN "node" ELSE "")
  /\ UNCHANGED <<def, visited, stack, root, results>>

(* walk(id, input): a visited node is left alone, an unknown one is an error, a known one
   is invoked and its frame pushed.  stackAfter is the caller's stack, already moved past
   the edge that is being followed.                                                      *)
walk(id, input, stackAfter) ==
  \/ /\ id \in visited
     /\ stack' = stackAfter /\ UNCHANGED <<visited, nodes, stage, err>>
  \/ /\ id \notin visited /\ id \notin Ids(def)
     /\ visited' = visited \cup {id} /\ stack' = stackAfter
     /\ Return("unknown") /\ UNCHANGED nodes
  \/ /\ id \notin visited /\ id \in Ids(def)
     /\ visited' = visited \cup {id}
     /\ \E nr \in invokeNode(nodeByID(def, id), input) :
          /\ nodes' = Append(nodes, nr)
          /\ IF nr.ok
             THEN /\ stack' = Append(stackAfter, [id |-> id, at |-> Len(nodes) + 1, edge |-> 1])
                  /\ UNCHANGED <<stage, err>>
             ELSE stack' = stackAfter /\ Return("node")

(* The next edge of the innermost frame: its guard is looked up in the node's own answer. *)
GraphEdge ==
  /\ stage = "running" /\ def.topology = "graph" /\ stack # <<>>
  /\ LET top == Last(stack)
         out == outgoing(def, top.id)
     IN IF top.edge > Len(out)
        THEN stack' = Front(stack) /\ UNCHANGED <<visited, nodes, stage, err>>
        ELSE LET e == out[top.edge]
                 moved == [stack EXCEPT ![Len(stack)].edge = @ + 1]
             IN IF e.when # "" /\ e.when \notin nodes[top.at].holds
                THEN stack' = moved /\ UNCHANGED <<visited, nodes, stage, err>>
                ELSE walk(e.to, top.at, moved)
  /\ UNCHANGED <<def, root, results>>

(* The loop over the roots, in definition order. *)
GraphRootFirst ==
  /\ stage = "running" /\ def.topology = "graph" /\ stack = <<>>
  /\ IF root > Len(def.agents)
     THEN Return("") /\ UNCHANGED <<visited, nodes, stack, root>>
     ELSE IF indegree(def, def.agents[root].id) = 0
          THEN root' = Len(def.agents) + 1 /\ walk(def.agents[root].id, UserMsg, <<>>)
          ELSE root' = root + 1 /\ UNCHANGED <<visited, nodes, stack, stage, err>>
  /\ UNCHANGED <<def, results>>

GraphRoot ==
  /\ stage = "running" /\ def.topology = "graph" /\ stack = <<>>
  /\ IF root > Len(def.agents)
     THEN Return("") /\ UNCHANGED <<visited, nodes, stack, root>>
     ELSE /\ root' = root + 1
          /\ IF indegree(def, def.agents[root].id) = 0
             THEN walk(def.agents[root].id, UserMsg, <<>>)
             ELSE UNCHANGED <<visited, nodes, stack, stage, err>>
  /\ UNCHANGED <<def, results>>

PNext ==
  \/ Begin \/ Sequential \/ ParallelJoin \/ GraphEdge \/ GraphRoot
  \/ \E i \in 1 .. 3 : ParallelNode(i)

PSpec == PInit /\ [][PNext]_pvars

---------------------------------------------------------------------------
(* Reference definitions over the edges between distinct declared nodes. *)
Arcs(d) == {<<e.from, e.to>> : e \in {e \in EdgeSet(d) : /\ e.from \in Ids(d) /\ e.to \in Ids(d)
                                                         /\ e.from # e.to}}

OnCycle(d) ==
  {n \in Ids(d) : \E k \in 1 .. Cardinality(Ids(d)) :
     \E p \in [1 .. k + 1 -> Ids(d)] : /\ p[1] = n /\ p[k + 1] = n
                                       /\ \A i \in 1 .. k : <<p[i], p[i + 1]>> \in Arcs(d)}

(* runGraph's comment: the executor and the validator "agree on what is cyclic and on
   which nodes are roots - otherwise a pipeline could pass `validate` yet error at runtime
   (or vice versa)".  Depth-first search, Kahn's algorithm and the definition of a cycle
   agree; an acyclic graph has no unreachable node; and a definition that validates is
   never refused and fails only at a node.                                               *)
ValidatorMatchesExecutor ==
  /\ stage = "new" /\ def.topology = "graph" /\ def.agents # <<>> =>
       /\ detectPipelineCycle(def) <=> OnCycle(def) # {}
       /\ cyclicNodes(def) # {} <=> OnCycle(def) # {}
       /\ OnCycle(def) = {} => unreachable(def) = {}
  /\ stage = "done" /\ err \in {"cycle", "unknown", "invalid"} => ~ ValidatePipeline(def)

(* A run without error did exactly what the definition says.  Sequential: every node in
   order, each fed by the one before.  Parallel: every node, in definition order, fed by
   the caller, and with an error too the completed nodes are all there.  Graph: the nodes
   that ran are the roots and the targets of the edges that fired, each once, each fed by
   the caller or by an edge that fired; nothing else is dropped.                          *)
RunMatchesDefinition ==
  stage = "done" =>
    LET ran == {nodes[i].id : i \in 1 .. Len(nodes)}
        at(n) == CHOOSE i \in 1 .. Len(nodes) : nodes[i].id = n
        fired(e) == e.from \in ran /\ (e.when # "" => e.when \in nodes[at(e.from)].holds)
    IN /\ def.topology \in {"sequential", ""} /\ err \in {"", "node"} =>
            /\ err = "" => Len(nodes) = Len(def.agents)
            /\ \A i \in 1 .. Len(nodes) : /\ nodes[i].id = def.agents[i].id
                                          /\ nodes[i].input = i - 1
                                          /\ nodes[i].ok <=> ~ (err = "node" /\ i = Len(nodes))
       /\ def.topology = "parallel" /\ err \in {"", "node"} =>
            /\ [i \in 1 .. Len(nodes) |-> nodes[i].id]
                 = [i \in 1 .. Len(def.agents) |-> def.agents[i].id]
            /\ \A i \in 1 .. Len(nodes) : nodes[i].input = UserMsg
            /\ err = "" <=> \A i \in 1 .. Len(nodes) : nodes[i].ok
       /\ def.topology = "graph" /\ err = "" =>
            /\ Cardinality(ran) = Len(nodes)
            /\ ran = {n \in Ids(def) : indegree(def, n) = 0}
                       \cup {e.to : e \in {e \in EdgeSet(def) : fired(e)}}
            /\ \A i \in 1 .. Len(nodes) :
                 IF nodes[i].input = UserMsg THEN indegree(def, nodes[i].id) = 0
                 ELSE \E e \in EdgeSet(def) : /\ fired(e) /\ e.to = nodes[i].id
                                              /\ at(e.from) = nodes[i].input
===========================================================================

----------------------------- MODULE ToolAccess -----------------------------
(***************************************************************************)
(* The tools one request may use: execute_local_ai with                    *)
(* ai/execution/request.py, MCPManager and StdioMCPClient, the job grants  *)
(* of workflows/runtime/runner.py, skills, permissions and the delegation  *)
(* of agent/subagents.py.                                                  *)
(*                                                                         *)
(* A request starts the servers it may use one after the other, computes   *)
(* its catalog, runs, may delegate once to a child, and closes the clients *)
(* it kept in reverse order.  A server may fail anywhere and the request   *)
(* may be cancelled at any await.                                          *)
(***************************************************************************)
EXTENDS Naturals, Sequences, SequencesExt

CONSTANTS
    McpServers,     \* the configured MCP servers, in order
    AllowedOf,      \* AllowedOf[s]: names the operator allows of server s
    Listings,       \* tool lists a server may answer with
    Skills,         \* skills the user may have activated
    Limits,         \* Limits[k]: allowed_tools of skill k, or Unlimited
    Unlimited,
    Roles,          \* delegation profiles
    RoleTools,      \* RoleTools[r]: allowed_tools of the profile
    Coding,         \* the profile that may be given MCP tools
    RoleSkill,      \* RoleSkill[r]: the profile's skill, or Unlimited for none
    Requested,      \* tool selections a model may delegate with
    Malformed,      \* the name of a definition that adapt_tool refuses
    MaxCancels      \* bound: cancels of one request

Native(n) == <<"suto", n>>
Remote(s, n) == <<s, n>>
IsRemote(t) == t[1] # "suto"

\* One native tool stands for each group the code grants as a whole.
Chat == Native("chat")              \* date, search, fetch, research
Attachments == Native("attachments")
Personal == Native("personal")      \* tasks and reminders
DelegateTool == Native("agent.delegate")
Reading == Native("read")
Planning == Native("plan")
Writing == Native("write")
Commands == Native("command")
Retrieval == Native("retrieval")
SubtaskTools == Native("subtasks")

JobScoped == {Reading, Planning, Writing, Commands, Retrieval, SubtaskTools}
Selection == {"write", "command", "retrieval", "subtasks"}

ServerIds == Range(McpServers)
Natives == JobScoped \cup {Chat, Attachments, Personal, DelegateTool}
AllTools == Natives \cup
    {Remote(s, n) : s \in ServerIds, n \in UNION {Range(l) : l \in Listings}}

ASSUME ToolsAssumption ==
    /\ McpServers \in Seq(ServerIds) /\ IsInjective(McpServers)
    /\ "suto" \notin ServerIds
    /\ MaxCancels \in Nat /\ Coding \in Roles

VARIABLES
    request,        \* who asks, with what
    step,          \* where execute_local_ai stands
    position,       \* index of the server being started
    client,         \* client[s]: the life of server s's client
    kept,           \* MCPManager._clients
    found,          \* MCPManager.tools
    offered,        \* the tools of the run's registry
    child,          \* the child's tools, while and after it runs
    chosen,         \* what the delegation asked for
    cancels         \* history: cancels so far

toolVars == <<request, step, position, client, kept, found, offered, child,
              chosen, cancels>>

NoChild == {DelegateTool}

RequestsMade ==
    [origin : {"chat"}, attachments : BOOLEAN, skills : SUBSET Skills,
     personal : {"none", "restricted", "full"}, selection : {{}}, child : {FALSE}]
    \cup
    [origin : {"job"}, attachments : {FALSE}, skills : {{}},
     personal : {"none"}, selection : SUBSET Selection, child : BOOLEAN]

ToolTypeOK ==
    /\ request \in RequestsMade
    /\ step \in {"starting", "listing", "dropping", "running", "delegated",
                  "closing", "ended", "abandoned"}
    /\ position \in 1..(Len(McpServers) + 1)
    /\ client \in [ServerIds -> {"none", "connecting", "open", "closed"}]
    /\ Range(kept) \subseteq ServerIds
    /\ found \subseteq AllTools /\ offered \subseteq AllTools
    /\ child \subseteq AllTools
    /\ chosen = Unlimited \/ chosen \in Requested
    /\ cancels \in 0..MaxCancels

ToolInit ==
    /\ request \in RequestsMade
    /\ step = "starting" /\ position = 1
    /\ client = [s \in ServerIds |-> "none"]
    /\ kept = <<>> /\ found = {} /\ offered = {}
    /\ child = NoChild /\ chosen = Unlimited
    /\ cancels = 0

-----------------------------------------------------------------------------
(* What a request is granted. *)

\* The runner's grants to a job; a child job gets no subtask tools.
JobGrant(q) ==
    {Reading, Planning}
    \cup (IF "write" \in q.selection THEN {Writing} ELSE {})
    \cup (IF "command" \in q.selection THEN {Commands} ELSE {})
    \cup (IF "retrieval" \in q.selection THEN {Retrieval} ELSE {})
    \cup (IF "subtasks" \in q.selection /\ ~q.child THEN {SubtaskTools} ELSE {})

\* _allowed_tools.
NativeTools(q) ==
    IF q.origin = "job"
      THEN JobScoped \cap JobGrant(q)
      ELSE {Chat, DelegateTool}
           \cup (IF q.attachments THEN {Attachments} ELSE {})
           \cup (IF q.personal = "full" THEN {Personal} ELSE {})

Permits(k, t) == Limits[k] = Unlimited \/ t \in Limits[k]

\* eligible_mcp_config: no server for a job, and only allowed names that every
\* active skill allows too.
Eligible(q, s) ==
    IF q.origin = "job" THEN {}
    ELSE {n \in AllowedOf[s] : \A k \in q.skills : Permits(k, Remote(s, n))}

AllowedTools(q, tools) ==
    {t \in tools : \E s \in ServerIds : \E n \in Eligible(q, s) : t = Remote(s, n)}

\* prepare_request: a job gets no MCP tool, and a skill only takes away.
Catalog(q, tools) ==
    {t \in NativeTools(q) \cup
             (IF q.origin = "job" THEN {} ELSE AllowedTools(q, tools)) :
        \A k \in q.skills : Permits(k, t)}

\* IntersectionPolicy: allowed only if every policy allows it, and never by an
\* empty list.  A run's own policy allows the tools of its registry.
AllowedByAll(policies, t) ==
    policies # {} /\ \A p \in policies : t \in p

\* delegate: what the model asked for, within the parent's registry, the
\* profile and the profile's skill; MCP tools only for coding and by name.
ChildSkills(q, r) == {RoleSkill[r]} \cap q.skills

RoleNames(r) ==
    RoleTools[r] \cup {t \in offered : r = Coding /\ IsRemote(t)}

MayDelegate(r, asked) ==
    asked # Unlimited => asked \subseteq offered /\ asked \subseteq RoleNames(r)

\* Mutant: without a selection the child inherits the parent's MCP tools.
ChildInherits(q, r, asked) ==
    {t \in offered :
        /\ t # DelegateTool /\ t \in RoleNames(r)
        /\ asked # Unlimited => t \in asked
        /\ \A k \in ChildSkills(q, r) : Permits(k, t)}

ChildTools(q, r, asked) ==
    {t \in offered :
        /\ t # DelegateTool /\ t \in RoleNames(r)
        /\ asked # Unlimited => t \in asked
        /\ IsRemote(t) => asked # Unlimited
        /\ AllowedByAll({offered}, t)
        /\ \A k \in ChildSkills(q, r) : Permits(k, t)}

-----------------------------------------------------------------------------
(* The life of the clients. *)

\* The servers a request skips.
NextServer(q, i) ==
    LET wanted == {j \in i..Len(McpServers) : Eligible(q, McpServers[j]) # {}}
    IN IF wanted = {} THEN Len(McpServers) + 1
       ELSE CHOOSE j \in wanted : \A k \in wanted : j <= k

CurrentServer == McpServers[position]

\* A client is made and connects.
ConnectServer ==
    /\ step = "starting"
    /\ position' = NextServer(request, position)
    /\ position' <= Len(McpServers)
    /\ client' = [client EXCEPT ![McpServers[position']] = "connecting"]
    /\ step' = "listing"
    /\ UNCHANGED <<request, kept, found, offered, child, chosen, cancels>>

\* The listing is adapted in full, or the server is dropped: its client is
\* closed and it offers nothing.
Acceptable(s, listing) ==
    /\ Malformed \notin Range(listing)
    /\ IsInjective(listing)
    /\ \A n \in Range(listing) : Remote(s, n) \notin found

List(listing) ==
    /\ step = "listing"
    /\ Acceptable(CurrentServer, listing)
    /\ client' = [client EXCEPT ![CurrentServer] = "open"]
    /\ found' = found \cup {Remote(CurrentServer, n) : n \in Range(listing)}
    /\ kept' = Append(kept, CurrentServer)
    /\ position' = position + 1
    /\ step' = "starting"
    /\ UNCHANGED <<request, offered, child, chosen, cancels>>

\* The server fails, times out or answers with a listing that is refused.
ServerFails ==
    /\ step = "listing"
    /\ step' = "dropping"
    /\ UNCHANGED <<request, position, client, kept, found, offered, child,
                   chosen, cancels>>

\* client.close(), whose own exception is swallowed.
DropServer ==
    /\ step = "dropping"
    /\ client' = [client EXCEPT ![CurrentServer] = "closed"]
    /\ position' = position + 1
    /\ step' = "starting"
    /\ UNCHANGED <<request, kept, found, offered, child, chosen, cancels>>

StartRun ==
    /\ step = "starting"
    /\ NextServer(request, position) > Len(McpServers)
    /\ offered' = Catalog(request, found)
    /\ step' = "running"
    /\ UNCHANGED <<request, position, client, kept, found, child, chosen,
                   cancels>>

\* One child per run, awaited by the parent.
DelegateTo(r, asked) ==
    /\ step = "running" /\ child = NoChild
    /\ DelegateTool \in offered
    /\ MayDelegate(r, asked)
    /\ child' = ChildTools(request, r, asked)
    /\ chosen' = asked
    /\ step' = "delegated"
    /\ UNCHANGED <<request, position, client, kept, found, offered, cancels>>

ChildReturns ==
    /\ step = "delegated"
    /\ step' = "running"
    /\ UNCHANGED <<request, position, client, kept, found, offered, child,
                   chosen, cancels>>

\* The run ends; close() takes the clients and forgets the tools.
Finish ==
    /\ step = "running"
    /\ step' = "closing"
    /\ found' = {}
    /\ UNCHANGED <<request, position, client, kept, offered, child, chosen,
                   cancels>>

CloseNext ==
    /\ step = "closing" /\ kept # <<>>
    /\ client' = [client EXCEPT ![Last(kept)] = "closed"]
    /\ kept' = Front(kept)
    /\ UNCHANGED <<request, step, position, found, offered, child, chosen,
                   cancels>>

Ended ==
    /\ step = "closing" /\ kept = <<>>
    /\ step' = "ended"
    /\ UNCHANGED <<request, position, client, kept, found, offered, child,
                   chosen, cancels>>

\* A cancel while a server is started closes that client and then the others;
\* later it ends the run, and a child with it.
CancelRequest ==
    /\ step \in {"listing", "dropping", "running", "delegated"}
    /\ cancels < MaxCancels
    /\ cancels' = cancels + 1
    /\ found' = {} /\ step' = "closing"
    /\ client' = IF step \in {"listing", "dropping"}
                   THEN [client EXCEPT ![CurrentServer] = "closed"] ELSE client
    /\ UNCHANGED <<request, position, kept, offered, child, chosen>>

\* A cancel while close() awaits a client leaves the loop: that client is
\* closed, the ones before it are forgotten.
CancelClosing ==
    /\ step = "closing" /\ kept # <<>> /\ cancels < MaxCancels
    /\ cancels' = cancels + 1
    /\ client' = [client EXCEPT ![Last(kept)] = "closed"]
    /\ kept' = <<>>
    /\ step' = "abandoned"
    /\ UNCHANGED <<request, position, found, offered, child, chosen>>

ToolNext ==
    \/ ConnectServer \/ ServerFails \/ DropServer \/ StartRun \/ ChildReturns \/ Finish
    \/ CloseNext \/ Ended \/ CancelRequest \/ CancelClosing
    \/ \E listing \in Listings : List(listing)
    \/ \E r \in Roles : \E asked \in Requested \cup {Unlimited} :
          DelegateTo(r, asked)

ToolSpec == ToolInit /\ [][ToolNext]_toolVars

-----------------------------------------------------------------------------
\* A request that was not cancelled while it closed leaves no client behind,
\* whichever servers failed and wherever it was cancelled before.
ClientsClosed ==
    step = "ended" =>
        \A s \in ServerIds : client[s] \in {"none", "closed"}

\* While the run goes on, every MCP tool it offers has an open client, the
\* operator allows it and no active skill excludes it; a job has none.
OffersAreBacked ==
    step \in {"running", "delegated"} =>
        \A t \in offered : IsRemote(t) =>
            /\ request.origin = "chat"
            /\ client[t[1]] = "open" /\ t \in found
            /\ t[2] \in AllowedOf[t[1]]
            /\ \A k \in request.skills : Permits(k, t)

\* Taking a skill away never takes a tool away: skills narrow, whatever they
\* list.  A job is offered exactly what it was granted.
SkillsNarrow ==
    step \in {"running", "delegated"} =>
        /\ \A k \in request.skills :
              Catalog(request, found) \subseteq
                Catalog([request EXCEPT !.skills = @ \ {k}], found)
        /\ request.origin = "job" => offered = JobGrant(request)

\* A child never delegates, has no tool its parent lacks, and an MCP tool only
\* when the delegation names it.
ChildIsNarrower ==
    child # NoChild =>
        /\ child \subseteq offered \ {DelegateTool}
        /\ \A t \in child : IsRemote(t) => chosen # Unlimited /\ t \in chosen

\* The catalog and the servers behind it are right from start to close.
AccessHolds ==
    ClientsClosed /\ OffersAreBacked /\ SkillsNarrow /\ ChildIsNarrower
=============================================================================

---------------------------- MODULE MisbehaviourL1 ----------------------------
(***************************************************************************)
(* The L1 light client data of the misbehaviour tools: the whole of        *)
(* tools/misbehaviour/l1, and what both L2 tools write as LatestL1Header.  *)
(* A tool takes the newest preimage's cached updates, asks the beacon node *)
(* for the client state that comes before them while L1 goes on, and       *)
(* writes a message and the state a light client should judge it from.     *)
(* The preimages, the beacon node and the light client are those of        *)
(* HeaderBuilder; a tool runs instead of the function modelled there.      *)
(***************************************************************************)
EXTENDS HeaderBuilder

VARIABLES
  tool,     \* "none", "l1" or "l2" while it runs, "written"
  updates,  \* the consensus updates it has read, with the slot of the execution update
  written   \* the client state and the updates it wrote

toolVars == <<tool, updates, written>>

ToolInit ==
  /\ Init
  /\ tool = "none" /\ updates = <<>> /\ written = Nil

\* An L1 header whose two parts may finalize different slots.
WithExecution(header, slot) == [header |-> header, execution |-> slot]

\* Faulty variant of ReadL2 (ToolsVerify): the execution update is the finality
\* update's.
ReadL2Finality ==
  /\ pc = "finalized" /\ tool = "none"
  /\ tool' = "l2"
  /\ updates' = <<WithExecution(NextSyncCommitteeUpdate(meta.snapshot, Nil), meta.l1)>>
  /\ UNCHANGED <<vars, written>>

\* The L2 tools: GetFinalizedL1Header of the newest preimage, its consensus update
\* replaced by the cached snapshot and its execution update by the one for the
\* snapshot's finalized header.
ReadL2 ==
  /\ pc = "finalized" /\ tool = "none"
  /\ tool' = "l2"
  /\ updates' = <<WithExecution(NextSyncCommitteeUpdate(meta.snapshot, Nil), meta.snapshot)>>
  /\ UNCHANGED <<vars, written>>

\* The L1 tool: GetFinalizedL1Header twice.  The first header's consensus update is
\* replaced by the snapshot, the second one's finalized header gets another proposer,
\* which is left out: it changes neither its slot nor who signed it.
ReadL1 ==
  /\ pc = "finalized" /\ tool = "none"
  /\ tool' = "l1"
  /\ updates' = <<WithExecution(NextSyncCommitteeUpdate(meta.snapshot, Nil), meta.l1),
                  WithExecution(FinalityHeader(Nil), meta.l1)>>
  /\ UNCHANGED <<vars, written>>

\* BuildInitialState for the first header's execution block, and the next committee
\* it gives is the one every update is to be checked by.
Write ==
  /\ tool \in {"l1", "l2"}
  /\ LET state == InitialState(updates[1].execution)
     IN  written' = [state |-> state,
                     updates |-> [k \in DOMAIN updates |->
                       [updates[k] EXCEPT !.header.committee = state.next,
                                          !.header.isNext = TRUE]]]
  /\ tool' = "written"
  /\ UNCHANGED <<vars, updates>>

ToolNext ==
  \/ tool = "none" /\ Next /\ UNCHANGED toolVars
  \/ tool # "none" /\ Finalize /\ UNCHANGED toolVars
  \/ ReadL2 \/ ReadL1 \/ Write

ToolSpec == ToolInit /\ [][ToolNext]_<<vars, toolVars>>

-----------------------------------------------------------------------------
\* Except in the first period, the committee a tool names for its updates is the next
\* one of the state it writes, it signed them, and they are not older than that state,
\* however much L1 has moved on since the preimage.  And in an L2 tool's header
\* "ConsensusUpdate and ExecutionUpdate must describe the same finalized header".
ToolsVerify ==
  tool = "written" /\ latestPeriod > 0 =>
    \A k \in DOMAIN written.updates :
      LET u == written.updates[k]
      IN  /\ Verifies(written.state, <<u.header>>)
          /\ written.state.slot <= u.header.slot
          /\ Len(written.updates) = 1 => u.execution = u.header.slot
=============================================================================

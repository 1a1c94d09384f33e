---------------------------- MODULE PluginChain ----------------------------
(***************************************************************************)
(* The plugin chain's session callbacks (internal/runtime/plugin_chain.go). *)
(*                                                                          *)
(* Append publishes a new immutable view; OnAccept and OnClose load the     *)
(* current one without a lock and walk it, one plugin per step, while other *)
(* sessions and Append go on.  The transport calls OnClose only for a       *)
(* session that OnAccept admitted.                                          *)
(***************************************************************************)
EXTENDS Naturals, Sequences, SequencesExt

CONSTANTS
  Plugins,      \* the plugins that may be appended
  Priority,     \* Priority() of each plugin
  Sessions

VARIABLES
  view,         \* the published view's plugins
  held,         \* held[s]: the view the session's callback loaded
  at,           \* at[s]: the plugin of held[s] it has reached
  spc,          \* progress of each session
  acceptedBy,   \* acceptedBy[s]: plugins whose OnAccept returned nil, in order
  closedBy      \* closedBy[s]: plugins whose OnClose was called, in order

vars == <<view, held, at, spc, acceptedBy, closedBy>>

States == {"new", "accept", "rollback", "open", "close", "gone"}

TypeOK ==
  /\ view \in Seq(Plugins) /\ IsInjective(view)
  /\ held \in [Sessions -> Seq(Plugins)]
  /\ \A s \in Sessions : at[s] \in 0 .. Len(held[s]) + 1
  /\ spc \in [Sessions -> States]
  /\ acceptedBy \in [Sessions -> Seq(Plugins)]
  /\ closedBy \in [Sessions -> Seq(Plugins)]

(* The chain as the constructor publishes it: no plugin yet.                 *)
Init ==
  /\ view = <<>>
  /\ held = [s \in Sessions |-> <<>>]
  /\ at = [s \in Sessions |-> 0]
  /\ spc = [s \in Sessions |-> "new"]
  /\ acceptedBy = [s \in Sessions |-> <<>>]
  /\ closedBy = [s \in Sessions |-> <<>>]

(* Mutation of SortStable: a sort that turns equal priorities round. *)
SortUnstable(ps) ==
  LET prios == SetToSortSeq({Priority[p] : p \in Range(ps)}, <)
      tier(k) == Reverse(SelectSeq(ps, LAMBDA p : Priority[p] = k))
  IN FlattenSeq([i \in DOMAIN prios |-> tier(prios[i])])

(* slices.SortStableFunc by priority: equal priorities keep their order.     *)
SortStable(ps) ==
  LET prios == SetToSortSeq({Priority[p] : p \in Range(ps)}, <)
      tier(k) == SelectSeq(ps, LAMBDA p : Priority[p] = k)
  IN FlattenSeq([i \in DOMAIN prios |-> tier(prios[i])])

(* Append publishes a sorted copy.  A call with several plugins is as many   *)
(* steps that nobody looks between.                                          *)
AppendPlugin(p) ==
  /\ p \notin Range(view)
  /\ view' = SortStable(Append(view, p))
  /\ UNCHANGED <<held, at, spc, acceptedBy, closedBy>>

-----------------------------------------------------------------------------
OnAccept(s) ==
  /\ spc[s] = "new"
  /\ held' = [held EXCEPT ![s] = view]
  /\ at' = [at EXCEPT ![s] = 1]
  /\ spc' = [spc EXCEPT ![s] = "accept"]
  /\ UNCHANGED <<view, acceptedBy, closedBy>>

(* One plugin's OnAccept.  An error and a panic take the same way out.       *)
AcceptPlugin(s) ==
  /\ spc[s] = "accept"
  /\ IF at[s] > Len(held[s])
       THEN /\ spc' = [spc EXCEPT ![s] = "open"]
            /\ UNCHANGED <<at, acceptedBy>>
       ELSE \/ /\ acceptedBy' = [acceptedBy EXCEPT ![s] = Append(@, held[s][at[s]])]
               /\ at' = [at EXCEPT ![s] = @ + 1]
               /\ UNCHANGED spc
            \/ /\ spc' = [spc EXCEPT ![s] = "rollback"]
               /\ at' = [at EXCEPT ![s] = @ - 1]
               /\ UNCHANGED acceptedBy
  /\ UNCHANGED <<view, held, closedBy>>

(* Mutation of OnClose: off by one, the last plugin is skipped. *)
OnCloseShort(s) ==
  /\ spc[s] = "open"
  /\ held' = [held EXCEPT ![s] = view]
  /\ at' = [at EXCEPT ![s] = IF Len(view) = 0 THEN 0 ELSE Len(view) - 1]
  /\ spc' = [spc EXCEPT ![s] = "close"]
  /\ UNCHANGED <<view, acceptedBy, closedBy>>

(* The session ends; OnClose loads the view again and starts from its end.   *)
OnClose(s) ==
  /\ spc[s] = "open"
  /\ held' = [held EXCEPT ![s] = view]
  /\ at' = [at EXCEPT ![s] = Len(view)]
  /\ spc' = [spc EXCEPT ![s] = "close"]
  /\ UNCHANGED <<view, acceptedBy, closedBy>>

(* safeClose: a panic in one plugin does not keep the rest from running.     *)
ClosePlugin(s) ==
  /\ spc[s] \in {"rollback", "close"}
  /\ IF at[s] = 0
       THEN /\ spc' = [spc EXCEPT ![s] = "gone"]
            /\ UNCHANGED <<at, closedBy>>
       ELSE /\ closedBy' = [closedBy EXCEPT ![s] = Append(@, held[s][at[s]])]
            /\ at' = [at EXCEPT ![s] = @ - 1]
            /\ UNCHANGED spc
  /\ UNCHANGED <<view, held, acceptedBy>>

Finished == (\A s \in Sessions : spc[s] = "gone") /\ Range(view) = Plugins /\ UNCHANGED vars

Next ==
  \/ \E p \in Plugins : AppendPlugin(p)
  \/ \E s \in Sessions : OnAccept(s) \/ AcceptPlugin(s) \/ OnClose(s) \/ ClosePlugin(s)
  \/ Finished

Spec == Init /\ [][Next]_vars

-----------------------------------------------------------------------------
(* Plugins release in OnClose what they took in OnAccept: when a session is  *)
(* over, each plugin that accepted it was closed exactly once, in the        *)
(* reverse of the order they accepted, whether the session was refused half  *)
(* way or served, and although Append may have published new views between.  *)
CloseMirrorsAccept ==
  \A s \in Sessions : spc[s] = "gone" =>
    SelectSeq(closedBy[s], LAMBDA p : p \in Range(acceptedBy[s])) = Reverse(acceptedBy[s])

(* "equal priorities execute in append order": publishing a view never turns *)
(* two plugins round that an earlier view had in an order.                   *)
KeepsOrder == SelectSeq(view', LAMBDA p : p \in Range(view)) = view
=============================================================================

------------------------- MODULE MCRakNetFragments --------------------------
(* Small instances of RakNetFragments and FrameSets in one run: each starts  *)
(* where nothing else is under way, since they share no state.               *)
(*                                                                           *)
(* RakNetFragments: one peer sends a packet of three parts and two of one,   *)
(* the other one of two, which is no game packet.  With two numbers an entry *)
(* is used again by its peer, and by the other.                              *)
(*                                                                           *)
(* FrameSets: a frame of every reliability before another, or three frames;   *)
(* frame sets within frames, one behind another and one within another.       *)
EXTENDS RakNetFragments, FrameSets, TLC

CONSTANTS p1, p2

MCParts == p1 :> <<3, 1, 1>> @@ p2 :> <<2>>

MCGames == {p \in Packets : Size(p) # 2}

FramesOf(reliabilities, lengths) ==
    {[reliability |-> r, bits |-> n, holds |-> h] :
        r \in reliabilities, n \in lengths, h \in {"part", "game", "other"}}

\* A frame that holds a frame set.
Around(r, set) == <<[reliability |-> r, bits |-> 8 * SizeOf(set), holds |-> "set"]>> \o set

MCDatagrams ==
    {<<>>}
    \cup {<<f, g>> : f \in FramesOf(0 .. 7, {13}), g \in FramesOf({7}, {13})}
    \cup {<<f, g, g>> : f, g \in FramesOf({3}, {16})}
    \cup UNION {{Around(2, <<f>>) \o <<g>>,
                  <<f>> \o Around(1, <<>>) \o <<g>>,
                  Around(0, <<f>>) \o Around(2, <<>>) \o <<g>>,
                  Around(2, Around(0, <<>>) \o <<f>>) \o <<g>>} :
                     f, g \in FramesOf({3}, {16})}

MCInit == Init /\ FrameInit

MCNext ==
    \/ frames = <<>> /\ loop = "receive" /\ free = None /\ Next /\ UNCHANGED frameVars
    \/ (\A peer \in Peers : sent[peer] = 0) /\ FrameNext /\ UNCHANGED vars

MCSpec == MCInit /\ [][MCNext]_<<vars, frameVars>>
=============================================================================

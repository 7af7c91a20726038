--------------------------- MODULE MCRoomServer ---------------------------
(***************************************************************************)
(* Small instances of RoomServer for TLC.  The clock is unbounded: a state *)
(* is identified by its view, in which every timestamp that is still read  *)
(* is counted from now.  No handler reads a timestamp other than by        *)
(* comparing it, shifted by a constant, with now, so states with the same  *)
(* view have the same futures up to the origin of time.                    *)
(***************************************************************************)
EXTENDS RoomServer, TLC

LiveRooms ==
    [s \in live |-> [rooms[s] EXCEPT !.lastActivityAt = now - @, !.expiresAt = @ - now]]

Seated == UNION {sessions[s] : s \in live}

Requested == UNION {lobbyRequests[s] : s \in live}

LiveRequests ==
    [q \in Requested |-> [request[q] EXCEPT
        !.createdAt = IF request[q].status = "waiting" THEN now - @ ELSE 0]]

View ==
    <<now - lastSweep, drawnSlugs, LiveRooms, sessions,
      [i \in Seated |-> now - lastSeenAt[i]],
      lobbyRequests, LiveRequests, nextSession, nextRequest, inflight>>

\* Request slots, passcodes and slugs are interchangeable.
Symmetry == Permutations(Clients) \cup Permutations(Passcodes) \cup Permutations(Slugs)
=============================================================================

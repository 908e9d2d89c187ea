---------------------------- MODULE MCDriveStart ----------------------------
(***************************************************************************)
(* Instances of DriveStart for TLC: the situations that the run combines.  *)
(***************************************************************************)
EXTENDS DriveStart

Ideal == [outcomes |-> {"ok"}, events |-> {}, roles |-> {TRUE}, bays |-> Bays, faults |-> 0,
          changes |-> 0]

\* What is in the bay at first: no drained pack, or a charged one.
Usable == {b \in Bays : ~b.empty}
Charged == {b \in Usable : b.in}

\* NFC operations fail in every way while nobody touches the scooter.
Failing == [Ideal EXCEPT !.outcomes = {"ok", "transient", "garbled", "departed", "missing",
                                      "hal", "hal2"}, !.bays = Usable, !.faults = 2]
\* The slot is not the active one.
Storage == [Ideal EXCEPT !.outcomes = {"ok", "transient", "missing", "hal"}, !.roles = {FALSE},
                         !.events = {"seatbox"}, !.faults = 1, !.changes = 1]
\* Packs disobey, and frames do not move, cannot be decoded or get lost.
Deaf == [Ideal EXCEPT !.outcomes = {"ok", "same", "zero", "ignored", "dropped", "stuck"},
                      !.events = {"seatbox"}, !.bays = Charged, !.faults = 2, !.changes = 1]
\* A pack that was turned around shows a tag with an old frame.
Turned == [Ideal EXCEPT !.outcomes = {"ok", "older", "oldest"},
                        !.events = {"bay"}, !.bays = Usable, !.faults = 2, !.changes = 2]
\* The tag is lost and found while the seatbox moves, with a pack that is off at first.
Flapping == [Ideal EXCEPT !.outcomes = {"ok", "departed", "transient"}, !.events = {"seatbox"},
                          !.bays = {b \in Charged : b.state = "inactive"},
                          !.faults = 2, !.changes = 3]
\* The seatbox and the keep-active setting change, or the gate and the seatbox.
Policies == [Ideal EXCEPT !.events = {"seatbox", "keep"}, !.bays = Charged, !.changes = 3]
Gates == [Ideal EXCEPT !.events = {"seatbox", "gate"}, !.bays = Charged, !.changes = 3]
\* The setting changes while the tag is being lost.
Losing == [Ideal EXCEPT !.outcomes = {"ok", "missing"}, !.events = {"keep"}, !.faults = 1,
                        !.bays = Usable, !.changes = 1]
\* Packs come and go.
Exchange == [Ideal EXCEPT !.events = {"seatbox", "bay"}, !.bays = Usable, !.changes = 3]
\* So does Redis, and a critical fault empties the data.
Outage == [Ideal EXCEPT !.outcomes = {"ok", "transient"},
                        !.events = {"bay", "redis", "critical"}, !.bays = Usable,
                        !.faults = 1, !.changes = 2]
\* A rider waits, with one reader and with two.
Waiting == [Ideal EXCEPT !.events = {"demand", "drop"}, !.changes = 3]
Rounds == [Ideal EXCEPT !.events = {"demand", "rounds"}, !.changes = 1]

AllScenes == {Failing, Storage, Deaf, Turned, Flapping, Policies, Gates, Losing, Exchange,
              Outage, Waiting, Rounds}
=============================================================================

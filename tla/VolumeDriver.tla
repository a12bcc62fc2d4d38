---------------------------- MODULE VolumeDriver ----------------------------
\* What a volume driver promises the control plane (runtime/volume.go): a
\* volume appears under a create, is Available only when its content is whole,
\* keeps a verdict once it is given, and goes only under a delete, under the
\* create that starts over, or with the runtime that lost it.

VARIABLES phase,  \* "none", "Pending", "Available", "Failed"
          whole,  \* the volume's content is the whole of its source
          lost,   \* the runtime lost it
          open    \* the operations open on it: "Create", "Inspect", "Delete"

vars == <<phase, whole, lost, open>>

Init == phase = "none" /\ whole = FALSE /\ lost = FALSE /\ open = {}

Next ==
  /\ phase = "none" /\ phase' # "none" => "Create" \in open
  /\ phase' = "Available" => whole'
  /\ phase \in {"Available", "Failed"} => phase' \in {phase, "none"}
  /\ phase # "none" /\ phase' = "none" => lost' \/ open \cap {"Create", "Delete"} # {}

Spec == Init /\ [][Next]_vars

=============================================================================

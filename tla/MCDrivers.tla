----------------------------- MODULE MCDrivers -----------------------------
\* The drivers: Kubernetes (K8sDriver, which implements Driver, and K8sObjects),
\* podman (Podman), the host's processes (ProcessDrivers), and the files of a
\* workspace (HostFiles, GuestFiles). The volumes of the first two implement
\* VolumeDriver. The components share no variable: a behaviour is of one of
\* them and the others rest in an initial state. What a component does in the
\* end is asked under the fairness its module states.
EXTENDS Naturals, Sequences

CONSTANTS Nil

VARIABLE part       \* the component this behaviour is of

VARIABLES kube_claim, kube_pod, kube_secret, kube_rule, kube_mesh, kube_known, kube_call,
          kube_answer, kube_calls, kube_faults
kubeVars == <<kube_claim, kube_pod, kube_secret, kube_rule, kube_mesh, kube_known,
     kube_call, kube_answer, kube_calls, kube_faults>>
Kube == INSTANCE K8sDriver WITH claim <- kube_claim, pod <- kube_pod, secret <- kube_secret,
     rule <- kube_rule, mesh <- kube_mesh, known <- kube_known, call <- kube_call, answer <-
     kube_answer, calls <- kube_calls, faults <- kube_faults, Ids <- {"s1"}, MaxCalls <- 4,
     MaxFaults <- 1

VARIABLES rec_rec, rec_secret, rec_pod, rec_w, rec_held, rec_ops, rec_faults
recVars == <<rec_rec, rec_secret, rec_pod, rec_w, rec_held, rec_ops, rec_faults>>
VARIABLES xfer_ownPod, xfer_helper, xfer_calls, xfer_issued, xfer_failures, xfer_moves,
          xfer_past
xferVars == <<xfer_ownPod, xfer_helper, xfer_calls, xfer_issued, xfer_failures, xfer_moves,
     xfer_past>>
VARIABLES kvol_source, kvol_claim, kvol_phase, kvol_fpod, kvol_data, kvol_row, kvol_turn,
          kvol_passes, kvol_volumeFaults
kvolVars == <<kvol_source, kvol_claim, kvol_phase, kvol_fpod, kvol_data, kvol_row,
     kvol_turn, kvol_passes, kvol_volumeFaults>>
Box == INSTANCE K8sObjects WITH rec <- rec_rec, secret <- rec_secret, pod <- rec_pod, w <-
     rec_w, held <- rec_held, ops <- rec_ops, faults <- rec_faults, Writers <- {"a", "b"},
     Attempts <- 2, MaxOps <- 2, MaxFaults <- 1, Creator <- "creator", NoOne <- "none",
     ownPod <- xfer_ownPod, helper <- xfer_helper, calls <- xfer_calls, issued <-
     xfer_issued, failures <- xfer_failures, moves <- xfer_moves, past <- xfer_past, Slots <-
     {1, 2}, MaxCalls <- 3, MaxFailures <- 1, MaxMoves <- 1, source <- kvol_source, claim <-
     kvol_claim, phase <- kvol_phase, fpod <- kvol_fpod, data <- kvol_data, row <- kvol_row,
     turn <- kvol_turn, passes <- kvol_passes, volumeFaults <- kvol_volumeFaults, MaxPasses <- 4,
     MaxVolumeFaults <- 2

VARIABLES pod_ws, pod_cont, pod_recs, pod_net, pod_token, pod_call, pod_held, pod_ended,
          pod_apart, pod_calls, pod_faults
podVars == <<pod_ws, pod_cont, pod_recs, pod_net, pod_token, pod_call, pod_held, pod_ended,
     pod_apart, pod_calls, pod_faults>>
VARIABLES pvol_source, pvol_data, pvol_record, pvol_fillers, pvol_mounted, pvol_row,
          pvol_turn, pvol_watch, pvol_passes, pvol_volumeFaults, pvol_lost
pvolVars == <<pvol_source, pvol_data, pvol_record, pvol_fillers, pvol_mounted, pvol_row,
     pvol_turn, pvol_watch, pvol_passes, pvol_volumeFaults, pvol_lost>>
Pod == INSTANCE Podman WITH ws <- pod_ws, cont <- pod_cont, recs <- pod_recs, net <- pod_net,
     token <- pod_token, call <- pod_call, held <- pod_held, ended <- pod_ended, apart <-
     pod_apart, calls <- pod_calls, faults <- pod_faults, Callers <- {"a", "b"}, MaxCalls <-
     2, MaxFaults <- 1, NoOne <- Nil, source <- pvol_source, data <- pvol_data, record <-
     pvol_record, fillers <- pvol_fillers, mounted <- pvol_mounted, row <- pvol_row, turn <-
     pvol_turn, watch <- pvol_watch, passes <- pvol_passes, volumeFaults <- pvol_volumeFaults, lost
     <- pvol_lost, MaxPasses <- 3, MaxVolumeFaults <- 2

VARIABLES loc_dir, loc_rec, loc_localProc, loc_localOp, loc_held, loc_reapers, loc_doomed,
          loc_localUp, loc_driver, loc_localAsked, loc_lost, loc_taken, loc_localFaults
locVars == <<loc_dir, loc_rec, loc_localProc, loc_localOp, loc_held, loc_reapers,
     loc_doomed, loc_localUp, loc_driver, loc_localAsked, loc_lost, loc_taken,
     loc_localFaults>>
VARIABLES nat_phase, nat_proc, nat_active, nat_main, nat_sups, nat_lock, nat_up, nat_asked,
          nat_half, nat_faults
natVars == <<nat_phase, nat_proc, nat_active, nat_main, nat_sups, nat_lock, nat_up,
     nat_asked, nat_half, nat_faults>>
VARIABLES logs_kind, logs_partial, logs_ended, logs_there, logs_opened, logs_pc, logs_size,
          logs_read, logs_waited, logs_result
logsVars == <<logs_kind, logs_partial, logs_ended, logs_there, logs_opened, logs_pc,
     logs_size, logs_read, logs_waited, logs_result>>
Procs == INSTANCE ProcessDrivers WITH dir <- loc_dir, rec <- loc_rec, localProc <-
     loc_localProc, localOp <- loc_localOp, held <- loc_held, reapers <- loc_reapers, doomed <-
     loc_doomed, localUp <- loc_localUp, driver <- loc_driver, localAsked <- loc_localAsked,
     lost <- loc_lost, taken <- loc_taken, localFaults <- loc_localFaults, LocalProcs <- {1, 2,
     3}, MaxLocalFaults <- 1, MaxDrivers <- 2, phase <- nat_phase, proc <- nat_proc, active <-
     nat_active, main <- nat_main, sups <- nat_sups, lock <- nat_lock, up <- nat_up, asked <-
     nat_asked, half <- nat_half, faults <- nat_faults, Procs <- {1, 2, 3}, MaxFaults <- 2, Nil
     <- Nil, kind <- logs_kind, partial <- logs_partial, ended <- logs_ended, there <-
     logs_there, opened <- logs_opened, pc <- logs_pc, size <- logs_size, read <- logs_read,
     waited <- logs_waited, result <- logs_result, MaxRecords <- 3

\* Two names, two calls at a time: a workspace with a file in a directory and
\* a link that leaves it.
FT == INSTANCE FileTree WITH Names <- {"a", "b"}, Slots <- {"t1", "t2"}
Tree == [p \in FT!Paths |-> CASE p = <<"a">> -> FT!Dir [] p = <<"a", "b">> -> FT!File(1, TRUE)
                              [] p = <<"b">> -> FT!Link [] OTHER -> FT!Empty]
Workspaces ==
  {[host |-> [write |-> w, folder |-> f], tree |-> Tree] : w \in BOOLEAN, f \in BOOLEAN}

VARIABLES host_world, host_tree, host_calls, host_issued, host_past
hostVars == <<host_world, host_tree, host_calls, host_issued, host_past>>
HostF == INSTANCE HostFiles WITH world <- host_world, tree <- host_tree, calls <- host_calls,
     issued <- host_issued, past <- host_past, Names <- {"a", "b"}, Slots <- {"t1", "t2"},
     Worlds <- Workspaces, Sizes <- {1, 2}, MaxBytes <- 1, MaxCalls <- 2

VARIABLES guest_up, guest_tree, guest_calls, guest_issued, guest_past
guestVars == <<guest_up, guest_tree, guest_calls, guest_issued, guest_past>>
GuestF == INSTANCE GuestFiles WITH up <- guest_up, tree <- guest_tree, calls <- guest_calls,
     issued <- guest_issued, past <- guest_past, Names <- {"a", "b"}, Slots <- {"t1", "t2"},
     Trees <- {Tree}, Sizes <- {1, 2}, MaxBytes <- 1, MaxCalls <- 2

vars == <<part, kubeVars, recVars, kvolVars, podVars, pvolVars, locVars, natVars, logsVars,
     hostVars, guestVars, xferVars>>

Init ==
  /\ part \in {"kube", "rec", "kvol", "pod", "pvol", "loc", "nat", "logs", "host", "guest", "xfer"}
  /\ Kube!Init
  /\ Box!RecordInit /\ (part # "rec" => ~rec_rec.pool /\ rec_rec.env = "creator")
  /\ Box!VolumeInit /\ (part # "kvol" => kvol_source = "empty")
  /\ Pod!SandboxInit /\ (part # "pod" => ~pod_ws /\ pod_apart)
  /\ Pod!VolumeInit /\ (part # "pvol" => pvol_source = "empty")
  /\ Procs!LocalInit
  /\ Procs!NativeInit
  /\ Procs!LogsInit /\ (part # "logs" => logs_kind = "local")
  /\ HostF!Init /\ (part # "host" => ~host_world.write /\ host_world.folder)
  /\ GuestF!Init
  /\ Box!TransfersInit /\ (part # "xfer" => xfer_ownPod = "none")

\* The component the behaviour is of moves; the others rest.
Next ==
  /\ UNCHANGED part
  /\ \/ part = "kube" /\ Kube!Next /\ UNCHANGED <<recVars, kvolVars, podVars, pvolVars, locVars, natVars,
            logsVars, hostVars, guestVars, xferVars>>
     \/ part = "rec" /\ Box!RecordNext /\ UNCHANGED <<kubeVars, kvolVars, podVars, pvolVars, locVars, natVars,
            logsVars, hostVars, guestVars, xferVars>>
     \/ part = "kvol" /\ Box!VolumeNext /\ UNCHANGED <<kubeVars, recVars, podVars, pvolVars, locVars, natVars,
            logsVars, hostVars, guestVars, xferVars>>
     \/ part = "pod" /\ Pod!SandboxNext /\ UNCHANGED <<kubeVars, recVars, kvolVars, pvolVars, locVars, natVars,
            logsVars, hostVars, guestVars, xferVars>>
     \/ part = "pvol" /\ Pod!VolumeNext /\ UNCHANGED <<kubeVars, recVars, kvolVars, podVars, locVars, natVars,
            logsVars, hostVars, guestVars, xferVars>>
     \/ part = "loc" /\ Procs!LocalNext /\ UNCHANGED <<kubeVars, recVars, kvolVars, podVars, pvolVars,
            natVars, logsVars, hostVars, guestVars, xferVars>>
     \/ part = "nat" /\ Procs!NativeNext /\ UNCHANGED <<kubeVars, recVars, kvolVars, podVars, pvolVars,
            locVars, logsVars, hostVars, guestVars, xferVars>>
     \/ part = "logs" /\ Procs!LogsNext /\ UNCHANGED <<kubeVars, recVars, kvolVars, podVars, pvolVars,
            locVars, natVars, hostVars, guestVars, xferVars>>
     \/ part = "host" /\ HostF!Next /\ UNCHANGED <<kubeVars, recVars, kvolVars, podVars, pvolVars, locVars,
            natVars, logsVars, guestVars, xferVars>>
     \/ part = "guest" /\ GuestF!Next /\ UNCHANGED <<kubeVars, recVars, kvolVars, podVars, pvolVars, locVars,
            natVars, logsVars, hostVars, xferVars>>
     \/ part = "xfer" /\ Box!TransfersNext /\ UNCHANGED <<kubeVars, recVars, kvolVars, podVars, pvolVars,
            locVars, natVars, logsVars, hostVars, guestVars>>

Spec == Init /\ [][Next]_vars

\* The fairness of K8sDriver, for the behaviours of sandboxes on Kubernetes.
KubeFair ==
  /\ \A l \in Kube!Lanes : WF_kubeVars(part = "kube" /\ Kube!Step(l))
  /\ \A i \in {"s1"} : WF_kubeVars(part = "kube" /\ Kube!PodRuns(i) /\ Kube!Cluster(i))
  /\ \A i \in {"s1"} : WF_kubeVars(part = "kube" /\ Kube!PodGoes(i) /\ Kube!Cluster(i))
  /\ \A i \in {"s1"} : WF_kubeVars(part = "kube" /\ Kube!ClaimGoes(i) /\ Kube!Cluster(i))
  /\ \A i \in {"s1"} : WF_kubeVars(part = "kube" /\ Kube!SecretGoes(i) /\ Kube!Cluster(i))

\* The fairness of K8sObjects, for the behaviours of the record of a sandbox on Kubernetes.
RecFair ==
  /\ \A p \in {"a", "b"} : WF_recVars(part = "rec" /\ Box!Step(p))

\* The fairness of K8sObjects, for the behaviours of volumes on Kubernetes.
KvolFair ==
  /\ WF_kvolVars(part = "kvol" /\ Box!Fill)
  /\ WF_kvolVars(part = "kvol" /\ Box!Turn)
  /\ WF_kvolVars(part = "kvol" /\ Box!PodGone)
  /\ WF_kvolVars(part = "kvol" /\ Box!ClaimGone)
  /\ WF_kvolVars(part = "kvol" /\ Box!PodCollected)

\* The fairness of Podman, for the behaviours of sandboxes on podman.
PodFair ==
  /\ \A p \in {"a", "b"} : WF_podVars(part = "pod" /\ Pod!Step(p))

\* The fairness of Podman, for the behaviours of volumes on podman.
PvolFair ==
  /\ WF_pvolVars(part = "pvol" /\ Pod!Fill)
  /\ WF_pvolVars(part = "pvol" /\ Pod!Turn)
  /\ WF_pvolVars(part = "pvol" /\ Pod!Missing)

\* The fairness of ProcessDrivers, for the behaviours of processes of a device.
LocFair ==
  /\ WF_locVars(part = "loc" /\ Procs!Save)
  /\ WF_locVars(part = "loc" /\ Procs!Inspect)
  /\ WF_locVars(part = "loc" /\ Procs!LocalReapers)
  /\ \A p \in {1, 2, 3} : WF_locVars(part = "loc" /\ Procs!Killed(p))

\* The fairness of ProcessDrivers, for the behaviours of sandboxes held by the platform.
NatFair ==
  /\ WF_natVars(part = "nat" /\ Procs!Reapers)
  /\ WF_natVars(part = "nat" /\ Procs!Returns)
  /\ \A p \in {1, 2, 3} : SF_natVars(part = "nat" /\ Procs!Supervise(p))

\* The fairness of ProcessDrivers, for the behaviours of their logs.
LogsFair ==
  /\ WF_logsVars(part = "logs" /\ Procs!Reader)
  /\ WF_logsVars(part = "logs" /\ Procs!End)

\* The fairness of HostFiles, for the behaviours of files of the host.
HostFair ==
  /\ \A c \in {"t1", "t2"} : WF_hostVars(part = "host" /\ HostF!Steps(c))

\* The fairness of GuestFiles, for the behaviours of files of a container.
GuestFair ==
  /\ \A c \in {"t1", "t2"} : WF_guestVars(part = "guest" /\ GuestF!Steps(c))

\* The fairness of K8sObjects, for the behaviours of transfers.
XferFair ==
  /\ \A c \in {1, 2} : WF_xferVars(part = "xfer" /\ Box!Steps(c))
  /\ WF_xferVars(part = "xfer" /\ Box!HelperComes)
  /\ WF_xferVars(part = "xfer" /\ Box!HelperGoes)

-----------------------------------------------------------------------------
(* Properties *)

\* Every component keeps its values in their ranges.
TypesHold == Kube!TypeOK /\ Box!RecordTypeOK /\ Box!VolumeTypeOK /\ Pod!SandboxTypeOK /\ Pod!VolumeTypeOK /\
             Procs!LocalTypeOK /\ Procs!NativeTypeOK /\ Procs!LogsTypeOK /\ HostF!TypeOK /\
             GuestF!TypeOK /\ Box!TransfersTypeOK

\* Each driver keeps the contract the controller is written against, whichever
\* platform is below it.
DriversImplement ==
  /\ []TypesHold
  \* Sandboxes on Kubernetes: every step of the driver, its partial failures
  \* and crossing calls among them, is a step of Driver or of none.
  /\ Kube!Contract
  \* Volumes on Kubernetes: the driver keeps the contract: Available means
  \* whole, a verdict stands though the process died between writing it and
  \* removing the Pod.
  /\ Box!FillContract
  \* Volumes on podman: the driver keeps the contract: a record speaks for the
  \* whole of the content it was written after, though a failed create left it
  \* behind alone.
  /\ Pod!FillContract

\* What a driver recorded of a sandbox or a volume is what the platform holds
\* and runs, through crossing calls, failures and restarts.
RecordsTrue ==
  \* The record of a sandbox on Kubernetes: A pool entry goes to one caller:
  \* two adopters in two processes that both read it are never both told that
  \* it is theirs, and one told that it is gone has written nothing in the
  \* record or in the Secret the winner's Pod mounts.
  /\ []Box!AdoptedOnce /\ Box!LoserWritesNothing
  \* The environment of a sandbox is never without a place: at every moment of
  \* a move between the record and the Secret, and after a failure in it, a
  \* start finds the values in one of the two.
  /\ []Box!CredentialsSurvive
  \* Once no call is open the running Pod was asked for the size the record
  \* holds, whatever crossed the change but another one and a call that failed.
  /\ []Box!SizeAsked
  \* A patch changes what its own call is about and nothing else: a size set by
  \* one process and an adoption or a move by another never leave a record
  \* neither of them wrote.
  /\ Box!NotMixed
  \* Volumes on Kubernetes: the row's verdict is the claim's, whatever the turn
  \* that settled it and however often the loop was cut off.
  /\ []Box!RowAgrees
  \* Sandboxes on podman: inside one driver an entry is adopted once, and the
  \* container holds no identity but its adopter's: the lock and the generation
  \* exclude the other.
  /\ []Pod!AdoptedOnce
  \* A sandbox an operator stopped does not read as one whose workload failed,
  \* whatever edits ran beside the stop (phaseOf reads the flag Stop sets
  \* before it stops the container).
  /\ []Pod!StopReads
  \* A delete that ran by itself and held leaves nothing of the sandbox.
  /\ []Pod!DeleteLeavesNothing
  \* A mutation never leaves a sandbox without a readable record, though the
  \* process dies between the write of a generation and the removal of the one
  \* it replaces, and though another driver sweeps beside it (writeRecord: "so
  \* a crash between them leaves the newer readable").
  /\ Pod!RecordStays
  \* Volumes on podman: A volume called Lost is one the engine no longer holds,
  \* however the reaper's read interleaves with a delete or a turn.
  /\ []Pod!LostMeansGone
  \* A removal the engine refuses leaves the volume reading as it did: one a
  \* container mounts stays Available under every delete.
  /\ Pod!ReadsAsBefore
  \* Sandboxes on Kubernetes: the Pod of a sandbox nobody asked to delete runs
  \* under its network rule, through every create, start, move and fault: a
  \* start that replaces the rule does so while no Pod runs.
  /\ []Kube!RunsConfined
  \* Processes of a device: every process that runs is one the record names, or
  \* one being killed, or one the call in progress will record or end: what a
  \* stop, a delete or the next driver reads leads to all of it.
  /\ []Procs!Recorded
  \* A driver started after one was killed holds every attached command that
  \* still runs, or its record still names it for the next stop.
  /\ []Procs!OrphansEnded
  \* A sandbox stopped or deleted comes to run nothing that was recorded, and a
  \* stop that returned leaves only commands already cancelled.
  /\ []Procs!StopIsQuiet
  \* Sandboxes held by the platform: A record that says Running is one whose
  \* main process this driver holds and will write the end of, or whose
  \* unwritten end every read reports: a stop, a start and a late supervisor in
  \* any order leave no Running nobody ends.
  /\ []Procs!RunningIsHeld
  \* A stopped sandbox runs nothing of this driver's, and stays stopped: a
  \* supervisor that writes after the stop, or after the start that followed,
  \* does not report its own process's end as the sandbox's.
  /\ []Procs!StopHolds
  \* A deleted sandbox leaves none of the processes this driver held running.
  /\ []Procs!DeleteHolds

\* A file, a stream or an archive is whole or not there, whoever moves,
\* replaces or stops beside it.
BytesWhole ==
  \* Files of the host: A name a caller uses never reads as part of a body: a
  \* body that fails or passes the bound leaves the previous file whole
  \* (Driver.Write, importFile).
  /\ []HostF!Whole
  \* A body that was stored stays under some name until a call removes it or
  \* replaces it, however the calls cross: no error path loses another's file.
  /\ []HostF!NothingLost
  \* When no call runs, nothing staged is left behind (Driver.Write's deferred
  \* removal), unless a move took the directory along while a body was staged
  \* in it.
  /\ []HostF!NoStray
  \* A folder the host grants read-only is never changed by a file operation
  \* (Driver.entry), and an archive is never extracted into a host folder.
  /\ HostF!GrantHeld
  \* Files of a container: A name a caller uses never reads as part of a
  \* write's body, wherever the container stopped: nothing is renamed onto it
  \* until the caller's copy has finished (Driver.Write).
  /\ []GuestF!Whole
  \* A body that was stored stays until a call removes it or replaces it.
  /\ []GuestF!NothingLost
  \* When no call runs, nothing staged is left behind (discard): unless the
  \* container stopped, a move took the directory along, or a directory that
  \* appeared under a commit's test took the staged file in.
  /\ []GuestF!NoStray
  \* Nothing is written outside the workspace (contain), unless a link was
  \* moved onto a name between a program's check and its write.
  /\ []GuestF!Contained
  \* Their logs: A follow that ends at the end of the file has delivered
  \* everything the process wrote, the last write before its end included, once
  \* it had the file open when the wait removed its name.
  /\ []Procs!EndsWhole
  \* Transfers: A helper the previous transfer left behind is not reused: the
  \* one a transfer streams through was made after it began (transferPod).
  /\ []Box!NotReused
  \* A transfer that is alone, with a sandbox that does not move and a cluster
  \* that answers, does not fail: every failure has another transfer, a fault
  \* or a start behind it (transferPod).
  /\ []Box!AloneServed

\* Every call of a driver answers, and what was deleted goes.
DriverCallsEnd ==
  \* Sandboxes on Kubernetes: every driver call answers: each wait has a
  \* budget, and each call a next.
  /\ part = "kube" /\ KubeFair => Kube!CallsEnd
  \* A sandbox the controller has forgotten leaves no workload, no claim and no
  \* Secret behind, though its delete ran beside a create or a move: the
  \* create's settle and the move's own delete remove what they made.
  /\ part = "kube" /\ KubeFair => Kube!ForgottenGoes
  \* The record of a sandbox on Kubernetes: every call is answered, since a
  \* lost patch is tried a bounded number of times.
  /\ part = "rec" /\ RecFair => Box!CallsAnswered
  \* Volumes on Kubernetes: A deleted volume's claim and fill Pod go and stay
  \* gone, though the delete came during a turn that was still making them.
  /\ part = "kvol" /\ KvolFair => Box!DeletedGoes
  \* Sandboxes on podman: every call returns: no caller waits on a lock for
  \* ever.
  /\ part = "pod" /\ PodFair => Pod!CallsEnd
  \* Volumes on podman: A delete ends with nothing of the volume left, once no
  \* container holds it.
  /\ part = "pvol" /\ PvolFair => Pod!DeletedGoes
  \* Processes of a device: A stop ends what it cancelled: no process recorded
  \* and killed stays alive.
  /\ part = "loc" /\ LocFair => Procs!StopEnds
  \* A main stage that ended is reported: the record does not go on saying
  \* Running, whichever driver reads it.
  /\ part = "loc" /\ LocFair => Procs!EndIsReported
  \* Sandboxes held by the platform: the lock is let go: a call that waits for
  \* reapers is not waited on by them.
  /\ part = "nat" /\ NatFair => Procs!CallsEnd
  \* How the main process ended is written: a Running record does not outlive
  \* its process, unless the driver dies with it.
  /\ part = "nat" /\ NatFair => Procs!EndIsWritten
  \* Their logs: A follow ends once its writer has.
  /\ part = "logs" /\ LogsFair => Procs!ReaderEnds
  \* Files of the host: every call answers: no step waits for another call.
  /\ part = "host" /\ HostFair => HostF!CallsEnd
  \* Files of a container: every call answers, whether or not its container is
  \* there.
  /\ part = "guest" /\ GuestFair => GuestF!CallsEnd
  \* Transfers: every transfer answers, whatever its Pod does.
  /\ part = "xfer" /\ XferFair => Box!TransfersEnd
  \* No helper outlives the transfers: it goes once none is in flight, unless
  \* the release itself failed or the control plane ended (release).
  /\ part = "xfer" /\ XferFair => Box!HelperDropped
=============================================================================

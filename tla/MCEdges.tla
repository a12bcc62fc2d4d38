------------------------------ MODULE MCEdges ------------------------------
\* The edges of the system. A computer that serves itself: its registration and
\* its key at the control plane, and beside its worker the questions put to its
\* owner, its policy, its activity log and the place of its key (Device). A
\* command: a session with a sandbox and one command answered at once (Exec),
\* and the shell over mounted folders (Shell). The components share no variable:
\* a behaviour is of one of them and the others rest in an initial state. What a
\* component does in the end is asked under the fairness its module states.
EXTENDS Naturals, Sequences, TLC

CONSTANTS Nil

VARIABLE part       \* the component this behaviour is of

\* Words over one mount: cd within it, to it and out of it, a relative path,
\* and one variable.
Word(o, abs, p) == [op |-> o, p |-> [abs |-> abs, el |-> p]]
Words == {Word("cd", TRUE, <<"n">>), Word("cd", FALSE, <<"..">>), Word("use", FALSE, <<"f">>),
          Word("assign", TRUE, <<"n", "f">>), [op |-> "var"]}

VARIABLES chk_line, chk_start, chk_at, chk_plan, chk_runs
chkVars == <<chk_line, chk_start, chk_at, chk_plan, chk_runs>>
\* A folder with a read-only folder mounted in it, and another folder.
dirM == <<"a", "m">>
dirD == <<"a", "d">>
dirE == <<"a", "e">>
dirZ == <<"z">>
dirZD == <<"z", "d">>
F(x) == Append(x, "f")
G(x) == Append(x, "g")
dirED == <<"a", "e", "d">>
Places == {<<"a">>, dirM, dirZ, dirD, dirE, dirZD, dirED}
            \cup {F(x) : x \in {dirM, dirD, dirE, dirZD, dirED}}
            \cup {G(x) : x \in {dirD, dirE, dirZD, dirED}}
Command(k, p, q) == <<[k |-> k, p |-> p, q |-> q, c |-> "none"]>>
\* Two programs of one pipe, both of which may move one directory, within its
\* mount or to the other, and a third after them.
Pipes == {l \in {<<x, y, t>> :
  x \in {Command("rm", <<"a">>, <<"a">>), Command("mv", dirD, dirZ), Command("mv", dirD, dirE),
         Command("mv", F(dirD), G(dirD)), Command("mv", dirM, dirE), Command("rm", F(dirM), F(dirM)),
         Command("cp", dirD, dirZ)},
  y \in {<<>>, Command("put", F(dirD), F(dirD)), Command("mkdir", G(dirD), G(dirD)),
         Command("touch", G(dirD), G(dirD)), Command("rm", dirD, dirD), Command("mv", dirD, dirE)},
  t \in {<<>>, Command("ls", dirD, dirD), Command("mkdir", dirD, dirD)}} :
    /\ l[1] = Command("mv", F(dirD), G(dirD)) => l[2] # Command("mkdir", G(dirD), G(dirD))
    /\ l[2] # <<>> /\ l[3] # <<>> => l[1] \in {Command("mv", dirD, dirZ), Command("mv", dirD, dirE)}}

VARIABLES file_world, file_fs, file_dirs, file_made, file_listing, file_st, file_faults,
          file_past
fileVars == <<file_world, file_fs, file_dirs, file_made, file_listing, file_st, file_faults,
     file_past>>
Programs == {<<"call", "hold", "put", "flush", "free">>,
             <<"call", "put", "put", "flush", "call", "put", "flush">>,
             <<"open", "call", "hold", "write", "free", "close">>,
             <<"open", "call", "write", "write", "close">>}

VARIABLES pipe_stage, pipe_budget, pipe_out, pipe_flags, pipe_ctx, pipe_time, pipe_answer,
          pipe_told
pipeVars == <<pipe_stage, pipe_budget, pipe_out, pipe_flags, pipe_ctx, pipe_time,
     pipe_answer, pipe_told>>
Sh == INSTANCE Shell WITH line <- chk_line, start <- chk_start, at <- chk_at, plan <- chk_plan,
     runs <- chk_runs, Mounts <- {<<"n">>}, Leaves <- Words, Depth <- 2, MaxAlts <- 2, world <-
     file_world, fs <- file_fs, dirs <- file_dirs, made <- file_made, listing <- file_listing,
     st <- file_st, faults <- file_faults, past <- file_past, Paths <- Places, Folders <- {[dir
     |-> <<"a">>, ro |-> FALSE], [dir |-> dirM, ro |-> TRUE], [dir |-> dirZ, ro |-> FALSE]},
     Files0 <- (F(dirM) :> "k") @@ (F(dirD) :> "f"), Lines <- Pipes, Worlds <- [renamer :
     BOOLEAN, dirmaker : BOOLEAN], MaxFaults <- 1, stage <- pipe_stage, budget <-
     pipe_budget, out <- pipe_out, flags <- pipe_flags, ctx <- pipe_ctx, time <- pipe_time,
     answer <- pipe_answer, told <- pipe_told, Pipe <- {1, 2}, Last <- 2, Programs <- Programs,
     Steps <- 2, Input <- 1

VARIABLES dev_plane, dev_ownerOf, dev_minted, dev_refused, dev_named, dev_store, dev_owner,
          dev_held, dev_tied, dev_pc, dev_dev, dev_key, dev_retiring, dev_cause, dev_online,
          dev_paused, dev_call, dev_asking, dev_client, dev_tokens, dev_engineFaults, dev_late,
          dev_swapped, dev_misled
devVars == <<dev_plane, dev_ownerOf, dev_minted, dev_refused, dev_named, dev_store,
     dev_owner, dev_held, dev_tied, dev_pc, dev_dev, dev_key, dev_retiring, dev_cause,
     dev_online, dev_paused, dev_call, dev_asking, dev_client, dev_tokens, dev_engineFaults, dev_late,
     dev_swapped, dev_misled>>
Asked == {<<{1, 2}, {1}>>, <<{1}, {1, 2}>>}      \* creates and clients

VARIABLES app_pending, app_at, app_verdict, app_answer, app_stream, app_events, app_view,
          app_follows, app_crossed
appVars == <<app_pending, app_at, app_verdict, app_answer, app_stream, app_events, app_view,
     app_follows, app_crossed>>
VARIABLES pol_file, pol_want, pol_policy, pol_stage, pol_runs, pol_drv, pol_saved,
          pol_allowed, pol_cancelled, pol_put, pol_save, pol_allow, pol_puts, pol_saves,
          pol_missed, pol_passed
polVars == <<pol_file, pol_want, pol_policy, pol_stage, pol_runs, pol_drv, pol_saved,
     pol_allowed, pol_cancelled, pol_put, pol_save, pol_allow, pol_puts, pol_saves,
     pol_missed, pol_passed>>
VARIABLES log_name, log_data, log_wf, log_rot, log_n, log_faults, log_pos, log_place,
          log_rf, log_off, log_got, log_skipped
logVars == <<log_name, log_data, log_wf, log_rot, log_n, log_faults, log_pos, log_place,
     log_rf, log_off, log_got, log_skipped>>
VARIABLES key_reachable, key_chain, key_kf, key_last, key_keyNo, key_flips, key_answered,
          key_behind
keyVars == <<key_reachable, key_chain, key_kf, key_last, key_keyNo, key_flips, key_answered,
     key_behind>>
Dev == INSTANCE Device WITH plane <- dev_plane, ownerOf <- dev_ownerOf, minted <- dev_minted,
     refused <- dev_refused, named <- dev_named, store <- dev_store, owner <- dev_owner, held
     <- dev_held, tied <- dev_tied, pc <- dev_pc, dev <- dev_dev, key <- dev_key, retiring <-
     dev_retiring, cause <- dev_cause, online <- dev_online, paused <- dev_paused, call <-
     dev_call, asking <- dev_asking, client <- dev_client, tokens <- dev_tokens, engineFaults <-
     dev_engineFaults, late <- dev_late, swapped <- dev_swapped, misled <- dev_misled, Devices <-
     {1, 2}, Keys <- {1, 2, 3}, Persons <- {"p", "q"}, MaxTokens <- 2, MaxEngineFaults <- 1,
     pending <- app_pending, at <- app_at, verdict <- app_verdict, answer <- app_answer,
     stream <- app_stream, events <- app_events, view <- app_view, follows <- app_follows,
     crossed <- app_crossed, Creates <- {1, 2}, Clients <- {1, 2}, Worlds <- Asked, Buffer <-
     1, MaxFollows <- 2, file <- pol_file, want <- pol_want, policy <- pol_policy, stage <-
     pol_stage, runs <- pol_runs, drv <- pol_drv, saved <- pol_saved, allowed <- pol_allowed,
     cancelled <- pol_cancelled, put <- pol_put, save <- pol_save, allow <- pol_allow, puts
     <- pol_puts, saves <- pol_saves, missed <- pol_missed, passed <- pol_passed, Hosts <-
     {"h1", "h2"}, Triggers <- {"t"}, Putters <- {"p1", "p2"}, MaxPuts <- 2, MaxSaves <- 1, name <-
     log_name, data <- log_data, wf <- log_wf, rot <- log_rot, n <- log_n, faults <-
     log_faults, pos <- log_pos, place <- log_place, rf <- log_rf, off <- log_off, got <-
     log_got, skipped <- log_skipped, Keep <- 2, PerFile <- 2, MaxEntries <- 7, MaxFaults <-
     1, reachable <- key_reachable, chain <- key_chain, kf <- key_kf, last <- key_last, keyNo
     <- key_keyNo, flips <- key_flips, answered <- key_answered, behind <- key_behind,
     MaxKeys <- 4, MaxFlips <- 4

VARIABLES ses_kind, ses_proc, ses_copier, ses_pump, ses_chans, ses_reader, ses_loop,
          ses_client, ses_conn, ses_record, ses_past
sesVars == <<ses_kind, ses_proc, ses_copier, ses_pump, ses_chans, ses_reader, ses_loop,
     ses_client, ses_conn, ses_record, ses_past>>
VARIABLES ex_form, ex_at, ex_run, ex_copy, ex_joined, ex_answer, ex_caller, ex_late,
          ex_hold, ex_stored
exVars == <<ex_form, ex_at, ex_run, ex_copy, ex_joined, ex_answer, ex_caller, ex_late,
     ex_hold, ex_stored>>
Ex == INSTANCE Exec WITH kind <- ses_kind, proc <- ses_proc, copier <- ses_copier, pump <-
     ses_pump, chans <- ses_chans, reader <- ses_reader, loop <- ses_loop, client <- ses_client,
     conn <- ses_conn, record <- ses_record, past <- ses_past, Kinds <- {"attach", "exec",
     "dial", "screen"}, MaxOut <- 1, MaxFrames <- 2, form <- ex_form, at <- ex_at, run <-
     ex_run, copy <- ex_copy, joined <- ex_joined, answer <- ex_answer, caller <- ex_caller,
     late <- ex_late, hold <- ex_hold, stored <- ex_stored, Forms <- {"stream", "wait"}, Chunks
     <- 2, Cap <- 1

vars == <<part, chkVars, fileVars, pipeVars, devVars, appVars, polVars, logVars, keyVars,
     sesVars, exVars>>

Init ==
  /\ part \in {"chk", "file", "pipe", "dev", "app", "pol", "log", "key", "ses", "ex"}
  /\ Sh!CheckInit /\ (part # "chk" => chk_line = [op |-> "var"] /\ chk_start = <<"n">>)
  /\ Sh!FilesInit /\ (part # "file" => file_world.renamer /\ file_world.dirmaker /\ <<file_st[1].cmd, file_st[2].cmd, file_st[3].cmd>> = <<Command("rm", <<"a">>, <<"a">>), <<>>, <<>>>>)
  /\ Sh!RunInit /\ (part # "pipe" => pipe_stage[1].todo[2] = "hold" /\ pipe_stage[2].todo[2] = "hold")
  /\ Dev!EngineInit
  /\ Dev!ApprovalsInit /\ (part # "app" => app_at[2] = "new")
  /\ Dev!PolicyInit
  /\ Dev!LogInit
  /\ Dev!KeysInit /\ (part # "key" => key_reachable)
  /\ Ex!SessionInit /\ (part # "ses" => ses_kind = "exec")
  /\ Ex!ExecInit /\ (part # "ex" => ex_form = "wait")

\* The component the behaviour is of moves; the others rest.
Next ==
  /\ UNCHANGED part
  /\ \/ part = "chk" /\ Sh!CheckNext /\ UNCHANGED <<fileVars, pipeVars, devVars, appVars, polVars, logVars,
            keyVars, sesVars, exVars>>
     \/ part = "file" /\ Sh!FilesNext /\ UNCHANGED <<chkVars, pipeVars, devVars, appVars, polVars, logVars,
            keyVars, sesVars, exVars>>
     \/ part = "pipe" /\ Sh!RunNext /\ UNCHANGED <<chkVars, fileVars, devVars, appVars, polVars, logVars,
            keyVars, sesVars, exVars>>
     \/ part = "dev" /\ Dev!EngineNext /\ UNCHANGED <<chkVars, fileVars, pipeVars, appVars, polVars, logVars,
            keyVars, sesVars, exVars>>
     \/ part = "app" /\ Dev!ApprovalsNext /\ UNCHANGED <<chkVars, fileVars, pipeVars, devVars, polVars,
            logVars, keyVars, sesVars, exVars>>
     \/ part = "pol" /\ Dev!PolicyNext /\ UNCHANGED <<chkVars, fileVars, pipeVars, devVars, appVars, logVars,
            keyVars, sesVars, exVars>>
     \/ part = "log" /\ Dev!LogNext /\ UNCHANGED <<chkVars, fileVars, pipeVars, devVars, appVars, polVars,
            keyVars, sesVars, exVars>>
     \/ part = "key" /\ Dev!KeysNext /\ UNCHANGED <<chkVars, fileVars, pipeVars, devVars, appVars, polVars,
            logVars, sesVars, exVars>>
     \/ part = "ses" /\ Ex!SessionNext /\ UNCHANGED <<chkVars, fileVars, pipeVars, devVars, appVars, polVars,
            logVars, keyVars, exVars>>
     \/ part = "ex" /\ Ex!ExecNext /\ UNCHANGED <<chkVars, fileVars, pipeVars, devVars, appVars, polVars,
            logVars, keyVars, sesVars>>

Spec == Init /\ [][Next]_vars

\* The fairness of Shell, for the behaviours of the files of a command line.
FileFair ==
  /\ \A i \in Sh!Stages : WF_fileVars(part = "file" /\ (Sh!View(i) \/ Sh!Program(i)))

\* The fairness of Shell, for the behaviours of the run of a pipe.
PipeFair ==
  /\ \A i \in {1, 2} : WF_pipeVars(part = "pipe" /\ Sh!Stage(i))
  /\ WF_pipeVars(part = "pipe" /\ Sh!DeadlineSeen)
  /\ WF_pipeVars(part = "pipe" /\ Sh!Answer)

\* The fairness of Device, for the behaviours of a device that registers itself.
DevFair ==
  /\ WF_devVars(part = "dev" /\ Dev!RunSteps)
  /\ WF_devVars(part = "dev" /\ Dev!Asking)
  /\ WF_devVars(part = "dev" /\ Dev!RemoveHere)
  /\ WF_devVars(part = "dev" /\ Dev!Connected)

\* The fairness of Device, for the behaviours of the questions put to the device's owner.
AppFair ==
  /\ \A c \in {1, 2} : WF_appVars(part = "app" /\ Dev!Engine(c))
  /\ \A f \in {1, 2} : WF_appVars(part = "app" /\ Dev!Client(f))

\* The fairness of Device, for the behaviours of the device's policy.
PolFair ==
  /\ WF_polVars(part = "pol" /\ Dev!Run)
  /\ WF_polVars(part = "pol" /\ Dev!HostSaved)
  /\ \A p \in {"p1", "p2"} : WF_polVars(part = "pol" /\ Dev!Change(p))

\* The fairness of Device, for the behaviours of its activity log.
LogFair ==
  /\ WF_logVars(part = "log" /\ Dev!Reader)
  /\ WF_logVars(part = "log" /\ Dev!Writer)

\* The fairness of Exec, for the behaviours of a session.
SesFair ==
  /\ WF_sesVars(part = "ses" /\ Ex!Pump)
  /\ WF_sesVars(part = "ses" /\ Ex!Reader)
  /\ WF_sesVars(part = "ses" /\ Ex!Loop)

\* The fairness of Exec, for the behaviours of a command in one answer.
ExFair ==
  /\ WF_exVars(part = "ex" /\ Ex!Handler)
  /\ WF_exVars(part = "ex" /\ Ex!Copies)
  /\ WF_exVars(part = "ex" /\ Ex!Command)
  /\ WF_exVars(part = "ex" /\ Ex!TimesOut)

-----------------------------------------------------------------------------
(* Properties *)

\* Every component keeps its values in their ranges.
TypesHold == Sh!CheckTypeOK /\ Sh!FilesTypeOK /\ Sh!RunTypeOK /\ Dev!EngineTypeOK /\
             Dev!ApprovalsTypeOK /\ Dev!PolicyTypeOK /\ Dev!LogTypeOK /\ Dev!KeysTypeOK
             /\ Ex!SessionTypeOK /\ Ex!ExecTypeOK

\* A command line that was let through uses served paths only, and its programs
\* lose nothing, leave nothing half written and end on the first bound they
\* reach.
ShellKeepsFiles ==
  /\ []TypesHold
  \* The check of a command line: "Every path it names ... is served": whatever
  \* fails or succeeds on the way, a line Check allows, whose variables are set
  \* on every way to their use, uses served paths only, in every directory it
  \* comes to.
  /\ []Sh!ServedOnly
  \* The walk's directories are the ones the shell may be in: where a line ends
  \* is one of them, told apart by the status it ended with.
  /\ []Sh!DirsKnown
  \* The files of a command line: mv and cp lose nothing: unless the line
  \* removes or writes over it, what a file held is in some file at every
  \* moment, also when a call fails half way or both programs of the pipe move
  \* the same tree.
  /\ []Sh!NothingLost
  \* rm -r that ends well has left nothing of the tree it was given, if nothing
  \* else of the line was writing there.
  /\ []Sh!RemoveIsWhole
  \* A listing is kept until something changes: once the pipe is over the last
  \* program lists what is there, unless a change of one program fell between
  \* another's read of a directory and its keeping of what it read.
  /\ []Sh!ListingTrue
  \* A read-only mount, one mounted inside a folder that may be written among
  \* them, keeps its files whatever the line's programs do.
  /\ Sh!ReadOnlyStays
  \* The run of a pipe: every unit held is let go by whoever holds it: a line
  \* that ran to its end holds nothing, one a bound stopped no more than the
  \* write that was refused.
  /\ []Sh!AllLetGo
  \* "the first bound reached is the one the line reports, and nothing written
  \* after it reaches the output": the bound's message is the line's last
  \* words, and nothing was written between the bound and them.
  /\ []Sh!LastWords
  \* No file of a redirection is stored of a command a bound cut short, but of
  \* one that met its passed time before the deadline's function marked the
  \* line.
  /\ []Sh!StoredWhole
  \* "a line that ends on a write the file system then refused fails": unless
  \* another stage of the pipe called a command after it.
  /\ []Sh!RefusedTells

\* A computer serves only as the device its file names, with its owner's word,
\* policy, log and key.
DeviceIsItsOwners ==
  \* A device that registers itself: A run serves a device only while the file
  \* names it, or it is being removed: a removal right after a connect,
  \* whichever of the two reaches the lock first, leaves no run serving a
  \* device the computer forgot (startMu).
  /\ []Dev!ServesNamed
  \* A device the computer forgot leaves no key here, but for one a question
  \* still open when it was forgotten came to mint.
  /\ []Dev!NoKeyLeft
  \* The recorded owner is the person whose device it is, but for one confirmed
  \* by an answer another's token got.
  /\ []Dev!OwnerIsTrue
  \* The key the engine revokes once its replacement registered is never the
  \* one it serves with or keeps.
  /\ []Dev!NeverServesRetired
  \* A device is not forgotten on an answer that may be another person's: while
  \* it is its owner's still, the file goes on naming it unless a client
  \* removed it here, whatever tokens were handed.
  /\ Dev!KeptForItsOwner
  \* The device's policy: A trigger the person remembered stays remembered
  \* through every change of the rest of the policy, a slow rename at the
  \* platform included.
  /\ []Dev!RememberedStays
  \* With no change under way the sessions' commands reach what the file says:
  \* the hosts saved meanwhile are neither lost to the new driver nor kept past
  \* a change that drops them; until a later reload not after a reload that
  \* came while the driver was being built, nor after two changes that reached
  \* the engine in another order than the file.
  /\ []Dev!ServesFile
  \* What was allowed for a session alone goes with the worker it was allowed
  \* under: none of it reaches the sessions of the next, but for one whose
  \* session was found under the old worker and that was kept after its end.
  /\ []Dev!AllowanceEnds
  \* Its activity log: the reader is handed entries in the order they were
  \* written and none twice, whatever rotation its reads meet.
  /\ []Dev!InOrder
  \* A file still kept is never written over: an entry leaves the log only with
  \* the oldest file.
  /\ Dev!OldestGoes
  \* Its key: A read answers the key written last, wherever the two writes
  \* landed, while the keychain holds no copy older than one it could not be
  \* reached for.
  /\ []Dev!ReadsLast


\* Every line, removal, question, session and command ends.
EdgesEnd ==
  \* The files of a command line: every program of a line ends, whatever the
  \* others do.
  /\ part = "file" /\ FileFair => Sh!LineEnds
  \* The run of a pipe: A line ends, and one whose time passed ends on a bound's
  \* words or its caller's own end.
  /\ part = "pipe" /\ PipeFair => Sh!RunEnds
  \* A device that registers itself: A key revoked elsewhere is replaced while
  \* the person's token is there: the computer does not stay refused.
  /\ part = "dev" /\ DevFair => Dev!RecoversKey
  \* The engine does not get stuck in a removal.
  /\ part = "dev" /\ DevFair => Dev!RemovalEnds
  \* The questions put to the device's owner: A create somebody answered, or
  \* nobody is left to answer, is decided without waiting for its time to end.
  /\ part = "app" /\ AppFair => Dev!AnsweredEnds
  \* The device's policy: A reload that found a worker is served: the engine
  \* comes back to the policy it was handed, but for one that met a driver
  \* being built and two changes that passed each other.
  /\ part = "pol" /\ PolFair => Dev!ChangeServed
  \* Its activity log: once it follows, the reader comes to have every entry
  \* still being written, across a rotation at any moment between its reads;
  \* passed over are only the entries written or moved while it first read, and
  \* a whole file rotated in and out between two of its looks.
  /\ part = "log" /\ LogFair => Dev!FollowsAll
  \* A session: A session ends once its client left or its process ended,
  \* unless the loop is writing to a command that closed its input.
  /\ part = "ses" /\ SesFair => Ex!SessionEnds
  \* A session that returned leaves no goroutine of its own behind, unless its
  \* pump ended on a write: then nothing closes ended, and a reader that holds
  \* a frame waits on it.
  /\ part = "ses" /\ SesFair => Ex!NoneLeft
  \* A command in one answer: every exec is answered: the timeout bounds it.
  /\ part = "ex" /\ ExFair => Ex!Answered
=============================================================================

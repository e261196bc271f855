------------------------------- MODULE LogSinks -------------------------------
(***************************************************************************)
(* The process-global logger of Nix, which LogSinkInstall moves into a tee *)
(* with one more sink and SetLogFormat replaces (nix_go_main_cpp.cc,       *)
(* nix_go_main.c), while operations log events to it.  If the tee cannot   *)
(* be made the process aborts; files of sinks outlive it.  A process has   *)
(* one logger and one interruption flag, and no name here is one of        *)
(* Interrupt's, so that a module may extend both.                          *)
(***************************************************************************)
EXTENDS Naturals, Sequences, FiniteSets

CONSTANTS
  Destination,  \* files and sockets that can be sinks
  Null,         \* a NULL destination, or a logger that was moved from
  MaxSinks,     \* bound: sinks of one logger
  MaxEvents     \* bound: events that are logged

ASSUME NullAssumption == Null \notin Destination \cup Seq(Destination)
ASSUME BoundAssumption == MaxSinks \in Nat /\ MaxEvents \in Nat

VARIABLES
  running,    \* whether there is a process
  logger,     \* the sinks of the logger, in the order of installation, or Null
  install,    \* the LogSinkInstall in progress
  records,    \* what each destination has received
  events,     \* the number of events so far
  installed,  \* history: the sinks that calls have installed and none discarded
  due         \* history: the events of the time that each sink was installed

logVars == <<running, logger, install, records, events, installed, due>>

NoInstall == [at |-> "idle", destination |-> Null, tee |-> << >>]
Install(at, destination, tee) == [at |-> at, destination |-> destination, tee |-> tee]

(* README.md asks to set the format, to install sinks and then to run       *)
(* operations: callers do nothing else while an install is in progress, not *)
(* even install another sink.                                               *)
Quiet == running /\ install = NoInstall

-----------------------------------------------------------------------------
(* go_nix_log_sink_install *)

InstallCall(destination) ==
  /\ Quiet
  /\ Len(logger) < MaxSinks
  /\ install' = Install("open", destination, << >>)
  /\ UNCHANGED <<running, logger, records, events, installed, due>>

(* Defect: the logger has been moved already. *)
RefusedAfterMove ==
  /\ install.at = "open"
  /\ install' = NoInstall
  /\ logger' = Null
  /\ UNCHANGED <<running, records, events, installed, due>>

(* The destination is NULL, or makeJSONLogger cannot open it.               *)
Refused ==
  /\ install.at = "open"
  /\ install' = NoInstall
  /\ UNCHANGED <<running, logger, records, events, installed, due>>

(* Defect: NULL is not refused. *)
OpenUnchecked ==
  /\ install.at = "open"
  /\ install' = [install EXCEPT !.at = "move"]
  /\ UNCHANGED <<running, logger, records, events, installed, due>>

Open ==
  /\ install.at = "open" /\ install.destination # Null
  /\ install' = [install EXCEPT !.at = "move"]
  /\ UNCHANGED <<running, logger, records, events, installed, due>>

Move ==
  /\ install.at = "move"
  /\ install' = [install EXCEPT !.at = "tee", !.tee = logger]
  /\ logger' = Null
  /\ UNCHANGED <<running, records, events, installed, due>>

(* makeTeeLogger throws: std::abort() *)
Abort ==
  /\ install.at = "tee"
  /\ running' = FALSE
  /\ install' = NoInstall
  /\ UNCHANGED <<logger, records, events, installed, due>>

(* Defect: the tee has the new sink alone. *)
AssignAlone ==
  /\ install.at = "tee"
  /\ logger' = <<install.destination>>
  /\ installed' = Append(installed, install.destination)
  /\ install' = NoInstall
  /\ UNCHANGED <<running, records, events, due>>

Assign ==
  /\ install.at = "tee"
  /\ logger' = Append(install.tee, install.destination)
  /\ installed' = Append(installed, install.destination)
  /\ install' = NoInstall
  /\ UNCHANGED <<running, records, events, due>>

-----------------------------------------------------------------------------
(* go_nix_set_log_format: an unknown format is refused; another one gives a *)
(* new logger without sinks.                                                *)
SetLogFormat ==
  /\ Quiet
  /\ logger' = << >> /\ installed' = << >>
  /\ UNCHANGED <<running, install, records, events, due>>

(* An operation logs an event: each sink of the logger gets it.  A          *)
(* destination that was installed twice gets it twice.                      *)
Times(d, sinks) == Cardinality({i \in DOMAIN sinks : sinks[i] = d})
Delivered(log, sinks) ==
  [d \in Destination |-> log[d] \o [i \in 1 .. Times(d, sinks) |-> events + 1]]

Log ==
  /\ Quiet
  /\ events < MaxEvents
  /\ events' = events + 1
  /\ records' = Delivered(records, logger)
  /\ due' = Delivered(due, installed)
  /\ UNCHANGED <<running, logger, install, installed>>

(* Another process starts; what the sinks' files hold stays.                *)
Restart ==
  /\ ~running
  /\ running' = TRUE
  /\ logger' = << >> /\ installed' = << >>
  /\ UNCHANGED <<install, records, events, due>>

-----------------------------------------------------------------------------
LogInit ==
  /\ running = TRUE
  /\ logger = << >> /\ installed = << >>
  /\ install = NoInstall
  /\ records = [d \in Destination |-> << >>] /\ due = records
  /\ events = 0

LogNext ==
  \/ \E d \in Destination \cup {Null} : InstallCall(d)
  \/ Refused \/ Open \/ Move \/ Abort \/ Assign
  \/ SetLogFormat \/ Log \/ Restart

LogSpec == LogInit /\ [][LogNext]_logVars

-----------------------------------------------------------------------------
LogTypeOK ==
  /\ running \in BOOLEAN
  /\ logger = Null \/ logger \in Seq(Destination)
  /\ installed \in Seq(Destination)
  /\ install.at \in {"idle", "open", "move", "tee"} /\ install.tee \in Seq(Destination)
  /\ records \in [Destination -> Seq(1 .. events)]
  /\ events \in 0 .. MaxEvents

(* Between calls there is a logger for operations to use, whatever install  *)
(* was refused (nix_go_main_cpp.cc:17-30): the move comes last.             *)
LoggerIsThere == Quiet => logger # Null

(* "Additional calls add additional sinks": a sink gets every event from    *)
(* the call that installed it to the next SetLogFormat or to the end of the *)
(* process, in order and once for each time it was installed, and nothing   *)
(* else; an abort loses none of it.                                         *)
EverySinkGetsEverything == records = due
=============================================================================

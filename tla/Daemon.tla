------------------------------- MODULE Daemon -------------------------------
(***************************************************************************)
(* The life of eventframed processes that share their files: each opens    *)
(* the stores, loads or creates the agency signing key pair and the two    *)
(* tokens, builds the service, listens, signs proposals, and ends, by an   *)
(* error, a signal or a crash.                                             *)
(*                                                                         *)
(* Agency mode on a Unix socket.  A key file is absent, torn (created but  *)
(* not, or not wholly, written) or holds a generated value; the public key *)
(* of a pair is named by the same value as the private one.  The database  *)
(* library is not assumed to keep a second process out.                    *)
(***************************************************************************)
EXTENDS Naturals, Sequences

CONSTANTS
  Processes,   \* starts of the program
  MaxKeys      \* bound: values generated

ASSUME DaemonAssumption == MaxKeys \in Nat

VARIABLES
  file,      \* key file -> Absent, Torn or a value
  step,      \* process -> what it does next
  holds,     \* process -> key file -> the value it works with
  open,      \* process -> stores and connections it has open
  generated, \* values generated so far
  socket,    \* who bound the socket at the path: a process or None
  signed     \* not in the code: the keys proposals were signed with

daemonVars == <<file, step, holds, open, generated, socket, signed>>

Absent == 0
Torn == MaxKeys + 1
NoProcess == "none"

\* The key files, in the order a start turns to them.
KeyFiles == <<"private", "public", "issuer", "authority">>
Files == {KeyFiles[i] : i \in DOMAIN KeyFiles}

Turn(name, i) == [do |-> name, i |-> i]
Plain(name) == Turn(name, 0)
At(d, name) == step[d].do = name
FileOf(d) == KeyFiles[step[d].i]

\* The step after file i is settled.
AfterFile(i) == IF i < Len(KeyFiles) THEN Turn("look", i + 1) ELSE Plain("contracts")

Settle(d, value) ==
  /\ holds' = [holds EXCEPT ![d][FileOf(d)] = value]
  /\ step' = [step EXCEPT ![d] = AfterFile(step[d].i)]

-----------------------------------------------------------------------------
(* The way up.                                                             *)

\* libravdbstore.Open, then rankdelta.Open.
OpenStores(d) ==
  /\ \/ /\ At(d, "store")
        /\ open' = [open EXCEPT ![d] = @ \cup {"store"}]
        /\ step' = [step EXCEPT ![d] = Plain("deltas")]
     \/ /\ At(d, "deltas")
        /\ open' = [open EXCEPT ![d] = @ \cup {"deltas"}]
        /\ step' = [step EXCEPT ![d] = Turn("look", 1)]
  /\ UNCHANGED <<file, holds, generated, socket, signed>>

\* readRestrictedFile and the Lstat of ensurePublicKeyFile: a missing private
\* key or token is generated, the missing public key is that of the pair; what
\* is there is decoded, and a public key must be that of the private one.
Look(d) ==
  LET f == FileOf(d)
      derived == f = "public"
  IN  /\ At(d, "look")
      /\ \/ /\ file[f] = Absent
            /\ IF derived
               THEN /\ holds' = [holds EXCEPT ![d][f] = holds[d]["private"]]
                    /\ UNCHANGED generated
               ELSE /\ generated < MaxKeys
                    /\ generated' = generated + 1
                    /\ holds' = [holds EXCEPT ![d][f] = generated + 1]
            /\ step' = [step EXCEPT ![d] = Turn("create", @.i)]
         \/ /\ file[f] \notin {Absent, Torn}
            /\ derived => file[f] = holds[d]["private"]
            /\ Settle(d, file[f])
            /\ UNCHANGED generated
      /\ UNCHANGED <<file, open, socket, signed>>

\* Fault: the file is created, or emptied, whoever made it.
CreateOver(d) ==
  /\ At(d, "create")
  /\ file' = [file EXCEPT ![FileOf(d)] = Torn]
  /\ step' = [step EXCEPT ![d] = Turn("write", @.i)]
  /\ UNCHANGED <<holds, open, generated, socket, signed>>

\* OpenFile with O_CREATE and O_EXCL.
Create(d) ==
  /\ At(d, "create")
  /\ file[FileOf(d)] = Absent
  /\ file' = [file EXCEPT ![FileOf(d)] = Torn]
  /\ step' = [step EXCEPT ![d] = Turn("write", @.i)]
  /\ UNCHANGED <<holds, open, generated, socket, signed>>

WriteKey(d) ==
  /\ At(d, "write")
  /\ file' = [file EXCEPT ![FileOf(d)] = holds[d][FileOf(d)]]
  /\ Settle(d, holds[d][FileOf(d)])
  /\ UNCHANGED <<open, generated, socket, signed>>

\* The contract client, if one is configured, then service.New, which takes
\* the stores over.
Assemble(d) ==
  /\ \/ /\ At(d, "contracts")
        /\ \/ open' = [open EXCEPT ![d] = @ \cup {"contracts"}]
           \/ UNCHANGED open
        /\ step' = [step EXCEPT ![d] = Plain("service")]
     \/ /\ At(d, "service")
        /\ step' = [step EXCEPT ![d] = Plain("listen")]
        /\ UNCHANGED open
  /\ UNCHANGED <<file, holds, generated, socket, signed>>

\* listen: a socket at the path is removed, whosever it is; then the path is
\* bound, which fails if another process bound it meanwhile.
Listen(d) ==
  /\ \/ /\ At(d, "listen")
        /\ socket' = NoProcess
        /\ step' = [step EXCEPT ![d] = Plain("bind")]
     \/ /\ At(d, "bind") /\ socket = NoProcess
        /\ socket' = d
        /\ step' = [step EXCEPT ![d] = Plain("serving")]
  /\ UNCHANGED <<file, holds, open, generated, signed>>

-----------------------------------------------------------------------------
(* Serving, and the ways down.                                             *)

\* persistAgencyProposal signs with the key the process loaded.
SignProposal(d) ==
  /\ At(d, "serving")
  /\ signed' = signed \cup {holds[d]["private"]}
  /\ UNCHANGED <<file, step, holds, open, generated, socket>>

\* service.Close, the deferred closes of run, or the operating system.
Closed(d) == open' = [open EXCEPT ![d] = {}]

\* A signal, or an error of Serve: the listener unlinks the path as it closes,
\* and so does the deferred cleanup; then the stores and the connection close.
ShutDown(d) ==
  /\ \/ /\ At(d, "serving")
        /\ socket' = NoProcess
        /\ step' = [step EXCEPT ![d] = Plain("closing")]
        /\ UNCHANGED open
     \/ /\ At(d, "closing")
        /\ Closed(d)
        /\ step' = [step EXCEPT ![d] = Plain("stopped")]
        /\ UNCHANGED socket
  /\ UNCHANGED <<file, holds, generated, signed>>

\* A step on the way up fails: a torn or foreign key file, a lost race for a
\* file or for the path, or an error of the operating system, which may also
\* leave the file being written torn.  Everything opened is closed.
Abort(d) ==
  /\ step[d].do \notin {"serving", "closing", "stopped", "crashed"}
  /\ step' = [step EXCEPT ![d] = Plain("stopped")]
  /\ Closed(d)
  /\ UNCHANGED <<file, holds, generated, socket, signed>>

\* The process is killed: the files and the socket's name stay.
Kill(d) ==
  /\ step[d].do \notin {"stopped", "crashed"}
  /\ step' = [step EXCEPT ![d] = Plain("crashed")]
  /\ Closed(d)
  /\ UNCHANGED <<file, holds, generated, socket, signed>>

-----------------------------------------------------------------------------

DaemonInit ==
  /\ file = [f \in Files |-> Absent]
  /\ step = [d \in Processes |-> Plain("store")]
  /\ holds = [d \in Processes |-> [f \in Files |-> Absent]]
  /\ open = [d \in Processes |-> {}]
  /\ generated = 0
  /\ socket = NoProcess
  /\ signed = {}

DaemonNext ==
  \E d \in Processes :
    \/ OpenStores(d) \/ Look(d) \/ Create(d) \/ WriteKey(d)
    \/ Assemble(d) \/ Listen(d) \/ SignProposal(d)
    \/ ShutDown(d) \/ Abort(d) \/ Kill(d)

DaemonSpec == DaemonInit /\ [][DaemonNext]_daemonVars

-----------------------------------------------------------------------------
(* Properties.                                                             *)

\* Verify, by the key the authority reads from the public key file.
Verifies(k) == file["public"] = k

\* Whatever starts race for the key files and wherever one was killed, every
\* process that serves works with the very values of the four files, so what
\* any of them ever signed verifies under the public key the authority reads
\* (LoadOrCreateSigner, loadOrCreateToken, ensurePublicKeyFile, Verify).
KeysAgree ==
  /\ \A d \in Processes : At(d, "serving") => holds[d] = file
  /\ \A k \in signed : Verifies(k)
=============================================================================

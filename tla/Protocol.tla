------------------------------- MODULE Protocol -------------------------------
(***************************************************************************)
(* The line protocol of protocol.rs: what a subcommand puts on the wire    *)
(* (cli.rs request_for) and how a reply is told from the others on the     *)
(* other side.  A reply on the wire is the set of the keys of its object:  *)
(* serde gives the enum Response no tag, so the client takes the first     *)
(* variant whose keys are all there and ignores the keys it does not know. *)
(***************************************************************************)
EXTENDS Naturals, Sequences

PROTOCOL_VERSION == 1

\* cli::Sub and protocol::Request; `wait` and the rest default to absent.
Verb == {"status", "restart", "kill", "stop", "start", "run", "quit", "logs"}

\* Request as the client sends it: given is what `run` got, of a command and a
\* --wrap prefix; since is the --since of `logs`.
Sub == [verb : Verb, slot : STRING, wait : BOOLEAN,
        given : SUBSET {"cmd", "wrap"}, since : {"none", "duration", "malformed"}]

\* cli::request_for: what is refused before anything is sent.
HasRequest(sub) ==
  /\ sub.verb = "run" => sub.given # {}
  /\ sub.verb = "logs" => sub.since # "malformed"

\* Mistake: the acknowledgement is tried first.
DoneFirst ==
  << [kind |-> "Done",   needs |-> {"ok"}],
     [kind |-> "Error",  needs |-> {"ok", "error"}],
     [kind |-> "Status", needs |-> {"ok", "pid", "dir", "procs"}],
     [kind |-> "Logs",   needs |-> {"ok", "lines"}],
     [kind |-> "Acted",  needs |-> {"ok", "started", "skipped"}] >>

\* The keys each variant of Response needs, in declaration order.
Variants ==
  << [kind |-> "Error",  needs |-> {"ok", "error"}],
     [kind |-> "Status", needs |-> {"ok", "pid", "dir", "procs"}],
     [kind |-> "Logs",   needs |-> {"ok", "lines"}],
     [kind |-> "Acted",  needs |-> {"ok", "started", "skipped"}],
     [kind |-> "Done",   needs |-> {"ok"}] >>

Kind == {Variants[i].kind : i \in DOMAIN Variants}

\* Serialising: an Acted reply carries `markers` once its waits are over.
Encode(kind, markers) ==
  (CHOOSE v \in {Variants[i] : i \in DOMAIN Variants} : v.kind = kind).needs
    \cup (IF kind = "Acted" /\ markers THEN {"markers"} ELSE {})

\* Deserialising on the client: the first variant that fits.
Decode(keys) ==
  LET fits == {i \in DOMAIN Variants : Variants[i].needs \subseteq keys}
  IN  Variants[CHOOSE i \in fits : \A j \in fits : i <= j].kind

\* cli::exit_code.
ExitCode(kind) == IF kind = "Error" THEN 1 ELSE 0
==============================================================================

----------------------------- MODULE BinaryLog -----------------------------
(***************************************************************************)
(* Binary logging from end to end: catalogs are generated and images built *)
(* (Catalog), one image runs and its contexts log (encoder.hpp, log.hpp),  *)
(* and the words its destinations took are decoded with the catalog of the *)
(* image or of a later build (MipiPackets).                                *)
(*                                                                         *)
(* A context that logs builds its packet, then hands it to one destination *)
(* after another, each time in the critical section of the destination's   *)
(* type: one step to enter, one per word, one to leave.                    *)
(***************************************************************************)
EXTENDS Catalog, MipiPackets

CONSTANTS
  Contexts,        \* threads and interrupt contexts that log
  Destinations,    \* the sequence of destinations in the configuration
  section_of,      \* the type of a destination, which is the name of its lock
  CallSites,       \* [level, message, module, args]: the calls of the program
  Units,           \* what get_unit may return
  Versions,        \* [width, named]: what log_version may be configured to
  FATAL,           \* the level whose log call panics
  MaxLogs,         \* bound: messages logged
  no_one

ASSUME LogAssumption ==
  /\ Destinations \in Seq(DOMAIN section_of)
  /\ Destinations # <<>>
  /\ MaxLogs \in Nat
  /\ no_one \notin Contexts

VARIABLES
  running,      \* the index of the image that runs, 0 before
  pc,           \* per context: idle, at a destination, inside it, or panicked
  at,           \* per context: the index of the destination in hand
  packet,       \* per context: the words to write, and the line they stand for
  written,      \* per context: how many of them the destination in hand has
  holder,       \* per critical section: the context inside
  streams,      \* per destination: the words it took
  sent,         \* per destination: the lines handed to it, in order
  logs          \* messages logged so far

logVars == <<running, pc, at, packet, written, holder, streams, sent, logs>>
vars == <<collaterals, images, logVars>>

Sections == {section_of[Destinations[i]] : i \in DOMAIN Destinations}
Range_of(seq) == {seq[i] : i \in DOMAIN seq}

nothing == [words |-> <<>>, line |-> Raised, fatal |-> FALSE]

LogInit ==
  /\ running = 0 /\ logs = 0
  /\ pc = [c \in Contexts |-> "idle"]
  /\ at = [c \in Contexts |-> 1]
  /\ packet = [c \in Contexts |-> nothing]
  /\ written = [c \in Contexts |-> 0]
  /\ holder = [s \in Sections |-> no_one]
  /\ streams = [d \in Range_of(Destinations) |-> <<>>]
  /\ sent = [d \in Range_of(Destinations) |-> <<>>]

Init == CatalogInit /\ LogInit

----------------------------------------------------------------------------
BuildNext == running = 0 /\ Build /\ UNCHANGED logVars

\* Any image that was built, not only the last, may be what runs.
Boot ==
  /\ running = 0
  /\ \E i \in DOMAIN images :
       /\ images[i].messages.links /\ images[i].modules.links
       /\ running' = i
  /\ UNCHANGED <<collaterals, images, pc, at, packet, written, holder, streams, sent, logs>>

Start(c, new_packet) ==
  /\ running # 0 /\ pc[c] = "idle" /\ logs < MaxLogs
  /\ packet' = [packet EXCEPT ![c] = new_packet]
  /\ pc' = [pc EXCEPT ![c] = "at"]
  /\ at' = [at EXCEPT ![c] = 1]
  /\ logs' = logs + 1
  /\ UNCHANGED <<collaterals, images, running, written, holder, streams, sent>>

\* The line the decoder is to print of a call.
line_of(site) ==
  IF site.message.args = <<>> THEN short_line(site.message.text)
  ELSE catalog_line(site.level, site.module.text, site.message.text, site.args)

\* log_handler::log_msg; CIB_FATAL logs, then panics.
Log(c, site, unit) ==
  LET ids == images[running]
  IN /\ running # 0
     /\ site.message \in DOMAIN ids.messages.ids /\ site.module \in DOMAIN ids.modules.ids
     /\ Start(c, [words |-> build(site.level, ids.messages.ids[site.message],
                                  ids.modules.ids[site.module], unit,
                                  site.message.args, site.args),
                  line  |-> line_of(site),
                  fatal |-> site.level = FATAL])

\* log_handler::log_version; the decoder raises on what it writes.
LogVersion(c, version) ==
  Start(c, [words |-> build_version(version.width, version.named), line |-> Raised, fatal |-> FALSE])

destination(c) == Destinations[at[c]]
section(c) == section_of[destination(c)]

\* Mutant: destinations are written outside any critical section.
unlocked(s) == TRUE

free(s) == holder[s] = no_one

\* log_writer::operator(), for the destination in hand.
Enter(c) ==
  /\ pc[c] = "at" /\ free(section(c))
  /\ holder' = [holder EXCEPT ![section(c)] = c]
  /\ pc' = [pc EXCEPT ![c] = "inside"]
  /\ sent' = [sent EXCEPT ![destination(c)] = Append(@, packet[c].line)]
  /\ UNCHANGED <<collaterals, images, running, at, packet, written, streams, logs>>

Write(c) ==
  /\ pc[c] = "inside" /\ written[c] < Len(packet[c].words)
  /\ streams' = [streams EXCEPT ![destination(c)] = Append(@, packet[c].words[written[c] + 1])]
  /\ written' = [written EXCEPT ![c] = @ + 1]
  /\ UNCHANGED <<collaterals, images, running, pc, at, packet, holder, sent, logs>>

\* Mutant: the panic does not wait for the other destinations.
after_first(c) == IF packet[c].fatal THEN "panicked" ELSE "idle"

\* What a context does when the destination in hand has the packet.
after_destination(c) ==
  CASE at[c] < Len(Destinations) -> "at"
    [] at[c] = Len(Destinations) /\ packet[c].fatal -> "panicked"
    [] OTHER -> "idle"

\* Mutant: a context that is to panic keeps its section.
kept_in_panic(c) == IF packet[c].fatal THEN c ELSE no_one

\* Who has the section when c has left it.
left_by(c) == no_one

Leave(c) ==
  /\ pc[c] = "inside" /\ written[c] = Len(packet[c].words)
  /\ holder' = [holder EXCEPT ![section(c)] = left_by(c)]
  /\ pc' = [pc EXCEPT ![c] = after_destination(c)]
  /\ at' = [at EXCEPT ![c] = IF @ < Len(Destinations) THEN @ + 1 ELSE 1]
  /\ packet' = [packet EXCEPT ![c] = IF after_destination(c) = "idle" THEN nothing ELSE @]
  /\ written' = [written EXCEPT ![c] = 0]
  /\ UNCHANGED <<collaterals, images, running, streams, sent, logs>>

StartLog(c) ==
  \/ \E site \in CallSites, unit \in Units : Log(c, site, unit)
  \/ \E version \in Versions : LogVersion(c, version)

Deliver(c) == Enter(c) \/ Write(c) \/ Leave(c)

Next == BuildNext \/ Boot \/ \E c \in Contexts : StartLog(c) \/ Deliver(c)

\* A context that has begun a log call goes on: a thread is scheduled, an
\* interrupt returns.  A section is not kept from a context forever, since at
\* most MaxLogs messages are logged.  Nothing makes a program log, or be built.
Fairness == \A c \in Contexts : WF_vars(Deliver(c))

Spec == Init /\ [][Next]_vars /\ Fairness

----------------------------------------------------------------------------
ArgumentTypes == [size : 1 .. 8, signed : BOOLEAN, kind : {"number", "enum", "class"}]

\* What is logged are values of the types that the message has.
CallsFit ==
  \A site \in CallSites :
    /\ site.message.args \in Seq(ArgumentTypes)
    /\ site.args \in Seq(Int) /\ Len(site.args) = Len(site.message.args)
    /\ \A n \in DOMAIN site.args : Fits(site.message.args[n], site.args[n])

\* There are no more strings than IDs that a short message has room for, and no
\* ID beyond is asked for.  Nothing checks this, but for modules.
IdsFit ==
  LET keys == {key(m) : m \in Mentioned("messages")}
  IN /\ IsFiniteSet(keys) /\ Cardinality(keys) + Cardinality(reserved_ids) <= ShortIds
     /\ \A m \in Mentioned("messages") : m.id < ShortIds
     /\ ShortIds <= weight[4]
     /\ module_id_max < ModuleIds

----------------------------------------------------------------------------
\* The lines up to the first that the decoder cannot read.
Readable(lines) ==
  LET stops == {i \in DOMAIN lines : lines[i] = Raised}
  IN IF stops = {} THEN lines ELSE SubSeq(lines, 1, CHOOSE i \in stops : \A j \in stops : i <= j)

\* Whatever image ran, and whichever later catalog its log is read with, each
\* destination's log decodes to the messages handed to it, in order, with the
\* values of the arguments, the severity and the module they were logged with:
\* no message is torn by another context, and no ID means another string.
LogsDecode ==
  \A d \in DOMAIN streams : holder[section_of[d]] = no_one =>
    \A i \in running .. Len(collaterals) :
      i > 0 => read_logs(streams[d], collaterals[i]) = Readable(sent[d])

\* A panic comes after its message: the log of a program that stopped tells why
\* at every destination.
FatalIsLogged ==
  \A c \in Contexts : pc[c] = "panicked" =>
    \A d \in DOMAIN sent : packet[c].line \in Range_of(sent[d])

\* A message that a context logs reaches the last destination, and the context
\* gets out of the log call.
LogCallsEnd == \A c \in Contexts : (pc[c] \in {"at", "inside"}) ~> (pc[c] \in {"idle", "panicked"})
=============================================================================

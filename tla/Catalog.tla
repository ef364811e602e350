------------------------------ MODULE Catalog ------------------------------
(***************************************************************************)
(* The string catalog generator (src/python/cib/gen_str_catalog.py) over a *)
(* series of builds.  Each build reads the strings a program refers to and *)
(* the JSON of the build before it, gives every string an ID, writes the   *)
(* IDs into the image of the program and the strings into a new JSON.      *)
(*                                                                         *)
(* A string is [text, args, tags, id]: its text is its rank in the order   *)
(* in which texts are sorted, its id the one the code asks for, or -1.     *)
(* Module names are strings without arguments or tags.                     *)
(***************************************************************************)
EXTENDS Integers, Sequences, SequencesExt, FiniteSets, Arranging

CONSTANTS
  Programs,        \* what builds may be given: [messages, modules], sequences of strings
  Forgets,         \* the values of --forget_old_ids that builds use
  reserved_ids,    \* --reserved_ids, a set of message IDs
  module_id_max,   \* --module_id_max
  MaxBuilds        \* bound: builds in a behaviour

ASSUME CatalogAssumption ==
  /\ Forgets \subseteq BOOLEAN
  /\ reserved_ids \subseteq Nat /\ IsFiniteSet(reserved_ids)
  /\ module_id_max \in Nat /\ MaxBuilds \in Nat

\* The strings that programs mention, with the IDs they ask for.
Mentioned(kind) == UNION {Range(program[kind]) : program \in Programs}

\* A string with any ID.
Strings == LET known == Mentioned("messages") \cup Mentioned("modules")
           IN [text : Nat, args : {m.args : m \in known}, tags : {m.tags : m \in known},
               id : Nat \cup {-1}]

ASSUME ProgramTypes ==
  Programs \subseteq [messages : Seq(Strings), modules : Seq(Strings)]

VARIABLES
  collaterals,     \* the JSONs written, in order
  images           \* the images built from them: the ID of each string, or no links

catalogVars == <<collaterals, images>>

----------------------------------------------------------------------------
key(m) == <<m.text, m.args>>

\* {m.key(): m for m in items}.values(): a key stays where it first came, and
\* its last value counts.
last_of(items, m) ==
  items[CHOOSE i \in DOMAIN items :
          /\ key(items[i]) = key(m)
          /\ \A j \in i + 1 .. Len(items) : key(items[j]) # key(m)]

\* The positions where a key comes first.
firsts(items) == {i \in DOMAIN items : \A j \in 1 .. i - 1 : key(items[j]) # key(items[i])}

unique(items) ==
  LET kept == at_positions(items, firsts(items))
  IN [n \in DOMAIN kept |-> last_of(items, kept[n])]

\* sorted(items) by __lt__, which compares texts; equal ones keep their order.
sorted(items) ==
  LET before(i) == {j \in DOMAIN items : \/ items[j].text < items[i].text
                                        \/ (items[j].text = items[i].text /\ j < i)}
  IN arranged(items, [i \in DOMAIN items |-> Cardinality(before(i))])

\* Mutant: the generator does not leave out what is taken.
counted(taken, k) == k - 1

\* The k-th value of itertools.count(0) with the taken ones left out.
generated(taken, k) ==
  CHOOSE n \in 0 .. Cardinality(taken) + k :
    n \notin taken /\ Cardinality((0 .. n) \ taken) = k

\* The stable strings: the remembered ones, with those that ask for an ID.
stables(remembered, items) ==
  unique(remembered \o at_positions(items, {i \in DOMAIN items : items[i].id # -1}))

\* Mutant: a string that was remembered from an earlier build gets a new ID.
is_pinned(m, old) == \E o \in Range(old) : o = m

is_stable(m, old) == \E o \in Range(old) : key(o) = key(m)

\* assign_ids for one of the two kinds of strings.
assign_ids(items, old, reserved) ==
  LET in_order == sorted(items)
      taken    == {m.id : m \in Range(old)} \cup reserved
      fresh(i) == Cardinality({j \in 1 .. i : ~is_stable(in_order[j], old)})
      id_of(i) == IF is_stable(in_order[i], old) THEN last_of(old, in_order[i]).id
                  ELSE generated(taken, fresh(i))
  IN [i \in DOMAIN in_order |-> [in_order[i] EXCEPT !.id = id_of(i)]]

\* read_stable: the lists of a later file replace those of an earlier one.
read_stable(files) ==
  IF files = <<>> THEN [messages |-> <<>>, modules |-> <<>>]
  ELSE [messages |-> unique(Last(files).messages), modules |-> unique(Last(files).modules)]

\* write_json: the strings of the program, then the remembered ones it lacks.
write_json(items, remembered) ==
  items \o at_positions(remembered, {i \in DOMAIN remembered : remembered[i] \notin Range(items)})

\* write_cpp defines catalog<M>() for the type M the string has in the program:
\* a type that lost to another one of its key has no definition.
image(items, unique_items, assigned) ==
  [links |-> Range(items) = Range(unique_items),
   ids   |-> [m \in Range(unique_items) |-> last_of(assigned, m).id]]

within_limit(modules) == \A i \in DOMAIN modules : modules[i].id <= module_id_max

----------------------------------------------------------------------------
previous == IF collaterals = <<>> THEN <<>> ELSE <<Last(collaterals)>>

\* main: one run of the generator; a module ID beyond the limit ends it.
BuildStrings(program, forget) ==
  LET stable   == read_stable(previous)
      unique_messages == unique(program.messages)
      unique_modules  == unique(program.modules)
      old_messages    == stables(stable.messages, unique_messages)
      old_modules     == stables(stable.modules, unique_modules)
      messages == assign_ids(unique_messages, old_messages, reserved_ids)
      modules  == assign_ids(unique_modules, old_modules, {})
      kept(old) == IF forget THEN <<>> ELSE old
  IN /\ Len(collaterals) < MaxBuilds
     /\ within_limit(modules)
     /\ collaterals' = Append(collaterals,
                         [messages |-> write_json(messages, kept(old_messages)),
                          modules  |-> write_json(modules, kept(old_modules))])
     /\ images' = Append(images,
                    [messages |-> image(program.messages, unique_messages, messages),
                     modules  |-> image(program.modules, unique_modules, modules)])

Build == \E program \in Programs, forget \in Forgets : BuildStrings(program, forget)

CatalogInit == collaterals = <<>> /\ images = <<>>

----------------------------------------------------------------------------
(* What the properties ask of the programs and of the builds. *)

Kinds == {"messages", "modules"}

Ids(E) == {m.id : m \in E}

Asks(kind) == {m \in Mentioned(kind) : m.id # -1}

Reserved(kind) == IF kind = "messages" THEN reserved_ids ELSE {}

AskedForOneKey(asks, reserved) ==
  /\ Ids(asks) \subseteq reserved
  /\ \A m, n \in asks : m.id = n.id => key(m) = key(n)

\* The IDs that strings ask for are reserved, and no two keys ask for the same
\* one; modules have no reserved IDs, so they ask for none.
AskedAreReserved == \A kind \in Kinds : AskedForOneKey(Asks(kind), Reserved(kind))

\* A string asks for the same ID, or for none, wherever it is mentioned.
AskedAlike ==
  \A kind \in Kinds : \A m, n \in Mentioned(kind) : key(m) = key(n) => m.id = n.id

NoneForgotten == Forgets \subseteq {FALSE}

----------------------------------------------------------------------------
\* The entries of one kind in a JSON, as a set.
Entries(kind) == IF collaterals = <<>> THEN {} ELSE Range(Last(collaterals)[kind])

\* One ID is one string: the decoder, which looks strings up by their ID, can
\* never take one for another.  It is for assign_ids to keep fresh IDs away from
\* those remembered, reserved and asked for.
IdsUnique ==
  \A kind \in {"messages", "modules"} : \A m, n \in Entries(kind) :
    m.id = n.id => key(m) = key(n)

\* What a build hands out is remembered by all later ones: a string keeps its
\* ID, also while no program refers to it, so the logs of old images stay
\* readable (the promise of --stable_json without --forget_old_ids).
IdsKept ==
  [][\A kind \in {"messages", "modules"} : \A m \in Entries(kind) :
       \E n \in Range(Last(collaterals')[kind]) : key(n) = key(m) /\ n.id = m.id]_catalogVars
=============================================================================

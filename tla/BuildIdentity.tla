--------------------------- MODULE BuildIdentity ----------------------------
(***************************************************************************)
(* The protocol identity of a build (build.rs): a hash of the sources that *)
(* define how the processes talk to each other.                            *)
(*                                                                         *)
(* A tree says what the walk finds at each path.  Bytes are numbers.  The  *)
(* hash of a stream of bytes is modelled as injective, so the identity of  *)
(* a build is the stream itself; the hash of a file's content, which is    *)
(* part of the stream, is a sequence of HashLength bytes.                  *)
(***************************************************************************)
EXTENDS Integers, Sequences, SequencesExt

CONSTANTS Walk,     \* paths, in the order in which the walk visits them
          Hashes,   \* hashes of file contents
          Targets   \* targets of symbolic links

\* No path has a byte 0 in it, and blake3's hashes are of one length.
ASSUME BytesAssumption ==
  /\ Walk \in Seq(Seq(1..255))
  /\ Targets \subseteq Seq(1..255)
  /\ Hashes \subseteq Seq(0..255)
  /\ \A g, h \in Hashes : Len(g) = Len(h)

Nul == 0
F == 70
L == 76

\* What the walk finds at a path.  bytes is the hash of a file or the target of
\* a link.
Entries == [kind : {"absent", "directory"}, bytes : {<<>>}]
             \cup [kind : {"file"}, bytes : Hashes]
             \cup [kind : {"link"}, bytes : Targets]

Paths == {Walk[i] : i \in DOMAIN Walk}
Trees == [Paths -> Entries]

\* (Mutant: files and links are not told apart.)
UnmarkedRecord(path, entry) ==
  IF entry.kind \in {"file", "link"} THEN path \o <<Nul>> \o entry.bytes \o <<Nul>> ELSE <<>>

\* What is hashed of one path: the path, a mark, and what is there.
EntryRecord(path, entry) ==
  CASE entry.kind = "link" -> path \o <<Nul, L>> \o entry.bytes \o <<Nul>>
    [] entry.kind = "file" -> path \o <<Nul, F>> \o entry.bytes \o <<Nul>>
    [] OTHER -> <<>>

ProtocolIdentity(tree) ==
  FlattenSeq([i \in DOMAIN Walk |-> EntryRecord(Walk[i], tree[Walk[i]])])

-----------------------------------------------------------------------------

\* The sources of a build: its files and links, and not its directories.
SourcesOf(tree) == {<<p, tree[p]>> : p \in {q \in Paths : tree[q].kind \in {"file", "link"}}}
=============================================================================

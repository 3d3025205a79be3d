----------------------------- MODULE MCQuarantine -----------------------------
(***************************************************************************)
(* Model-checking instance of Quarantine: two processors of one path.      *)
(* Uploaded are every bare payload, and every archive of directories,      *)
(* special members and files that are an envelope without a body, an       *)
(* envelope, too long, or no envelope.                                     *)
(***************************************************************************)
EXTENDS Quarantine

CONSTANTS p1, p2

MCProcessors == {p1, p2}
MCBlob(header, size) == [header |-> header, size |-> size]
MCFile(name, body) == [kind |-> "file", name |-> name, body |-> body]
MCBodies == {MCBlob(TRUE, n) : n \in {Header, Header + 1, MaxBytes + 1}} \cup {MCBlob(FALSE, Header + 1)}
MCMembers == {MCFile("session", body) : body \in MCBodies} \cup {MCFile("other", MCBlob(TRUE, Header + 1))}
             \cup [kind : {"dir", "special"}, name : Names]
MCArchive(members) == [form |-> "archive", members |-> members]
MCUploads == [form : {"bare"}, blob : Blobs]
             \cup {MCArchive(a) : a \in UNION {[1..n -> MCMembers] : n \in 0..MaxMembers + 1}}

MCSession == MCFile("session", MCBlob(TRUE, Header + 1))
MCDir == [kind |-> "dir", name |-> "other"]
MCStray == MCFile("other", MCBlob(TRUE, Header + 1))
MCDecoys == {MCArchive(<<MCDir, MCSession>>), MCArchive(<<MCSession, MCStray>>),
             [form |-> "bare", blob |-> MCBlob(TRUE, Header + 1)]}
MCSymmetry == {[p \in MCProcessors |-> p], [p \in MCProcessors |-> IF p = p1 THEN p2 ELSE p1]}
=============================================================================

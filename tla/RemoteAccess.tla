---------------------------- MODULE RemoteAccess ----------------------------
(***************************************************************************)
(* The network analyzer (packages/remote-access/src/analyzer.js): what a    *)
(* shell command is taken to reach, and whether what it does there and here *)
(* is provably a reading.  It reads tokens, not the shell's grammar.        *)
(*                                                                         *)
(* A command is a sequence of words, one of each kind the analyzer tells    *)
(* apart: ";" for any separator, "url" and "url-ip" for a URL of a name and *)
(* of an address, ">f" for any mark that makes the effect unprovable, "V=1" *)
(* for an assignment.  A flag is known by the lists that have it: "-d" for  *)
(* any that sends a body and is a write signal, "-o" for any that writes a  *)
(* file and is a local write flag; "-T" sends, and is a local write flag    *)
(* alone; "--json" sends and "-D" writes, and no list has them; "-v" is any *)
(* other.  "sort" and "env" are verbs listed as readers, of which one       *)
(* writes where it has an "-o", and the other runs what follows.  A line    *)
(* break is a blank to the analyzer: the words are those of one line.       *)
(***************************************************************************)
EXTENDS Integers, SequencesExt

CONSTANTS Words, MaxWords   \* bounds: the words, and how many

VARIABLES command

NetworkVerbs == {"curl", "ssh", "nc"}
VerbInspectors == {"command", "which"}
BashReadVerbs == {"which", "sort", "env"}
WriteSignals == {"-d"}
CurlLocalWriteFlags == {"-o", "-T"}
Flags == {"-v", "-o", "-d", "-T", "--json", "-D", "V=1"}

\* /usr/bin/curl is curl.
Bare(word) == IF word = "/curl" THEN "curl" ELSE word

----------------------------------------------------------------------------
(* Words and places *)

\* A place is a word that is no separator; it opens a part, or belongs to the part that
\* the last place to open one opened.
Places == {i \in DOMAIN command : command[i] # ";"}
OpensPart(i) == i \in Places /\ (i = 1 \/ command[i - 1] = ";")
HeadOf(i) == CHOOSE h \in 1..i : OpensPart(h) /\ \A k \in h + 1 .. i : ~OpensPart(k)
PartOf(i) == {k \in Places : HeadOf(k) = HeadOf(i)}

Least(S) == CHOOSE k \in S : \A l \in S : k <= l

\* The place after i, whatever separates them, and its word.
PlaceAfter(i) == LET after == {k \in Places : k > i} IN IF after = {} THEN Len(command) + 1 ELSE Least(after)
WordAfter(i) == IF PlaceAfter(i) \in Places THEN command[PlaceAfter(i)] ELSE ""

\* The places after i of words that are no flags, to the end of the line: separators end
\* nothing.
Rest(i) == {k \in Places : k > i /\ command[k] \notin Flags}

URLs == {"url", "url-ip"}
Hosts == {"host", "ip"}
Shaped == URLs \cup {"git@host:", "user@host"}

\* remoteOf: the first place of a word shaped as a remote, else of a host, else 0; a file
\* body is neither.
RemoteOf(rest) ==
  LET shaped == {k \in rest : command[k] \in Shaped}
      hosts == {k \in rest : command[k] \in Hosts}
  IN  IF shaped # {} THEN Least(shaped) ELSE IF hosts # {} THEN Least(hosts) ELSE 0

HostOf(word) == IF word \in {"ip", "url-ip"} THEN "ip" ELSE "host"

----------------------------------------------------------------------------
(* Findings *)

Finding(kind, verb, host, of) == [kind |-> kind, verb |-> verb, target |-> [host |-> host, of |-> of]]

\* 1. A URL literal, wherever it stands.
UrlFindings == {Finding("url", "", HostOf(command[i]), command[i]) : i \in {i \in Places : command[i] \in URLs}}

\* A raw socket's host is paired with the first number after it.
PortAfter(verb, rest, r) == IF verb = "nc" /\ \E k \in rest : k > r /\ command[k] = "80" THEN "80" ELSE ""

\* A verb's own finding, which may have no target; a URL that it names is a finding already.
ToRemote(verb, rest) ==
  LET r == RemoteOf(rest)
  IN  CASE r = 0 -> {Finding("host", verb, "", "")}
        [] r > 0 -> IF command[r] \in URLs THEN {}
                    ELSE {Finding("host", verb, HostOf(command[r]), PortAfter(verb, rest, r))}

\* A mutant: a verb that any inspector precedes is a mention.
MentionedAnywhere(i) == ~OpensPart(i) /\ command[i] = Bare(command[i]) /\ command[HeadOf(i)] \in VerbInspectors

\* #5: a bare verb named to an inspector; to "command", only after its -v.
Mentioned(i) == /\ ~OpensPart(i) /\ command[i] = Bare(command[i])
                /\ Bare(command[HeadOf(i)]) \in VerbInspectors
                /\ Bare(command[HeadOf(i)]) = "command" => \E k \in HeadOf(i) + 1 .. i - 1 : command[k] = "-v"

\* 2. The forms a verb leads.
VerbFindings(i) ==
  LET verb == Bare(command[i])
  IN  CASE verb = "git" -> IF WordAfter(i) = "push" THEN ToRemote("git", Rest(PlaceAfter(i))) ELSE {}
        [] verb \in NetworkVerbs -> IF Mentioned(i) THEN {} ELSE ToRemote(verb, Rest(i))
        [] verb = "npm" -> IF WordAfter(i) = "install" THEN {Finding("host", "npm", "registry", "443")} ELSE {}
        [] OTHER -> {}

\* 3. An address anywhere, unless a finding is that very host without a port.
Addresses(found) ==
  IF /\ \E i \in Places : command[i] \in {"ip", "url-ip"}
     /\ ~\E f \in found : f.target.host = "ip" /\ f.target.of # "80"
  THEN {Finding("host", "", "ip", "")} ELSE {}

Findings ==
  LET found == UrlFindings \cup UNION {VerbFindings(i) : i \in Places}
  IN  found \cup Addresses(found)

----------------------------------------------------------------------------
(* Classes *)

Adjacent(a, b) == \E i \in 1 .. Len(command) - 1 : command[i] = a /\ command[i + 1] = b

\* methodClassOf
MethodClass ==
  CASE Adjacent("git", "push") \/ \E i \in 1 .. Len(command) - 1 : command[i] \in WriteSignals -> "write"
    [] OTHER -> IF "curl" \in ToSet(command) \/ Adjacent("npm", "install") THEN "read" ELSE "none"

\* Where the part's verb stands: after its assignments, if anything does.
VerbOf(part) == LET words == {k \in part : command[k] # "V=1"} IN IF words = {} THEN Least(part) ELSE Least(words)

\* partClass: a verb listed as one that reads.
ReadsHere(part) ==
  LET verb == Bare(command[VerbOf(part)])
  IN  \/ verb \in BashReadVerbs
      \/ verb = "git" /\ WordAfter(VerbOf(part)) = "status"
      \/ verb = "curl" /\ \A k \in part : k > VerbOf(part) => command[k] \notin CurlLocalWriteFlags

\* bashEffectClassOf: one part that is not provably a reading poisons the whole.
ProvablyReads == /\ ">f" \notin ToSet(command)
                 /\ \A i \in Places : OpensPart(i) => ReadsHere(PartOf(i))

----------------------------------------------------------------------------
TypesWord(word) == command' = Append(command, word)

ShellInit == command = <<>>
ShellActs == Len(command) < MaxWords /\ \E word \in Words : TypesWord(word)

----------------------------------------------------------------------------
(* What a shell does with such a line *)

\* The place whose word a part executes: "env" runs the word that follows, and so does
\* "command", but for its -v.
Executes(part) ==
  LET verb == VerbOf(part)
      rest == {k \in part : k > verb /\ command[k] \notin Flags}
      runs == \/ command[verb] = "env"
              \/ command[verb] = "command" /\ \A k \in verb .. Least(rest) : command[k] # "-v"
  IN  IF rest # {} /\ runs THEN Least(rest) ELSE verb
Executed == {Executes(PartOf(i)) : i \in Places}

\* A verb's subcommand, its flags aside; a curl's flags; those of them with a word after.
Leads(i, verb, sub) == /\ command[i] = verb
                       /\ \E k \in Places : /\ k > i /\ command[k] = sub
                                            /\ \A l \in i + 1 .. k - 1 : command[l] \in Flags
Curls(i, flags) == Bare(command[i]) = "curl" /\ \E k \in PartOf(i) : k > i /\ command[k] \in flags
CurlsWith(i, flags) ==
  Bare(command[i]) = "curl" /\ \E k \in PartOf(i) : k > i /\ command[k] \in flags /\ k < Len(command)

Contacts(i) == Bare(command[i]) \in NetworkVerbs \/ Leads(i, "git", "push") \/ Leads(i, "npm", "install")
Sends(i) == \/ command[i] \in {"ssh", "nc"} \/ Leads(i, "git", "push")
            \/ CurlsWith(i, {"-d", "-T", "--json"})
Writes(i) == \/ command[i] \in {"rm", "npm", "ssh", "nc"} \/ Curls(i, {"-o", "-D"})
             \/ command[i] = "sort" /\ \E k \in PartOf(i) : k > i /\ command[k] = "-o"

\* Where the lists fall short of that (README, divergences): a flag before the subcommand;
\* what sends by no write signal, in a line of which something else reads; a curl that
\* writes by no local write flag; a verb listed as a reader that writes, or runs what does.
FlagFirst(i) == command[i] \in {"git", "npm"} /\ i < Len(command) /\ command[i + 1] \in Flags
NoSignal(i) == command[i] \in {"ssh", "nc"} \/ (Bare(command[i]) = "curl" /\ ~CurlsWith(i, WriteSignals))
NotListed(i) == \/ Bare(command[i]) = "curl" /\ ~Curls(i, CurlLocalWriteFlags)
                \/ command[VerbOf(PartOf(i))] \in {"sort", "env"}

\* D-7: the analyzer errs towards asking (analyzer.js:1-13, :64-71, :135-140), but for the
\* flags and verbs its lists lack.  A line that opens a connection has a finding, for the
\* gate to refuse or to ask about; one said to read there sends nothing, and one said to
\* read here neither writes nor runs what may.
ErrsTowardsAsking ==
  \A i \in Executed :
    /\ Contacts(i) /\ ~FlagFirst(i) => Findings # {}
    /\ Sends(i) /\ ~FlagFirst(i) /\ ~NoSignal(i) => MethodClass # "read"
    /\ Writes(i) /\ ~NotListed(i) => ~ProvablyReads
=============================================================================

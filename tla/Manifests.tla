-------------------------------- MODULE Manifests ------------------------------
(***************************************************************************)
(* Package k8s: a list of resources written as one YAML manifest, and a    *)
(* manifest read as a list of resources.                                   *)
(*                                                                         *)
(* A text is a sequence of tokens: "---" wherever it stands, "#", a line   *)
(* end, a space, and words.  A resource is its kind, whether it fits the   *)
(* Go type of that kind, and the lines the Kubernetes library writes for   *)
(* it, of which the first is the word "kind".  That library reads a        *)
(* document by its lines and refuses one that has no kind; it writes no    *)
(* carriage returns, which DecodeAllYAML would remove.                     *)
(***************************************************************************)
EXTENDS Resources, SequencesExt

Newline == "\n"
Separator == "---"

Written(lines) == FlattenSeq([i \in DOMAIN lines |-> lines[i] \o <<Newline>>])

EncodeYAML(obj) ==
  CASE obj.kind \notin Kinds -> [error |-> "unsupported"]
    [] obj.kind \in Kinds /\ ~obj.fits -> [error |-> "parse"]
    [] OTHER -> [text |-> Written(obj.lines)]

Document_Bare(i, data) == data              \* mutant: nothing between documents

(* As nothing written is empty, only the first one finds the buffer empty. *)
Document(i, data) ==
  (IF i = 1 THEN <<>> ELSE <<Newline>>) \o <<Separator, Newline>> \o data

(* The first failure ends it, with nothing written. *)
EncodeYAMLAll(list) ==
  LET encoded == [i \in DOMAIN list |-> EncodeYAML(list[i])]
      failed == { i \in DOMAIN list : "error" \in DOMAIN encoded[i] } IN
    IF failed # {} THEN encoded[Min(failed)]
    ELSE [text |-> FlattenSeq([i \in DOMAIN list |-> Document(i, encoded[i].text)])]

-------------------------------------------------------------------------------
Blank == {" ", Newline}

Trim(text) ==
  LET solid == { i \in DOMAIN text : text[i] \notin Blank } IN
    IF solid = {} THEN <<>> ELSE SubSeq(text, Min(solid), Max(solid))

SplitAt(text, token) ==
  LET parts[n \in 0 .. Len(text)] ==
        IF n = 0 THEN << <<>> >>
        ELSE IF text[n] = token THEN Append(parts[n - 1], <<>>)
        ELSE LET before == parts[n - 1] IN Append(Front(before), Append(Last(before), text[n])) IN
    parts[Len(text)]

IsComment(line) == \E i \in DOMAIN line : line[i] = "#" /\ \A j \in 1 .. i - 1 : line[j] = " "
IsBlank(line) == \A i \in DOMAIN line : line[i] = " "

(* What a loop that skips some elements appends. *)
Without(s, skipped) ==
  LET kept[n \in 0 .. Len(s)] ==
        IF n = 0 THEN <<>>
        ELSE IF s[n] \in skipped THEN kept[n - 1] ELSE Append(kept[n - 1], s[n]) IN
    kept[Len(s)]

DocumentLines(doc) ==
  LET lines == SplitAt(Trim(doc), Newline) IN
    Without(lines, { l \in Range(lines) : IsComment(l) \/ IsBlank(l) })

DecodeYAML(lines) == IF lines[1] = <<"kind">> THEN [lines |-> lines] ELSE [error |-> "decode"]

(* Documents without lines are left out; one that is refused fails it all. *)
DecodeAllYAML(text) ==
  LET parts == SplitAt(Trim(text), Separator)
      docs == Without([i \in DOMAIN parts |-> DocumentLines(parts[i])], {<<>>}) IN
    IF \E i \in DOMAIN docs : "error" \in DOMAIN DecodeYAML(docs[i])
      THEN [error |-> "decode"] ELSE [docs |-> docs]

-------------------------------------------------------------------------------
(* What the Kubernetes library writes for a resource, with words of T. *)
IsResource(obj, T) ==
  /\ obj.fits \in BOOLEAN
  /\ obj.lines \in Seq(Seq(T)) /\ obj.lines # <<>> /\ obj.lines[1] = <<"kind">>

(* A line that both ways leave as it is: it has no separator in it, is not  *)
(* blank and does not begin like a comment, as one of a block of text may.   *)
IsPlain(line) ==
  ~IsBlank(line) /\ ~IsComment(line) /\ \A i \in DOMAIN line : line[i] # Separator

(* What is written can be read again, and is the same list, exactly when    *)
(* every line is plain and no resource ends in a space; and if one resource *)
(* cannot be written none is (k8s.go:152-221).                              *)
WrittenCanBeRead(list) ==
  LET encoded == EncodeYAMLAll(list) IN
    /\ "text" \in DOMAIN encoded <=>
         \A i \in DOMAIN list : list[i].kind \in Kinds /\ list[i].fits
    /\ "text" \in DOMAIN encoded =>
         (DecodeAllYAML(encoded.text) = [docs |-> [i \in DOMAIN list |-> list[i].lines]]
            <=> \A i \in DOMAIN list :
                  /\ \A l \in Range(list[i].lines) : IsPlain(l)
                  /\ Last(Last(list[i].lines)) # " ")
===============================================================================

---------------------------- MODULE MessageCodec ----------------------------
(* The binary form of the peer messages: storageRequired, store and load of  *)
(* every message class, and the blob Message::makeBlob wraps around it.      *)
(*                                                                           *)
(* A buffer is a sequence of cells.  A uint32_t is one cell and so is a      *)
(* character, so that sizeof(uint32_t) is 1 here; the zero cell ends a       *)
(* string, and may also be a word or a byte of a file.  A message is a       *)
(* record with the fields of its class; ty is its message_type_id.           *)
EXTENDS Integers, SequencesExt

Bad == [ty |-> "bad"]               \* load returned ~0U, buildMessage NULL
Unsized == -1                       \* storageRequired returned ~0U
NoId == -1                          \* the id ~0U

TagI == 73
TagS == 83
TagF == 70

-----------------------------------------------------------------------------
(* Strings and maps in a buffer.                                           *)

\* strcpy
Str(s) == Append(s, 0)

\* the string that starts at pos, and the position after its terminator
Zero(b, pos) == CHOOSE i \in pos..Len(b) : b[i] = 0 /\ \A j \in pos..(i - 1) : b[j] # 0
StrAt(b, pos) == SubSeq(b, pos, Zero(b, pos) - 1)
After(b, pos) == Zero(b, pos) + 1

RECURSIVE StringsAt(_, _, _)
StringsAt(b, pos, n) ==
    IF n = 0 THEN <<>> ELSE <<StrAt(b, pos)>> \o StringsAt(b, After(b, pos), n - 1)

\* the zeros among the size cells from pos on
NumZeros(b, pos, size) == Cardinality({i \in pos..(pos + size - 1) : i <= Len(b) /\ b[i] = 0})

checkStringTerms(b, pos, size, nzeros) == NumZeros(b, pos, size) >= nzeros

\* what storing each entry of a map, or of a list, amounts to
EachEntry(f, Stored(_)) ==
    FoldLeft(LAMBDA all, k : all \o Stored(k), <<>>, SetToSeq(DOMAIN f))
EachSize(f, Size(_)) == MapThenSumSet(Size, DOMAIN f)

Empty == [x \in {} |-> <<>>]
Put(f, k, v) == [x \in DOMAIN f \cup {k} |-> IF x = k THEN v ELSE f[x]]

-----------------------------------------------------------------------------
(* Message_CreateServer                                                    *)

RequiredServer(m) ==
    1 + Len(m.name) + 1 + EachSize(m.attribs, LAMBDA a : Len(a) + Len(m.attribs[a]) + 2)

StoreServer(m) ==
    <<m.server_id>> \o Str(m.name)
        \o EachEntry(m.attribs, LAMBDA a : Str(a) \o Str(m.attribs[a]))

\* after the name, the strings come in pairs as long as there are two
LoadServerStrings(id, strs) ==
    LET pairs == {2 * k : k \in 1..((Len(strs) - 1) \div 2)}
    IN  [ty |-> "server", server_id |-> id, name |-> strs[1],
         attribs |-> [a \in {strs[p] : p \in pairs} |->
                        strs[Max({p \in pairs : strs[p] = a}) + 1]]]

LoadServer(b) ==
    IF NumZeros(b, 2, Len(b)) = 0 THEN Bad
    ELSE LoadServerStrings(b[1], StringsAt(b, 2, NumZeros(b, 2, Len(b))))

-----------------------------------------------------------------------------
(* Message_CreateUser, Message_CreateGroup, PasswdMessage, BonusMessage,   *)
(* MsgStartStop                                                            *)

RequiredUser(m) == Len(m.username) + Len(m.friendlyname) + Len(m.password) + 3 + 4

StoreUser(m) ==
    <<m.user_id, m.type, m.group_id, m.requestor_id>>
        \o Str(m.username) \o Str(m.friendlyname) \o Str(m.password)

LoadUserStrings(b, strs) ==
    [ty |-> "user", user_id |-> b[1], type |-> b[2], group_id |-> b[3], requestor_id |-> b[4],
     username |-> strs[1], friendlyname |-> strs[2], password |-> strs[3]]

LoadUser(b) ==
    IF NumZeros(b, 5, Len(b)) < 3 THEN Bad ELSE LoadUserStrings(b, StringsAt(b, 5, 3))

RequiredGroup(m) == Len(m.groupname) + 1 + 1

StoreGroup(m) == <<m.group_id>> \o Str(m.groupname)

LoadGroup(b) ==
    IF NumZeros(b, 2, Len(b)) < 1 THEN Bad
    ELSE [ty |-> "group", group_id |-> b[1], groupname |-> StrAt(b, 2)]

RequiredPasswd(m) == 1 + Len(m.newpass) + 1

StorePasswd(m) == <<m.user_id>> \o Str(m.newpass)

LoadPasswd(b) ==
    IF Len(b) < 1 \/ NumZeros(b, 2, Len(b)) = 0 THEN Bad
    ELSE [ty |-> "passwd", user_id |-> b[1], newpass |-> StrAt(b, 2)]

RequiredBonus(m) == 3

StoreBonus(m) == <<m.user_id, m.points, m.seconds>>

LoadBonus(b) ==
    IF Len(b) < 3 THEN Bad
    ELSE [ty |-> "bonus", user_id |-> b[1], points |-> b[2], seconds |-> b[3]]

RequiredStartStop(m) == 3

StoreStartStop(m) == <<m.group_id, m.time, m.action>>

LoadStartStop(b) ==
    IF Len(b) < 3 THEN Bad
    ELSE [ty |-> "startstop", group_id |-> b[1], time |-> b[2], action |-> b[3]]

-----------------------------------------------------------------------------
(* ClarificationMessage, SubmissionMessage, MarkMessage                    *)

\* Mutant: the terminator of the text is not counted
RequiredClarificationShort(m) == 7 + Len(m.text)

RequiredClarification(m) == 7 + Len(m.text) + 1

StoreClarification(m) == m.words \o Str(m.text)

LoadClarification(b) ==
    IF Len(b) <= 7 \/ ~checkStringTerms(b, 8, Len(b) - 7, 1) THEN Bad
    ELSE [ty |-> "clarification", words |-> SubSeq(b, 1, 7), text |-> StrAt(b, 8)]

RequiredSubmission(m) == 6 + Len(m.content) + Len(m.language) + 1

StoreSubmission(m) == m.words \o <<Len(m.content)>> \o m.content \o Str(m.language)

\* size is reduced by five words only, although six have been read
LoadSubmission(b) ==
    IF \/ Len(b) < 6 \/ Len(b) - 5 < b[6]
       \/ ~checkStringTerms(b, 7 + b[6], Len(b) - 5 - b[6], 1)
    THEN Bad
    ELSE [ty |-> "submission", words |-> SubSeq(b, 1, 5),
          content |-> SubSeq(b, 7, 6 + b[6]), language |-> StrAt(b, 7 + b[6])]

RequiredMark(m) ==
    5 + Len(m.comment) + 1
      + EachSize(m.files, LAMBDA i : Len(m.files[i].name) + 1 + 1 + Len(m.files[i].data))

StoreFile(f) == Str(f.name) \o <<Len(f.data)>> \o f.data

StoreMark(m) ==
    m.words \o Str(m.comment) \o FoldLeft(LAMBDA all, f : all \o StoreFile(f), <<>>, m.files)

RECURSIVE LoadFiles(_, _, _)
LoadFiles(b, pos, m) ==
    IF ~(Len(b) - pos + 1 > 1 /\ checkStringTerms(b, pos, Len(b) - pos, 1)) THEN m
    ELSE LET at == After(b, pos)
         IN  IF Len(b) - at < b[at] THEN Bad
             ELSE LoadFiles(b, at + b[at] + 1,
                    [m EXCEPT !.files = Append(@, [name |-> StrAt(b, pos),
                                                   data |-> SubSeq(b, at + 1, at + b[at])])])

LoadMark(b) ==
    IF Len(b) < 5 \/ ~checkStringTerms(b, 6, Len(b) - 5, 1) THEN Bad
    ELSE LoadFiles(b, After(b, 6), [ty |-> "mark", words |-> SubSeq(b, 1, 5),
                                    comment |-> StrAt(b, 6), files |-> <<>>])

-----------------------------------------------------------------------------
(* ProbMessage: tagged attributes.  A file without a name is one to keep.  *)

RequiredProb(m) ==
    IF m.prob_id = NoId THEN Unsized
    ELSE 2 + Len(m.type) + 1 + 1 + Len(m.deps)
           + EachSize(m.ints, LAMBDA a : 1 + Len(a) + 1 + 1)
           + EachSize(m.strings, LAMBDA a : 1 + Len(a) + Len(m.strings[a]) + 2)
           + EachSize(m.files, LAMBDA a : 1 + Len(a) + 1 + Len(m.files[a].name) + 1
                                            + 1 + Len(m.files[a].data))

StoreProb(m) ==
    <<m.prob_id, m.update_time, Len(m.deps)>> \o m.deps \o Str(m.type)
        \o EachEntry(m.ints, LAMBDA a : <<TagI>> \o Str(a) \o <<m.ints[a]>>)
        \o EachEntry(m.strings, LAMBDA a : <<TagS>> \o Str(a) \o Str(m.strings[a]))
        \o EachEntry(m.files, LAMBDA a : <<TagF>> \o Str(a) \o StoreFile(m.files[a]))

\* a file attribute: at is the position of its length
LoadFileAttrib(b, m, attr, name, at) ==
    IF name = <<>>
    THEN [m |-> [m EXCEPT !.files = Put(@, attr, [name |-> <<>>, data |-> <<>>])], pos |-> at + 1]
    ELSE IF Len(b) - at < b[at] THEN [m |-> Bad, pos |-> at]
    ELSE [m |-> [m EXCEPT !.files = Put(@, attr, [name |-> name,
                                                  data |-> SubSeq(b, at + 1, at + b[at])])],
          pos |-> at + b[at] + 1]

\* the attribute whose tag is before pos, with left cells after the tag
LoadAttrib(b, pos, left, m) ==
    CASE b[pos - 1] = TagS /\ checkStringTerms(b, pos, left, 2) ->
            [m |-> [m EXCEPT !.strings = Put(@, StrAt(b, pos), StrAt(b, After(b, pos)))],
             pos |-> After(b, After(b, pos))]
      [] b[pos - 1] = TagI /\ checkStringTerms(b, pos, left - 1, 1) ->
            [m |-> [m EXCEPT !.ints = Put(@, StrAt(b, pos), b[After(b, pos)])],
             pos |-> After(b, pos) + 1]
      [] b[pos - 1] = TagF /\ left > 1 /\ checkStringTerms(b, pos, left - 1, 2) ->
            LoadFileAttrib(b, m, StrAt(b, pos), StrAt(b, After(b, pos)), After(b, After(b, pos)))
      [] OTHER -> [m |-> Bad, pos |-> pos]

RECURSIVE LoadAttribs(_, _)
LoadAttribs(b, r) ==
    IF r.m = Bad \/ r.pos > Len(b) THEN r.m
    ELSE LoadAttribs(b, LoadAttrib(b, r.pos + 1, Len(b) - r.pos, r.m))

LoadProb(b) ==
    IF Len(b) < 2 \/ ~checkStringTerms(b, 4 + b[3], Len(b) - 3 - b[3], 1) THEN Bad
    ELSE LoadAttribs(b, [m |-> [ty |-> "prob", prob_id |-> b[1], update_time |-> b[2],
                                deps |-> SubSeq(b, 4, 3 + b[3]), type |-> StrAt(b, 4 + b[3]),
                                ints |-> Empty, strings |-> Empty, files |-> Empty],
                         pos |-> After(b, 4 + b[3])])

-----------------------------------------------------------------------------
(* Message: dispatch on the class, and the blob around the data.           *)

storageRequired(m) ==
    CASE m.ty = "server" -> RequiredServer(m)         [] m.ty = "user" -> RequiredUser(m)
      [] m.ty = "group" -> RequiredGroup(m)           [] m.ty = "passwd" -> RequiredPasswd(m)
      [] m.ty = "bonus" -> RequiredBonus(m)           [] m.ty = "startstop" -> RequiredStartStop(m)
      [] m.ty = "submission" -> RequiredSubmission(m) [] m.ty = "mark" -> RequiredMark(m)
      [] m.ty = "prob" -> RequiredProb(m)
      [] m.ty = "clarification" -> RequiredClarification(m)

store(m) ==
    CASE m.ty = "server" -> StoreServer(m)            [] m.ty = "user" -> StoreUser(m)
      [] m.ty = "group" -> StoreGroup(m)              [] m.ty = "passwd" -> StorePasswd(m)
      [] m.ty = "bonus" -> StoreBonus(m)              [] m.ty = "startstop" -> StoreStartStop(m)
      [] m.ty = "submission" -> StoreSubmission(m)    [] m.ty = "mark" -> StoreMark(m)
      [] m.ty = "prob" -> StoreProb(m)
      [] m.ty = "clarification" -> StoreClarification(m)

load(ty, b) ==
    CASE ty = "server" -> LoadServer(b)               [] ty = "user" -> LoadUser(b)
      [] ty = "group" -> LoadGroup(b)                 [] ty = "passwd" -> LoadPasswd(b)
      [] ty = "bonus" -> LoadBonus(b)                 [] ty = "startstop" -> LoadStartStop(b)
      [] ty = "submission" -> LoadSubmission(b)       [] ty = "mark" -> LoadMark(b)
      [] ty = "prob" -> LoadProb(b)
      [] ty = "clarification" -> LoadClarification(b)

\* include/message_type_ids.h
TypeIds == <<"server", "user", "passwd", "prob", "submission", "startstop", "mark",
             "clarification", "group", "bonus">>
Types == ToSet(TypeIds)
TypeId(ty) == CHOOSE i \in DOMAIN TypeIds : TypeIds[i] = ty

\* makeMessage refuses what does not fit into the storage it asked for
Makes(m) == storageRequired(m) # Unsized /\ Len(store(m)) <= storageRequired(m)

\* st_blob: server, id, time, type and signature (one cell), then the data
BlobHeader == 5
makeBlob(server, id, time, m) == <<server, id, time, TypeId(m.ty), 0>> \o store(m)

\* buildMessage, with a functor for the types in functors
buildMessage(b, functors) ==
    IF Len(b) < BlobHeader + 1 \/ b[4] \notin {TypeId(t) : t \in functors}
    THEN [id |-> 0, m |-> Bad]
    ELSE [id |-> b[2], m |-> load(TypeIds[b[4]], SubSeq(b, BlobHeader + 1, Len(b)))]

(* What a message class writes fills exactly the storage it has asked for, *)
(* and what another server builds from the blob has the same fields: for   *)
(* empty strings, zero bytes inside of files, empty maps and lists, and    *)
(* bytes that look like the tag of an attribute.                           *)
RoundTrip(m) ==
    storageRequired(m) # Unsized =>
        /\ Makes(m) /\ Len(store(m)) = storageRequired(m)
        /\ buildMessage(makeBlob(1, 2, 3, m), Types) = [id |-> 2, m |-> m]
=============================================================================

------------------------------- MODULE Codecs -------------------------------
(***************************************************************************)
(* The pure parts, checked on every word of up to MaxWord digits: each     *)
(* part reads the word as a sequence of its own inputs.                    *)
(***************************************************************************)
EXTENDS Integers, Sequences, SequencesExt, FiniteSets, TLC

CONSTANT MaxWord

Digits == 0..5

VARIABLE word

Init == word = <<>>
Next == \E d \in Digits : Len(word) < MaxWord /\ word' = Append(word, d)
Spec == Init /\ [][Next]_word

Of(table, i) == table[word[i] + 1]

-----------------------------------------------------------------------------
(* Replies. The head takes 31 bytes: with 40 a result or two fit.          *)

Message(size) == INSTANCE dwMessage WITH Capacity <- size

Text(i, n) == [k \in 1..n |-> <<100 + i, k>>]
Result(i) == Of(<<[kind |-> "byte", value |-> i], [kind |-> "u32", value |-> 100 + i],
                  [kind |-> "string", value |-> Text(i, 2)], [kind |-> "blob", value |-> Text(i, 3)],
                  [kind |-> "array", value |-> Text(i, 8)], [kind |-> "i64", value |-> 200 + i]>>, i)
Results == [i \in 1..Len(word) |-> Result(i)]

SizeOf(f) == CASE f.kind = "string" -> 2 + Len(f.value)
               [] f.kind = "blob"   -> 6 + Len(f.value)
               [] f.kind = "array"  -> 10 + Len(f.value)
               [] OTHER -> [byte |-> 2, u32 |-> 5, i64 |-> 9, u64 |-> 9][f.kind]
Fitting(fields, room) ==
  LET size[k \in 0..Len(fields)] == IF k = 0 THEN 0 ELSE size[k - 1] + SizeOf(fields[k])
  IN  SelectSeq([k \in 1..Len(fields) |-> [field |-> fields[k], fits |-> size[k] <= room]],
                LAMBDA f : f.fits)

ReplyHead(error) ==
  <<[kind |-> "u64", value |-> 8000], [kind |-> "u32", value |-> error]>>
    \o IF error # 0 THEN <<>>
       ELSE <<[kind |-> "byte", value |-> 10], [kind |-> "u32", value |-> Len(word)],
              [kind |-> "u32", value |-> Len(word)]>>

(* The game, which finds a reply in the stream by its length word alone,   *)
(* reads all of it, up to the first result the buffer had no room for.     *)
RepliesReadBack ==
  \A size \in {40, 56, 96}, error \in {0, 700} :
    LET sent   == Message(size)!Send(Message(size)!dwReply(error, 10, [i \in 1..Len(word) |-> <<Results[i]>>]), 86)
        stream == sent \o Message(size)!SendPlain(Message(size)!ByteMessage(2), 2)
        frame  == Message(size)!FirstFrame(stream)
        clear  == Message(size)!Buffer(Message(size)!Decrypt(frame, 86))
        fields == ReplyHead(error) \o IF error = 0 THEN Results ELSE <<>>
        fit    == Fitting(fields, size - 5)
    IN  /\ frame = sent
        /\ Message(size)!ReadsBack([clear EXCEPT !.cur = 5], [k \in 1..Len(fit) |-> fit[k].field])

(* Requests, one after the other, by word: clear or encrypted ones of the  *)
(* kinds below.                                                            *)
LSG == INSTANCE Dispatch WITH Capacity <- 90, Me <- 41, ProfileSize <- 24, MaxInfos <- 1

Profile(i) == Text(i, 4 * (5 - i))
Field(kind, value) == [kind |-> kind, value |-> value]
Asked(i) ==
  Of(<<IF i % 2 = 1 THEN [type |-> 6, body |-> LSG!Body(18, <<Field("blob", Text(i, 3)), Field("u64", 60 + i)>>)]
       ELSE [type |-> 6, body |-> LSG!Body(14, <<Field("u64", 60 + i), Field("blob", Text(i, 3))>>)],
       [type |-> 12, body |-> LSG!Body(6, <<>>)],
       [type |-> 8, body |-> LSG!Body(3, <<Field("blob", Profile(i))>>)],
       [type |-> 8, body |-> LSG!Body(1, <<Field("u64", 40), Field("u64", 41)>> \o IF i = 3 THEN <<Field("u64", 41)>> ELSE <<>>)],
       IF i % 2 = 1
       THEN [type |-> 10, body |-> LSG!Body(1, <<Field("string", Text(0, 2)), Field("bool", 1),
                                                 Field("blob", Text(i, 5)), Field("u64", 0)>>)]
       ELSE [type |-> 10, body |-> LSG!Body(IF i = 4 THEN 7 ELSE 3, <<Field("string", Text(0, 2)), Field("u64", 41)>>)],
       <<[type |-> 7, body |-> <<<<90 + i, 1>>>>], [type |-> 99, body |-> <<>>],
          [type |-> 21, body |-> LSG!Body(5, <<>>)], [type |-> 12, body |-> LSG!Body(9, <<>>)]>>[i]>>, i)

(* The answer a request has to get: an error, or results.                  *)
Error(code) == [error |-> code, service |-> 0, count |-> 0, fields |-> <<>>]
Done(service, results) ==
  [error |-> 0, service |-> service, count |-> Len(results), fields |-> FlattenSeq(results)]
Before(i, P(_)) == {j \in 1..i - 1 : P(j)}
Latest(places) == CHOOSE j \in places : \A k \in places : k <= j
Stored(j) ==
  LET earlier == Before(j, LAMBDA k : word[k] = 2)
  IN  Profile(j) \o IF earlier = {} THEN [k \in 1..4 |-> LSG!Nul]
                    ELSE SubSeq(Profile(Latest(earlier)), Len(Profile(j)) + 1, Len(Profile(j)) + 4)
Expected(i) ==
  LET infos == Before(i, LAMBDA j : word[j] = 2)
      files == Before(i, LAMBDA j : word[j] = 4 /\ j % 2 = 1)
      file  == IF files = {} THEN Error(1000) ELSE Done(10, <<<<Field("blob", Text(Latest(files), 5))>>>>)
  IN  Of(<<IF i % 2 = 1 THEN Error(2) ELSE Done(6, <<>>), Done(12, <<<<Field("u32", 1337)>>>>), Done(8, <<>>),
           Done(8, IF infos = {} THEN <<>>
                   ELSE <<<<Field("u64", 41), Field("blob", Stored(Latest(infos)))>>>>),
           CASE i % 2 = 1 -> Done(10, <<>>) [] i = 2 -> file
             [] i = 4 -> Done(10, <<<<Field("blob", Text(9, 6))>>>>), Error(2)>>, i)
AnswerFields(e) ==
  <<Field("u64", 8000), Field("u32", e.error)>>
    \o IF e.error # 0 THEN <<>>
       ELSE <<Field("byte", e.service), Field("u32", e.count), Field("u32", e.count)>> \o e.fields

(* Every request, clear or encrypted, gets the one answer that is due to   *)
(* it: from the service it is for, with what was stored last, or the error *)
(* if nobody answers; a log-in to the lobby gets none, and the answers     *)
(* after it come with the new key. A profile comes back with four bytes    *)
(* more, left behind by the one before. An instant message goes to whom it *)
(* is for, and the game there reads it as it was sent. All this until the  *)
(* third request asks for more profiles than there is an array for.        *)
RequestsAnswered ==
  LET n == Len(word)
      start == LSG!Process(86, (<<Text(0, 2), LSG!Publisher>> :> Text(9, 6)))
      packet(i, key) == IF (n + i) % 2 = 0 THEN LSG!Plain(Asked(i).type, Asked(i).body)
                        ELSE LSG!Sealed(Asked(i).type, Asked(i).body, key)
      Serve(r, i) == [process |-> LSG!handleMessage(r.process, LSG!bdLSGServer, packet(i, r.process.key)),
                      earlier |-> r.process]
      Clear(frame, key) == [LSG!Buffer(LSG!Decrypt(frame, key)) EXCEPT !.cur = 5]
      ims == Before(n + 1, LAMBDA i : word[i] = 0)
      Answered(answers, key) ==
        /\ Len(answers) = IF word[n] = 5 /\ n = 1 THEN 0 ELSE 1
        /\ \A k \in DOMAIN answers : LSG!ReadsBack(Clear(answers[k], key), AnswerFields(Expected(n)))
      Received(there, im) ==
        LSG!ReadsBack(Clear(there.out[1], 86),
          <<Field("u32", 21), Field("u64", 41), Field("string", LSG!MeText), Field("blob", Text(im, 3))>>)
      Delivered(sent, im) ==
        /\ sent = [to |-> 60 + im, msg |-> Text(im, 3)]
        /\ Received(LSG!dw_im_received(start, 41, sent.msg), im)
      Right(process, earlier) ==
        /\ Answered(SubSeq(process.out, Len(earlier.out) + 1, Len(process.out)), process.key)
        /\ process.key = IF word[1] = 5 THEN 91 ELSE 86
        /\ Len(process.sent) = Cardinality(ims)
        /\ ims # {} => Delivered(Last(process.sent), Latest(ims))
      Overrun == n >= 3 /\ word[3] = 3 /\ Before(3, LAMBDA i : word[i] = 2) # {}
      AllRight(served) ==
        IF Overrun THEN served.process.overrun
        ELSE ~served.process.overrun /\ Right(served.process, served.earlier)
  IN  n > 0 =>
      /\ AllRight(FoldLeft(Serve, [process |-> start, earlier |-> start], [i \in 1..n |-> i]))
      /\ n = 1 => \A service \in DOMAIN LSG!AuthType :
           LSG!handleMessage(start, LSG!bdAuthServer, LSG!Plain(LSG!getType[service], <<<<0, 1>>>>)).out
             = <<LSG!SendPlain(LSG!makeMessage(service), LSG!AuthType[service])>>

Session == INSTANCE MatchMakingInfo WITH MinfoSize <- 106

Described(d, i) ==
  [n \in Session!Names |->
     IF n = Session!Address THEN Text(i, 3 * d) ELSE IF n = Session!UnknownBlob THEN Text(i, d)
     ELSE IF n = Session!SessionID THEN <<>> ELSE IF n = Session!NumPlayers THEN 0
     ELSE IF n \in {Session!Playlist, Session!UnknownC} THEN d % 2 ELSE 7 * n[2] + i]
Creation(d, i) ==
  Session!serialize(Session!Buffer([k \in 1..300 |-> Session!Blank]), Described(d, i), TRUE)

(* Whoever looks for sessions reads of each what its game described, under *)
(* its own name, if the description fits in the buffer it is put together  *)
(* in; and joins the first that plays what he looks for, not his own.      *)
SessionsReadBack ==
  Len(word) = 2 =>
    \A one \in {Creation(word[1], 1).bytes}, two \in {Creation(word[2], 2).bytes} :
    \A a \in {Session!updateNPInfo(Session!Buffer(one))}, b \in {Session!updateNPInfo(Session!Buffer(two))} :
      LET found == <<Session!Found(a, Text(1, 8)), Session!Found(b, Text(2, 8))>>
          Whole(i) == found[i] = [Described(word[i], i) EXCEPT ![Session!SessionID] = Text(i, 8)]
          fits == {i \in 1..2 : 92 + 4 * word[i] <= 106}
          joined(wanted) == Session!Joined(found, <<1, 0>>, 1, Session!Playlist, wanted)
      IN  /\ \A i \in 1..2 : Whole(i) <=> i \in fits
          /\ \A wanted \in {0, 1} : joined(wanted) = IF word[2] % 2 = wanted THEN 2 ELSE 0

-----------------------------------------------------------------------------
(* Bits, and the tickets that travel in them. *)

BB == INSTANCE bdBitBuffer

Low(n) == <<n, 1, 128, 255>>
WriteItem(b, i) ==
  CASE word[i] = 0 -> BB!WriteBoolean(b, 1)
    [] word[i] = 1 -> BB!WriteBits(b, 3, <<5>>)
    [] word[i] = 2 -> BB!WriteUInt32(b, Low(i))
    [] word[i] = 3 -> BB!WriteBytes(b, <<170, 85>>)
    [] word[i] = 4 -> BB!WriteInt32(b, Low(i))
    [] word[i] = 5 -> BB!WithBitTypes(b, ~b.types)
ReadItem(b, i) ==
  CASE word[i] = 0 -> BB!ReadBoolean(b)
    [] word[i] = 1 -> BB!ReadBits(b, 3)
    [] word[i] = 2 -> BB!ReadUInt32(b)
    [] word[i] = 3 -> BB!ReadBytes(b, 2)
    [] word[i] = 4 -> BB!ReadTyped(b, 7, 32)
    [] word[i] = 5 -> [buf |-> BB!WithBitTypes(b, ~b.types), ok |-> TRUE, data |-> <<>>]
Item(i) == Of(<<<<1>>, <<5>>, Low(i), <<170, 85>>, Low(i), <<>>>>, i)

LowBits(bytes, n) == [k \in 1..n |-> (bytes[((k - 1) \div 8) + 1] \div 2^((k - 1) % 8)) % 2]
TypesAt(i) == Cardinality({j \in 1..i - 1 : word[j] = 5}) % 2 = 0
Tag(i, type) == IF TypesAt(i) THEN LowBits(<<type>>, 5) ELSE <<>>
ItemBits(i) ==
  Of(<<Tag(i, 1) \o <<1>>, <<1, 0, 1>>, Tag(i, 8) \o LowBits(Low(i), 32), LowBits(<<170, 85>>, 16),
       Tag(i, 7) \o LowBits(Low(i), 32), <<>>>>, i)

(* Whatever is written at whatever place within a byte, the buffer is the  *)
(* bits one after the other, low ones first, and they are read again.      *)
BitsReadBack ==
  LET written[n \in 0..Len(word)] ==
        IF n = 0 THEN BB!BitBuffer([i \in 1..5 * MaxWord |-> 0]) ELSE WriteItem(written[n - 1], n)
      final == written[Len(word)]
      place[n \in 0..Len(word)] ==
        IF n = 0 THEN BB!BitBuffer(final.bytes) ELSE ReadItem(place[n - 1], n).buf
  IN  /\ LowBits(final.bytes, final.cur) = FoldLeft(LAMBDA bits, i : bits \o ItemBits(i), <<>>,
                                                   [i \in 1..Len(word) |-> i])
      /\ \A n \in 1..Len(word) : LET r == ReadItem(place[n - 1], n) IN r.ok /\ r.data = Item(n)

Auth == INSTANCE AuthServices WITH GlobalKey <- <<86, 47>>, DediKeyHash <- <<148, 4>>,
                                   DediKeyOb <- <<124>>, TicketSize <- 12, KeyPlace <- 4

(* The game passes the lobby service the ticket it was given, and may log  *)
(* in by any of the three services.                                        *)
LobbyRequest(answer) == Auth!Request(1, word[2], 3, <<answer.lsg>>)

(* Whichever service the game asks, the lobby service gets the key out of  *)
(* the ticket the answer held; the game's own ticket can be read with the  *)
(* first bytes of the data it had its Steam ticket issued for, and if they *)
(* are fewer the account's id; only a wrong dedicated key is refused.      *)
KeyArrives ==
  Len(word) = 3 =>
    LET bit    == word[1] % 2
        game   == 300 * word[2]
        data   == [i \in 1..1 + 2 * word[3] |-> 20 * i + word[2]]
        issued == Auth!GetEncryptedAppTicket(
                    Auth!RequestEncryptedAppTicket([i \in 1..word[1] |-> 200 + i], data, <<71, 72>>), 16)
        hash   == IF word[3] = 0 THEN 148 ELSE word[3]
        Reply(service) ==
          CASE service = "steam" -> Auth!SteamAuth(Auth!SteamRequest(bit, word[3], game,
                                      SubSeq(issued.pTicket, 1, issued.pcbTicket)))
            [] service = "dedi" -> Auth!DediAuth(Auth!Request(bit, word[3], game,
                                      <<[i \in 1..8 |-> IF i = 1 THEN hash ELSE 7]>>))
            [] service = "server" -> Auth!RegisterServer(Auth!Request(bit, word[3], game,
                                        <<[i \in 1..9 |-> word[2]]>>))
        TicketKey(service) == IF service = "steam" THEN SubSeq(data \o <<71, 72>>, 1, 2) ELSE <<148, 4>>
        RightAnswer(service, answer) ==
          /\ answer.code = IF service = "dedi" /\ hash # 148 THEN 706 ELSE 700
          /\ answer.game = Auth!Encrypt(Auth!dw_build_game_ticket(IF service = "dedi" THEN 4 ELSE 0,
                                                                 Auth!Word(game)), TicketKey(service))
          /\ Auth!LobbyKey(LobbyRequest(answer)) = <<86, 47>>
    IN  \A service \in {"steam", "dedi", "server"} :
          RightAnswer(service, Auth!Answer(Reply(service)))

-----------------------------------------------------------------------------
(* Digests and patterns. *)

Whole == INSTANCE MD5 WITH BlockSize <- 64, LengthSize <- 8, WordSize <- 65536,
                           ChunkSizes <- {}, MaxGiven <- 0, given <- <<>>, context <- <<>>

Letters(first, n) == [k \in 1..n |-> first + k - 1]
Digits10 == Letters(48, 10)
RFCSuite ==
  <<[text |-> <<>>, digest |-> <<212, 29, 140, 217, 143, 0, 178, 4, 233, 128, 9, 152, 236, 248, 66, 126>>],
    [text |-> <<97>>, digest |-> <<12, 193, 117, 185, 192, 241, 182, 168, 49, 195, 153, 226, 105, 119, 38, 97>>],
    [text |-> <<97, 98, 99>>,
     digest |-> <<144, 1, 80, 152, 60, 210, 79, 176, 214, 150, 63, 125, 40, 225, 127, 114>>],
    [text |-> Letters(97, 26),
     digest |-> <<195, 252, 211, 215, 97, 146, 228, 0, 125, 251, 73, 108, 202, 103, 225, 59>>],
    [text |-> Letters(65, 26) \o Letters(97, 26) \o Digits10,
     digest |-> <<209, 116, 171, 152, 210, 119, 217, 245, 165, 97, 28, 44, 159, 65, 157, 159>>],
    [text |-> [k \in 1..80 |-> Digits10[(k % 10) + 1]],
     digest |-> <<87, 237, 244, 162, 43, 227, 201, 85, 172, 73, 218, 46, 33, 7, 182, 122>>]>>
Octet(t) == CASE t[1] = "byte" -> t[2] [] t[1] = "one" -> 128 [] t[1] = "zero" -> 0
              [] t[1] = "count" -> IF t[3] < 3 THEN (t[2][1] \div 256^(t[3] - 1)) % 256 ELSE 0

(* The digests of RFC 1321's test suite are those it gives.                *)
DigestsAgree ==
  Len(word) = 1 =>
    LET case    == RFCSuite[word[1] + 1]
        message == [k \in 1..Len(case.text) |-> <<"byte", case.text[k]>>]
    IN  \A blocks \in {Whole!finalize(Whole!update(Whole!init, message))} :
          Whole!Digest([b \in 1..Len(blocks) |-> [k \in 1..64 |-> Octet(blocks[b][k])]]) = case.digest

SP == INSTANCE SinglePlayer WITH Wild <- -1, Space <- -2, Base <- 4194304

Memory == [i \in 1..Len(word) |-> word[i] % 3]
Patterns == UNION {[1..n -> {-1, 0, 1}] : n \in 1..Len(word)}

(* All places but the very last of a range are found, in order; one        *)
(* overlaps another. From a range shorter than the pattern the search goes *)
(* through everything behind it, and ends the game.                        *)
PatternsFound ==
  \A pattern \in Patterns, size \in {Len(word), Len(word) \div 2} :
    LET found == SP!Findpatterns(Memory, size, SP!Stringtopattern(<<-2>> \o pattern))
        exact == SP!Matches(Memory, [pattern EXCEPT ![1] = SP!PatternByte(@)])
    IN  /\ ToSet(found) = IF size < Len(pattern) THEN exact \union {SP!Lost(Memory)}
                          ELSE {a \in exact : a + Len(pattern) < size}
        /\ \A i \in 1..Len(found) - 1 : found[i] < found[i + 1]
-----------------------------------------------------------------------------
(* The single-player game. *)

(* The instructions a site consists of, once with any bytes for wildcards, *)
(* once with the patch in its place; ports beyond the third stay.          *)
Site(pattern, at, bytes) ==
  LET original == [i \in 1..Len(pattern) |-> IF pattern[i] = -1 THEN word[2] ELSE pattern[i]]
  IN  [before |-> original, after |-> SP!Put(original, at, bytes)]
SiteOf(fix) == Site(fix.pattern, fix.at, fix.bytes)
Rotated(sites, n) == SubSeq(sites, n + 1, Len(sites)) \o SubSeq(sites, 1, n)

(* Wherever the game has them, and with three ports at least, every site   *)
(* is patched in its own place and nothing else is; each jump leads to the *)
(* function meant for it, which comes back right behind what it stands     *)
(* for, with the stack as that leaves it, but the frame cleared; the first *)
(* two lose eax. If the game lacks one of them, or the third port, it ends *)
(* there: those before it are patched, those behind it are as they were.   *)
PortsPatched ==
  Len(word) = 3 => \A lacking \in {0, 1 + ((36 * word[1] + 6 * word[2] + word[3]) % 15)} :
    LET funcs  == <<1000, 1100 + word[1], 1200>>
        fixes  == SP!netfix \o <<SP!netfix5>> \o SP!lobbyfix \o <<SP!joinfix, SP!xlivefix>>
        named  == [i \in 1..11 |-> SiteOf(fixes[i])] \o [i \in 1..3 |-> Site(SP!stackfix[i], 0, <<>>)]
        Reached(i) == lacking = 0 \/ i < (lacking % 15)
        Named(i) == IF i = lacking THEN [before |-> <<>>, after |-> <<>>]
                    ELSE IF Reached(i) THEN named[i] ELSE [named[i] EXCEPT !.after = named[i].before]
        ports  == [i \in 1..IF lacking = 15 THEN 2 ELSE 3 + (word[3] % 2) |->
                     Site(SP!netport.pattern, SP!netport.at, IF i <= 3 THEN SP!netport.bytes ELSE <<>>)]
        sites  == Rotated([i \in 1..11 |-> Named(i)], 2 * word[1]) \o SubSeq(ports, 1, 2)
                    \o [i \in 1..3 |-> Named(11 + i)] \o SubSeq(ports, 3, Len(ports))
        filler == [i \in 1..word[2] |-> 200 + i]
        Image(side) == FlattenSeq([i \in 1..Len(sites) |-> Rotated(sites, word[3])[i][side] \o filler]) \o <<204>>
        patched == SP!Patch_IW5SP(Image("before"), funcs)
        stacks == {i \in 1..3 : Reached(11 + i)}
        Spot(i) == patched.stackspot[i] - Len(SP!stackfix[i])
        Target(i) == LET at == Spot(i) IN at + 5 + patched.memory[at + 2] + 256 * patched.memory[at + 3]
        jumps   == UNION {Spot(i)..Spot(i) + 4 : i \in stacks}
        m0      == [esp |-> 8, eax |-> word[2], stack |-> [a \in 0..11 |-> 30 + a]]
        run     == <<SP!xx1(m0, word[1]), SP!xx2(m0, word[1]), SP!xx3(m0, word[1])>>
    IN  /\ patched.ended <=> lacking # 0
        /\ Len(patched.memory) = Len(Image("after"))
        /\ \A a \in 0..Len(patched.memory) - 1 :
             a \notin jumps => patched.memory[a + 1] = Image("after")[a + 1]
        /\ \A i \in stacks :
             /\ patched.memory[Spot(i) + 1] = 233 /\ Target(i) = funcs[i]
             /\ Image("before")[Spot(i) + 1] = SP!stackfix[i][1]
             /\ SubSeq(Image("before"), Spot(i) + 1, patched.stackspot[i]) = SP!stackfix[i]
             /\ LET old == SP!Replaced(i, m0, word[1])
                IN  /\ run[i].esp = old.esp
                    /\ \A a \in 0..11 :
                         run[i].stack[a] = IF a \in 8 - word[1]..7 THEN 0 ELSE old.stack[a]
                    /\ i = 3 => run[i].eax = old.eax

-----------------------------------------------------------------------------
(* Menus. *)

Menus == INSTANCE MenuText WITH
  TabsSize <- 6, notice <- <<"camp", "level">>, Null <- "(null)",
  Lower <- [n \in {"Connect", "DidYouKnow"} |-> IF n = "Connect" THEN "connect" ELSE "didyouknow"]

(* A word as handlers: 0 to 2 are scripts and variables, 3 and 4 begin an  *)
(* if and an else, 5 ends one.                                             *)
Handlers ==
  LET Close(open) ==
        Append(Front(Front(open)),
               Append(Front(Last(Front(open))), [Last(Last(Front(open))) EXCEPT !.body = Last(open)]))
      Add(open, e) == Append(Front(open), Append(Last(open), e))
      Step(open, d) ==
        CASE d \in 0..1 -> Add(open, [type |-> "script"])
          [] d = 2 -> Add(open, [type |-> "setLocalVar"])
          [] d \in 3..4 -> Append(Add(open, [type |-> IF d = 3 THEN "if" ELSE "else", body |-> <<>>]), <<>>)
          [] d = 5 -> IF Len(open) = 1 THEN open ELSE Close(open)
      read == FoldLeft(Step, <<<<>>>>, word)
      closed[n \in 1..Len(read)] == IF n = Len(read) THEN read ELSE Close(closed[n + 1])
  IN  closed[1][1]

MenuOf(set) ==
  [f \in Menus!MenuMembers |-> IF f = "style" THEN 1 ELSE 0]
    @@ [onKey |-> <<[key |-> 1, action |-> set], [key |-> 2, action |-> <<>>]>>,
        handlers |-> ("onOpen" :> set @@ "onClose" :> <<>>), items |-> <<>>]

(* An item of any type, with a third of its fields set, and the data of    *)
(* its type, of which one field is zero when w is.                         *)
ItemFields ==
  Menus!WindowFields \o Menus!ItemLook \o Menus!ItemText \o Menus!ItemStatements
    \o <<"name", "rect", "dvar", "dvarTest", "enableDvar", "gamemsgwindowindex", "gamemsgwindowmode">>
TypeData(type, w) ==
  [f \in Menus!TypeMembers(type) |-> IF f \in {"elementWidth", "speed", "maxChars"} THEN w ELSE 5]
    @@ CASE type = Menus!ListBox -> [columns |-> <<"first", "second">>, doubleClick |-> <<>>]
         [] type = Menus!Multi ->
              [strDef |-> w = 1, choices |-> [k \in 1..w |-> [dvar |-> k, str |-> 10 + k, value |-> 20 + k]]]
         [] type = Menus!DvarEnum -> [enumDvarName |-> "enum"]
         [] type = Menus!Slider -> [range |-> w]
         [] OTHER -> <<>>
ItemOf(type, third, w) ==
  [f \in Menus!ItemMembers |->
     LET k == CHOOSE j \in 1..Len(ItemFields) : ItemFields[j] = f
     IN  IF f = "type" THEN type ELSE IF k % 3 = third THEN 100 + k ELSE 0]
    @@ [typeData |-> <<TypeData(type, w)>>, dvarFlags |-> Of(<<1, 2, 4, 8, 16, 3>>, 3),
        floatExpressions |-> [k \in 1..third |-> [target |-> word[k] + 6 * k, expression |-> w]],
        onKey |-> <<>>, handlers |-> <<>>]

(* Read again by its braces a dumped menu has the handlers it had, nested  *)
(* as they were, and the tabs say the same. The array of tabs is overrun   *)
(* by what stands inside three ifs; an array of 10, inside seven ifs of a  *)
(* menu's handler or six of an item's.                                     *)
NestedReadBack ==
  LET text == Menus!DumpMenus(MenuOf(Handlers), "")
      Leaf(is, v) == [head |-> is, values |-> <<v>>, body |-> <<>>]
      level[i \in 1..Len(word) + 1] ==
        IF i = 1 THEN 0
        ELSE level[i - 1] + CASE word[i - 1] \in 3..4 -> 1
                              [] word[i - 1] = 5 /\ level[i - 1] > 0 -> -1
                              [] OTHER -> 0
      tabs == {n \in 1..Len(text) : text[n][1] = "tabs"}
  IN  /\ Menus!ByBraces(text)[1][1] =
           [head |-> "", values |-> <<>>, body |-> <<[head |-> "menuDef", values |-> <<>>, body |->
              <<Leaf("rect", 0), Leaf("style", 1), Menus!Block("execKeyInt", <<1>>, Handlers),
                Menus!Block("execKeyInt", <<2>>, <<>>), Menus!Block("onOpen", <<>>, Handlers),
                Menus!Block("onClose", <<>>, <<>>)>>]>>]
      /\ \A n \in tabs : text[n][2] = Menus!Depth(text, n)
      /\ (\E n \in tabs : Menus!getTabs(text[n][2]).beyond)
           <=> \E i \in 1..Len(word) : word[i] # 5 /\ level[i] = 3

(* Each field an item has set is found under its own keyword, and nothing  *)
(* else; every keyword begins a line. The exceptions: a slider's dvar is   *)
(* lost, as a list of a dvar's values is; what follows that list is on the *)
(* same line; and a test of more than one kind has no keyword.             *)
ItemsReadBack ==
  Len(word) = 3 =>
    LET type  == 4 * word[1] + (word[2] % 4)
        item  == ItemOf(type, word[3] % 3, word[2] % 3)
        text  == Menus!DumpItem(item, "garbage")
        words == Menus!Words(text)
        Values(n) == LET rest == Append(Tail(SubSeq(words, n, Len(words))), Menus!Close)
                     IN  [k \in 1..SelectInSeq(rest, LAMBDA t : t[1] # "value") - 1 |-> rest[k][2]]
        Found(f) == {Values(n) : n \in {m \in 1..Len(words) : words[m] = Menus!Key(f)}}
        Special(f) == CASE f = "dvar" -> type \in {Menus!Slider, Menus!DvarEnum}
                        [] f \in {"gamemsgwindowindex", "gamemsgwindowmode"} -> type # Menus!GameMessageWindow
                        [] OTHER -> f \in {"rect", "enableDvar"}
        keyword == IF item.dvarFlags = 3 THEN "garbage"
                   ELSE Of(<<"enableDvar", "disableDvar", "showDvar", "hideDvar", "focusDvar", "">>, 3)
    IN  /\ \A f \in ToSet(ItemFields) :
             Found(f) = IF f = "rect" THEN {<<item[f]>>}
                        ELSE IF f = "enableDvar" THEN IF keyword = f /\ item[f] # 0 THEN {<<>>} ELSE {}
                        ELSE IF f = "dvar" /\ type = Menus!DvarEnum THEN {<<>>}
                        ELSE IF Special(f) \/ item[f] = 0 THEN {} ELSE {<<item[f]>>}
        /\ \A f \in Menus!TypeMembers(type) :
             Found(f) = IF item.typeData[1][f] = 0 THEN {} ELSE {<<item.typeData[1][f]>>}
        /\ Found(keyword) # {} <=> item["enableDvar"] # 0
        /\ type = Menus!Slider <=> \E v \in Found("dvarFloat") : v[1] = "(null)"
        /\ \A n \in 2..Len(text) :
             /\ text[n][1] = "key" => text[n - 1][1] \in {"tabs", IF type = Menus!DvarEnum THEN "key" ELSE "tabs"}
             /\ text[n][1] = "tabs" /\ text[n - 1] # Menus!NewLine => type = Menus!DvarEnum

MCLowerCommand == [w \in {"CLOSE"} |-> "close"]
Script == INSTANCE ScriptText WITH commandList <- <<"close", "open", "uiScript">>, AddedCommands <- 1,
                                   Lower <- MCLowerCommand

Entry(i) ==
  Of(<<IF i % 2 = 1 THEN <<Script!Operand(Script!VAL_FLOAT, i)>>
       ELSE <<Script!Operand(Script!VAL_FUNCTION, <<Script!Operand(0, i)>>)>>,
       <<Script!Operator(10)>>, <<Script!Operator(Script!LeftParen)>>, <<Script!Operator(Script!RightParen)>>,
       <<Script!Operator(30)>>, <<Script!Operator(25), Script!Operand(0, i), Script!Operator(Script!RightParen)>>>>, i)
Entries == FoldLeft(LAMBDA es, i : es \o Entry(i), <<>>, [i \in 1..Len(word) |-> i])

(* A statement is written with all its operators and operands in order,    *)
(* and closes what it opens if the game left its last parenthesis away, or *)
(* has no operator. This needs that a parenthesis which opens behind one   *)
(* that closes is closed at once (the pair is left out); that none opens   *)
(* behind a number of type float; and, of a statement that begins with     *)
(* one, that what lies before it in memory is not 1.                       *)
StatementsReadBack ==
  \A before \in {Script!Not, Script!RightParen} :
    LET opens(i) == Entries[i] = Script!Operator(Script!LeftParen)
        prior(i) == IF i = 1 THEN before ELSE Script!Op(Entries[i - 1])
        pair(i)  == i > 1 /\ Entries[i - 1].type = "operator"
                      /\ i < Len(Entries) /\ Entries[i + 1] = Script!Operator(Script!RightParen)
        sound    == \A i \in 1..Len(Entries) : opens(i) /\ prior(i) = Script!RightParen => pair(i)
        text     == Script!PrintStatement(Entries, before)
        plain    == FoldLeft(LAMBDA t, e : t \o CASE e.type = "operator" -> Script!Name(e.op)
                                                 [] e.dataType = Script!VAL_FUNCTION -> <<<<"value", e.value[1].value>>>>
                                                 [] OTHER -> <<<<"value", e.value>>>>, <<>>, Entries)
        operators == \E i \in 1..Len(Entries) : Entries[i].type = "operator"
    IN  word # <<>> /\ sound =>
          /\ Script!NotParens(text) = Script!NotParens(plain)
          /\ Script!Surplus(text) = Script!Surplus(plain) - IF operators THEN 1 ELSE 0

ScriptWord(i) == Of(<<"close", "CLOSE", IF i % 2 = 1 THEN "self" ELSE "open", "uiScript",
                      IF i % 2 = 1 THEN "(" ELSE "sound", ";">>, i)
Written(w) == IF w \in {"(", ";"} THEN <<w>> ELSE <<Script!Quote, w, Script!Quote>>
ScriptOf(end) ==
  FoldLeft(LAMBDA s, i : s \o (IF i = 1 THEN <<>> ELSE <<" ">>) \o Written(ScriptWord(i)), <<>>,
           [i \in 1..Len(word) |-> i]) \o end

(* A script is written with one command on a line, in order, each ended by *)
(* a semicolon, and with the quotes taken off whatever is a command or a   *)
(* target. The exceptions: the last line of a script that does not end in  *)
(* a space has no semicolon, and the command added to the list keeps its   *)
(* quotes.                                                                 *)
ScriptsReadBack ==
  LET ends == {i \in 1..Len(word) : ScriptWord(i) = ";"}
      bare(w) == CASE w \in {"close", "CLOSE"} -> <<"close">> [] w \in {"open", "self", "("} -> <<w>>
                   [] OTHER -> Written(w)
      near(i) == i > 1 /\ ScriptWord(i) = "(" /\ ScriptWord(i - 1) \in {"close", "CLOSE", "open"}
      line(from, to) == FoldLeft(LAMBDA s, i : s \o (IF i = from \/ near(i) THEN <<>> ELSE <<" ">>) \o bare(ScriptWord(i)),
                                 <<"\t", "\t">>, [k \in 1..to - from + 1 |-> from + k - 1])
      last == IF Len(word) \in ends THEN Len(word) - 1 ELSE Len(word)
      starts == {1} \union {i + 1 : i \in ends}
      Line(i) == line(i, (CHOOSE j \in i..Len(word) + 1 :
                            j \in ends \union {Len(word) + 1} /\ (i..j - 1) \cap ends = {}) - 1)
      lines == [k \in 1..Cardinality({s \in starts : s <= last}) |->
                  Line(CHOOSE s \in starts : Cardinality({t \in starts : t <= s}) = k)]
  IN  \A end \in {<<>>, <<" ">>} :
        /\ word # <<>>
        /\ \A i \in ends : i > 1 /\ i - 1 \notin ends
        /\ Len(word) \in ends => end # <<>>
        =>
          LET text == Script!format(ScriptOf(end), 2)
              closed == end # <<>>
          IN  Script!SplitAt(text, "\n") =
                Append([k \in 1..Len(lines) |->
                          IF k < Len(lines) \/ closed THEN Append(lines[k], ";") ELSE lines[k]], <<>>)

MenuNamed(i) ==
  [name |-> Of(<<"connect", "Connect", "main", "error_popmenu_submenu", "error_popmenu", "other">>, i), w |-> 40, h |-> 30,
   items |-> [k \in 1..6 |-> [dvar |-> <<"(null)", "didyouknow", "DidYouKnow", "iotd", "(null)", "main">>[k],
                              name |-> <<"iotd", "(null)", "iotd", "didyouknow", "other", "(null)">>[k],
                              text |-> "own", fontEnum |-> k]]]

(* A file loaded a second time has its menus as after the first, but for   *)
(* the texts of the connect menu, chosen anew, and the pop-up of an error, *)
(* which grows with every load; of the other menus nothing is changed.     *)
EditsShown ==
  Len(word) \in 1..2 =>
    LET file   == [i \in 1..Len(word) |-> MenuNamed(i)]
        once   == Menus!MenuFileHookFunc(file, 1)
        twice  == Menus!MenuFileHookFunc(once, 2)
    IN  \A i \in 1..Len(word) :
          LET kind == word[i]
          IN  /\ twice[i].w = once[i].w + (once[i].w - file[i].w)
              /\ once[i].w # file[i].w <=> kind = 3
              /\ \A k \in 1..6 :
                   LET known == kind \in 0..1 /\ k \in 2..3
                       font  == IF known \/ (kind = 2 /\ k \in {1, 3}) THEN 9 ELSE IF kind = 3 THEN 7 ELSE k
                   IN  /\ once[i].items[k].fontEnum = font /\ twice[i].items[k].fontEnum = font
                       /\ once[i].items[k].text = (IF known THEN "camp" ELSE "own")
                       /\ twice[i].items[k].text = (IF known THEN "level" ELSE "own")

-----------------------------------------------------------------------------
(* What the run checks of each group of parts. *)

(* Messages are read as they were written: replies and bits by the other   *)
(* end, whatever stands around them; sessions by whoever looks for one;    *)
(* every request gets the answer due to it; and whichever service the game *)
(* asks for a ticket, the lobby service gets the key out of it.            *)
MessagesReadBack == RepliesReadBack /\ BitsReadBack /\ SessionsReadBack /\ RequestsAnswered /\ KeyArrives

(* The utilities do what they are for: MD5 over the RFC's suite, patterns  *)
(* found where they are, and the patches that write at what was found.     *)
UtilitiesAgree == DigestsAgree /\ PatternsFound /\ PortsPatched

(* A dumped menu is read again as it was: its handlers and fields, its     *)
(* statements and its scripts; and a menu loaded again is edited once.     *)
MenusReadBack == NestedReadBack /\ ItemsReadBack /\ StatementsReadBack /\ ScriptsReadBack /\ EditsShown
=============================================================================

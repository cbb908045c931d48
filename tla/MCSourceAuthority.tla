------------------------- MODULE MCSourceAuthority -------------------------
EXTENDS SourceAuthority, TLC

ThreadSymmetry == Permutations(Threads)

Text(lines) == [format |-> "text", lines |-> lines]
MCContents == {Text(<<2, 1, 3>>), Text(<<4, 3>>)}
MCFound == {[e \in Entries |-> Text(<<2, 1, 3>>)]}

-----------------------------------------------------------------------------
(* The sources that are divided into parts: every file of at most four      *)
(* lines or pages and every table of at most five tokens, every image up to *)
(* one frame more than is allowed, and office documents and archives of up  *)
(* to three paragraphs, two sections and three members.                     *)
Sizes == 1..MaxPart + 1
Texts == [format : {"text"}, lines : BoundedSeq(Sizes, 4)]
Tables == [format : {"tabular"}, tokens : BoundedSeq(Tokens, 5)]
Pdfs == [format : {"pdf"}, pages : BoundedSeq(Sizes, 4)]
Images == [format : {"image"}, animated : BOOLEAN, frames : 1..MaxFrames + 1]
MCSections == [rows : {<<>>, <<3>>, <<5>>, <<2, 2>>, <<3, 2>>},
             images : {<<>>, <<"m">>, <<"m", "n">>, <<"n">>}]
Offices == [format : {"slides", "sheets"}, sections : BoundedSeq(MCSections, 2)]
MCMembers == [path : {"a", "b"}, unsafe : BOOLEAN, size : {1, 3}, lines : {<<3, 2>>}]
Legacy == [format : {"legacy"}, converted : BOOLEAN, sections : BoundedSeq(MCSections, 1)]
Structured == [format : {"structured"}, parses : {TRUE}, lines : BoundedSeq({2, 4}, 5)]
              \cup [format : {"structured"}, parses : {FALSE}, lines : {<<1>>}]
MCParagraphs == [heading : BOOLEAN, text : {0, 1, 3}, images : {<<>>, <<"m">>}]
Papers == [format : {"document"}, paragraphs : BoundedSeq(MCParagraphs, 3)]
Archives ==
    {d \in [format : {"archive"}, members : BoundedSeq(MCMembers, 3),
            previews : {<<>>, <<1>>, <<2>>, <<1, 2>>, <<2, 1>>}] :
       ToSet(d.previews) \subseteq DOMAIN d.members}
MCDocuments == Texts \cup Structured \cup Tables \cup Pdfs \cup Images \cup Offices \cup Papers
               \cup Legacy \cup Archives
=============================================================================

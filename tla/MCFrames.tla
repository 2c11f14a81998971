------------------------------ MODULE MCFrames ------------------------------
(* Constants of the model-checked instance of Frames. *)
EXTENDS Frames

\* n bytes of content with which the checksum of an HT frame of the run enters
\* the table at from, from + 1, ...
Sweep(from, n) ==
  LET head == FrameHead("HT") \o U16(8 + n) \o U16(258) \o U16(259)
      cksum[i \in 0..n] == IF i = 0 THEN Crc(head, Len(head))
                           ELSE Xor(crc16_tab[from + i], (cksum[i - 1] * 256) % 65536)
  IN  [i \in 1..n |-> Xor(cksum[i - 1] \div 256, from + i - 1)]

\* A content behind whose first byte stands the checksum of a frame that ends
\* there: a request whose length field is damaged from 11 to 9 is that frame.
Nested == <<5>> \o U16(Crc(FrameHead("HT") \o U16(9) \o U16(258) \o U16(259) \o <<5>>, 9))

\* Contents that use each of the 256 entries, none, the head of a frame, and that.
MCDatas == {Sweep(16 * k, 16) : k \in 0..15} \cup {<<>>, <<34, 83, 0, 13, 1, 2>>, Nested}

\* The id whose name the protocols differ in, and an id without a name that is the
\* checksum of the six bytes in front of it when the length field is damaged from
\* 14 to 6.
MCCmdIds == {259, Crc(FrameHead("HT") \o U16(6) \o U16(258), 6)}

\* Single bits, and runs of bits in two and three neighbouring bytes.  One of
\* them makes the text "[]" of HT's head.
MCBursts == {<<a, 0, 0>> : a \in {1, 2, 8, 16}}
            \cup {<<0, 1, 0>>, <<0, 0, 1>>, <<1, 128, 0>>, <<7, 255, 0>>, <<15, 255, 240>>,
                  <<19, 9, 0>>}

\* Replies of set_date and of sys_info, cut short.
MCReplies == {<<0>>, <<1, 2, 3, 4, 1, 1>>}

\* Nothing, or the head of another request.
MCFollowers == {<<>>, <<34, 83, 0, 13>>}

=============================================================================

------------------------------ MODULE WebInputs ------------------------------
(***************************************************************************)
(* What an input becomes in the browser: a programme of calls in blocks.   *)
(* A block that is retried starts over when a call of it is lost, though   *)
(* what it had sent may have arrived; one that is not gives up.  A call    *)
(* may arrive and its answer be lost.                                      *)
(***************************************************************************)
EXTENDS WebDriver, Sequences

CONSTANT Text      \* the text to type: a sequence of characters

\* The names of the calls other than keys.
Calls == {"find", "move", "press", "release", "uncovered", "read", "commit", "clear", "select",
          "probe"}

\* A text has characters, none of which is taken for another call.
ASSUME TextAssumption ==
    /\ Text # <<>> /\ Text \in Seq({Text[i] : i \in DOMAIN Text})
    /\ \A i \in DOMAIN Text : Text[i] \notin Calls

VARIABLE control   \* what the inputs made of the control and of the pointer

---------------------------------------------------------------------------
(* Calls and blocks.                                                       *)

Retried(calls) == [calls |-> calls, retried |-> TRUE]
Once(calls) == [calls |-> calls, retried |-> FALSE]

ClickPoint == <<"move", "press", "release">>

\* The element is found, scrolled into view and clicked in its middle.
ClickElement == <<"find">> \o ClickPoint

Invoke == <<Retried(ClickElement)>>
ContextClick == <<Retried(<<"find", "press", "release">>)>>
DoubleClick == <<Retried(ClickElement \o <<"press", "release">>)>>
Hover == <<Retried(<<"find", "uncovered", "move", "read">>)>>
SetFiles == <<Retried(<<"find", "commit">>)>>
ReadText == <<Retried(<<"find">>)>>

\* The point is found and tested, and then clicked without the element.
ClickAt == <<Retried(<<"find", "uncovered">>), Once(ClickPoint)>>

\* One scroll, both midpoints, and the moves while the button is held.
DragMouse == <<Retried(<<"find">>), Retried(<<"find">>),
               Once(<<"move", "press", "move", "release">>)>>

\* Read, click unless it is so already, and read again.
SetChecked == <<Retried(<<"find", "read">>), Retried(ClickElement), Retried(<<"find", "read">>)>>

SelectOptions == <<Retried(<<"find", "commit", "read">>)>>
ScrollTo == <<Retried(<<"find", "commit", "read">>)>>
ClearText == <<Retried(<<"find", "clear">>)>>

\* A faulty variant: only the keys are sent again.
TypeTextApart == <<Once(<<"probe">>), Retried(ClickElement \o <<"select">>), Retried(Text)>>

\* Click, select what the field holds, and type over it.
TypeText == <<Once(<<"probe">>), Retried(ClickElement \o <<"select">> \o Text)>>

\* In a frame the keys are a block of their own.
TypeFramed == <<Retried(<<"probe">>), Once(ClickPoint), Retried(<<"probe">>),
                Retried(<<"select">>), Retried(Text)>>

\* In a frame of SAP WebGUI the field is emptied by keys, left, and read back.
TypeFramedSap == <<Retried(<<"probe">>), Once(ClickPoint), Retried(<<"probe">>),
                   Retried(<<"select">>), Retried(<<"clear">>), Retried(Text),
                   Retried(<<"commit">>), Retried(<<"read">>)>>

\* In a frame the click goes to a point that the frame's script found.
InvokeFramed == <<Retried(<<"probe">>), Once(ClickPoint)>>

PressKey == <<Retried(<<"commit">>)>>
TypeFocused == <<Once(Text)>>
Navigate == <<Once(<<"commit">>)>>
ScrollPage == <<Once(<<"commit", "read">>)>>

Program(kind, locator) ==
    CASE kind = "click"        -> IF locator = "framed" THEN InvokeFramed ELSE Invoke
      [] kind = "click at"     -> ClickAt
      [] kind = "right click"  -> ContextClick
      [] kind = "double click" -> DoubleClick
      [] kind = "hover"        -> Hover
      [] kind = "drag"         -> DragMouse
      [] kind = "check"        -> SetChecked
      [] kind = "select"       -> SelectOptions
      [] kind = "type"         -> IF locator = "framed" THEN TypeFramed
                                  ELSE IF locator = "sap" THEN TypeFramedSap ELSE TypeText
      [] kind = "fill"         -> ClearText \o TypeText
      [] kind = "upload"       -> SetFiles
      [] kind = "scroll"       -> ScrollTo
      [] kind = "remember"     -> ReadText
      [] kind = "press"        -> PressKey
      [] kind = "type here"    -> TypeFocused
      [] kind = "navigate"     -> Navigate
      [] kind = "scroll page"  -> ScrollPage

---------------------------------------------------------------------------
(* What a call does when it arrives.                                       *)

Controls(kind) ==
    [field : {<<"old">>}, selected : {FALSE}, button : {"up"}, clicks : {0},
     checked : IF kind = "check" THEN BOOLEAN ELSE {FALSE}]

Typed(character) ==
    [control EXCEPT !.field = IF control.selected THEN <<character>> ELSE Append(@, character),
                    !.selected = FALSE]

\* A click may or may not take effect on the control it lands on.
Effects(kind, call) ==
    CASE call = "press"   -> {[control EXCEPT !.button = "down", !.selected = FALSE]}
      [] call = "release" -> {[control EXCEPT !.button = "up", !.checked = c, !.clicks = @ + 1] :
                                 c \in IF kind = "check" THEN BOOLEAN ELSE {FALSE}}
      [] call = "select"  -> {[control EXCEPT !.selected = TRUE]}
      [] call = "clear"   -> {[control EXCEPT !.field = <<>>, !.selected = FALSE]}
      [] call \in {Text[i] : i \in DOMAIN Text} -> {Typed(call)}
      [] OTHER            -> {control}

\* The calls that an application can answer with a dialog.
Opens == {"release", "commit"} \cup {Text[i] : i \in DOMAIN Text}

\* What is read back: the state that was asked for, or the application's word.
ReadsBack(kind, locator) ==
    IF kind = "check" THEN {control.checked}
    ELSE IF locator = "sap" THEN {control.field = Text} ELSE BOOLEAN

\* What the page itself refuses.
Refused(call, rung) ==
    \/ call = "find" /\ rung \notin page.rungs
    \/ call = "uncovered" /\ ActionabilityGate(rung) # "open"
=============================================================================

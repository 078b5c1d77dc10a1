SPECIFICATION Spec
CONSTANTS Subjects = {"drafts", "drafts at once", "frame", "handle", "menus", "life", "config", "ajax", "images", "fetch"}
          Requests = {"xhr", "post", "jsonp", "timed"}
          Jsonp = {"jsonp", "timed"}
          TimeOut = {"timed"}
          Popups = {"colors", "list", "context", "table", "align"}
          Menus = {"list", "context", "table"}
          Buttons = {"forecolor", "paragraph"}
          ButtonPopup <- PopupOfButton
          Elements <- Items
          Within <- PopupOfItem
          SubMenu <- SubMenuOfItem
          ContextMenu = "context"
          Combo = "paragraph"
          ValueOf <- ValueOfItem
          UnknownValue = "h9"
          Page = "page"
          Nothing = "none"
INVARIANTS FrameFollows StartIsOrdered ToldOnce ShowsOwnPicture
PROPERTIES DraftsAreSound MenusFollowMouse WaitsEnd
CHECK_DEADLOCK FALSE

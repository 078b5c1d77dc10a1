SPECIFICATION Spec
CONSTANTS Subjects = {"frame"}
          Requests = {}
          Jsonp = {}
          TimeOut = {}
          Popups = {"colors", "list", "context", "table", "align"}
          Menus = {"list", "context", "table"}
          Buttons = {"forecolor", "paragraph"}
          ButtonPopup <- PopupOfButton
          Elements <- Items
          Within <- PopupOfItem
          SubMenu <- SubMenuOfItem
          ContextMenu = "context"
          Combo = "paragraph"
          ValueOf <- ValueOfItem
          UnknownValue = "h9"
          Page = "page"
          Nothing = "none"
PROPERTIES NoAutoHeightInFullScreen
CHECK_DEADLOCK FALSE
